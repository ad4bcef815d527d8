\* Two parts, reads that return any number of bytes, a sender that may hang up.
SPECIFICATION FairSpec
CONSTANTS
  Sizes <- MCSizes
  MAXBUF = 3
  HEADER = 3
  TEXT = 2
INVARIANTS
  FullReadsStoreParts
  ClientMendsShortBlocks
  ServerOnlyPads
  LostOnlyAfterShortRead
PROPERTIES
  TransferEnds
CHECK_DEADLOCK FALSE
