SPECIFICATION FairOpenSpec
CONSTANTS
  s1 = s1
  t1 = t1
  t2 = t2
  ann = ann
  bob = bob
  pwA = pwA
  pwB = pwB
  f = f
  sub = sub
  base = base
  a1 = a1
  a2 = a2
  b1 = b1
  none = none
  Servers <- MCServers
  Threads <- OneThread
  Users <- TwoUsers
  Passwords <- MCPasswords
  Accounts <- TwoAccounts
  Prefixes <- AnnIsPrefix
  KnownUsers <- OnlyBob
  Names <- MCNames
  Subs <- NoSubs
  Base = base
  Contents <- MCContents
  Length <- OtherLengths
  MAXBUF = 2
  Block = 4096
  None = none
  Sessions <- FaultSessions
  MayHangUp = TRUE
  MayCrash = TRUE
INVARIANTS
  OwnNumber
  OwnParts
PROPERTIES
  HandlersFinishOrSpin
CHECK_DEADLOCK FALSE
