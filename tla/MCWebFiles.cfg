\* Two threads, two connections, files that may be replaced.
SPECIFICATION FairSpec
CONSTANTS
  Threads = {t1, t2}
  root = root  picture = picture  bare = bare  odd = odd  number = number
  page = page  png = png
  Uris <- MCUris
  IndexUris = {root}
  Index = page
  PathOf <- MCPathOf
  Suffix <- MCSuffix
  NoPeriod = NoPeriod
  Number = number
  Absent = Absent
  Joined <- MCJoined
  Paths = {page, png}
  Stored = {page, png}
  SizeOf <- MCSizeOf
  WordOf <- MCWordOf
  MAXBUF = 4
  HEADER = 1
  MaxRequests = 2
INVARIANTS
  PageIntact
  AnswersRequest
PROPERTIES
  RequestsEnd
CHECK_DEADLOCK FALSE
