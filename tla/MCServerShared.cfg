SPECIFICATION OpenSpec
CONSTANTS
  s1 = s1
  t1 = t1
  t2 = t2
  ann = ann
  bob = bob
  pwA = pwA
  pwB = pwB
  f = f
  sub = sub
  base = base
  a1 = a1
  a2 = a2
  b1 = b1
  none = none
  Servers <- MCServers
  Threads <- TwoThreads
  Users <- TwoUsers
  Passwords <- MCPasswords
  Accounts <- TwoAccounts
  Prefixes <- NoPrefixes
  KnownUsers <- OneUser
  Names <- MCNames
  Subs <- OneSub
  Base = base
  Contents <- MCContents
  Length <- SomeEmpty
  MAXBUF = 8192
  Block = 2
  None = none
  Sessions <- SharedSessions
  MayHangUp = FALSE
  MayCrash = FALSE
SYMMETRY Alike
INVARIANTS
  TypeOK
  WholeWhenQuiet
  DirectoryReady
  OwnFiles
  ReplyFramed
CHECK_DEADLOCK FALSE
