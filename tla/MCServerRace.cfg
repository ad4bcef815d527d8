SPECIFICATION OpenSpec
CONSTANTS
  s1 = s1
  t1 = t1
  t2 = t2
  ann = ann
  bob = bob
  pwA = pwA
  pwB = pwB
  f = f
  sub = sub
  base = base
  a1 = a1
  a2 = a2
  b1 = b1
  none = none
  Servers <- MCServers
  Threads <- TwoThreads
  Users <- OneUser
  Passwords <- MCPasswords
  Accounts <- OneAccount
  Prefixes <- NoPrefixes
  KnownUsers <- Nobody
  Names <- MCNames
  Subs <- NoSubs
  Base = base
  Contents <- MCContents
  Length <- SameLengths
  MAXBUF = 8192
  Block = 4096
  None = none
  Sessions <- AnnSessions
  MayHangUp = FALSE
  MayCrash = FALSE
INVARIANTS
  NeverExits
