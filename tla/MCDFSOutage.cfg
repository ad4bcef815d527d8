SPECIFICATION FairSpec
CONSTANTS
  t1 = t1
  t2 = t2
  c1 = c1
  c2 = c2
  ann = ann
  bob = bob
  pwA = pwA
  pwB = pwB
  f = f
  base = base
  v1 = v1
  v2 = v2
  none = none
  Servers <- MCServers
  Threads <- OneThread
  Users <- JustAnn
  Passwords <- MCPasswords
  Accounts <- MCAccounts
  Prefixes <- NoPrefixes
  KnownUsers <- JustAnn
  Names <- MCNames
  Subs <- NoSubs
  Base = base
  Contents <- OneContent
  Length <- Lengths
  MAXBUF = 8192
  Block = 2
  None = none
  Clients <- OneClient
  Login <- AnnLogin
  Plans <- PutThenRead
  Stored <- Nothing
  Digest <- OtherDigests
  MaxDown = 1
  MaxFiles = 20
  Patient = TRUE
  Outages = "idle"
  MayKill = FALSE
INVARIANTS
  TypesOK
  SurvivesOneOutage
  FreesWhatItAllocated
  ReadsOwnPut
  OnlyWholeParts
  RefusedOnlyIfInvalid
PROPERTIES
  CommandsFinish
CHECK_DEADLOCK FALSE
