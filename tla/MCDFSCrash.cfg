SPECIFICATION FairSpec
CONSTANTS
  t1 = t1
  t2 = t2
  c1 = c1
  c2 = c2
  ann = ann
  bob = bob
  pwA = pwA
  pwB = pwB
  f = f
  base = base
  v1 = v1
  v2 = v2
  none = none
  Servers <- MCServers
  Threads <- OneThread
  Users <- JustAnn
  Passwords <- MCPasswords
  Accounts <- MCAccounts
  Prefixes <- NoPrefixes
  KnownUsers <- JustAnn
  Names <- MCNames
  Subs <- NoSubs
  Base = base
  Contents <- OneContent
  Length <- Lengths
  MAXBUF = 2
  Block = 2
  None = none
  Clients <- OneClient
  Login <- AnnLogin
  Plans <- FewCommands
  Stored <- FirstVersion
  Digest <- OtherDigests
  MaxDown = 1
  MaxFiles = 5
  Patient = TRUE
  Outages = "any"
  MayKill = TRUE
INVARIANTS
  InStep
PROPERTIES
  CommandsFinishOrSpin
CHECK_DEADLOCK FALSE
