\* Two threads, three requests, a document that changes once, one tick.
SPECIFICATION FairSpec
CONSTANTS
  Handlers = {t1, t2}
  page = page  ad = ad
  site = site  banner = banner  ipsite = ipsite  ipbanner = ipbanner  ipother = ipother
  Urls = {page, ad}
  Names = {site, banner, ipsite, ipbanner, ipother}
  Files = {page, ad}
  HostOf <- MCHostOf
  FileOf <- MCFileOf
  AddressOf <- MCAddressOf
  Blacklist <- MCBlacklist
  BlacklistFile = blacklist
  Unwritable = {ad}
  NoName = NoName
  NoFile = NoFile
  Garbled = Garbled
  Zeros = Zeros
  Recycled = TRUE
  Prefixed <- Harmless
  Versions = {1, 2}
  Length <- MCLength
  timeout = 0
  Changing = {page}
  MaxTime = 1
  MaxConnections = 3
  MaxSpin = 1
INVARIANTS
  NeverForbidden
  FileBehindNode
  WholeWhenUnwritten
  CachedAnswerWhole
CHECK_DEADLOCK FALSE
PROPERTIES
  RequestsEnd
