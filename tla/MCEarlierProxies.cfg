\* Two threads, three requests, one tick of the clock, both builds.
SPECIFICATION Spec
CONSTANTS
  a1 = a1  a2 = a2  b1 = b1  c1 = c1  x1 = x1
  ha = ha  hb = hb  hc = hc  hx = hx
  one = one  two = two
  f1 = f1  f2 = f2  f3 = f3  f4 = f4  fx = fx
  None = None
  Prefixed <- Harmless
  Garbled = Garbled
  Threads = {t1, t2}
  Urls <- MCUrls
  Hosts <- MCHosts
  HostOf <- MCHostOf
  Files <- MCFiles
  FileOf <- OwnFiles
  Addresses = {one, two}
  AddressOf <- MCAddressOf
  Writable = {f1, f2, f3}
  Timeout = 0
  MaxTime = 1
  MaxRequests = 3
INVARIANTS
  PageAsked
  
  FreshHost
SYMMETRY Same
CHECK_DEADLOCK FALSE
