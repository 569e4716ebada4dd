CONSTANTS
  Threads = {t1, t2}
  Users = {u1, u2}
  Plain = {p1}
  Socks = {s1, s2}
  MaxOps = 3
  MaxCrashes = 1
  NoProxy = NoProxy
  Bridge = Bridge
SPECIFICATION Spec
CHECK_DEADLOCK FALSE
SYMMETRY Symmetry
INVARIANTS
  CookiesAreImported
  TrafficThroughProxy
