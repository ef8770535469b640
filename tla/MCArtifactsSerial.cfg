SPECIFICATION Spec
CONSTANTS
  a1 = a1
  a2 = a2
  c1 = c1
  c2 = c2
  c3 = c3
  None = None
  AccountOf <- MCAccountOf
  Accounts = {a1, a2}
  Requests = {r1, r2, r3, r4}
  Bindings = {b1}
  Cookies = {c1, c3}
  Players = {p1, p2}
  Lifetimes = {1, 2}
  SetDelay = 1
  MaxTime = 2
  Ops <- AllOps
  Overlap = FALSE
SYMMETRY RequestSymmetry
INVARIANTS AuthKeysStayInBinding ArtifactsAreCurrent CacheMirrorsRows
PROPERTIES IssuedOnce
CHECK_DEADLOCK FALSE
