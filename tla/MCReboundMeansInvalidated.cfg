SPECIFICATION Spec
CONSTANTS
  a1 = a1
  a2 = a2
  c1 = c1
  c2 = c2
  c3 = c3
  None = None
  AccountOf <- MCAccountOf
  Accounts = {a1, a2}
  Requests = {r1, r2}
  Bindings = {b1}
  Cookies = {c1, c3}
  Players = {p1}
  Lifetimes = {2}
  SetDelay = 1
  MaxTime = 2
  Ops = {"get", "bind"}
  Overlap = TRUE
INVARIANT ReboundMeansInvalidated
CHECK_DEADLOCK FALSE
