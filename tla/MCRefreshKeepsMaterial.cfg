SPECIFICATION Spec
CONSTANTS
  a1 = a1
  a2 = a2
  c1 = c1
  c2 = c2
  c3 = c3
  i1 = i1
  i2 = i2
  i3 = i3
  p1 = p1
  p2 = p2
  Earlier = Earlier
  AccountOf <- MCAccountOf
  PlayerOf <- MCPlayerOf
  Accounts = {a1, a2}
  Players = {p1, p2}
  Requests = {r1, r2, r3}
  Bindings = {b1}
  Cookies = {c1, c3}
  Devices = {d1}
  Idents = {i1, i3}
  Discoveries <- OneProfile
  FailureStatuses <- OneFailure
  Ops = {"bind", "refresh"}
  Overlap = TRUE
PROPERTY RefreshKeepsMaterial
CHECK_DEADLOCK FALSE
