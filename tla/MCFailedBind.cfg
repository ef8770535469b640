SPECIFICATION TxnSpec
CONSTANTS
  a1 = a1
  a2 = a2
  b1 = b1
  b2 = b2
  c1 = c1
  c3 = c3
  i1 = i1
  i3 = i3
  p1 = p1
  p2 = p2
  Earlier = Earlier
  AccountOf <- MCAccountOf
  PlayerOf <- MCPlayerOf
  BindingRank <- MCBindingRank
  KeyRank <- MCKeyRank
  Accounts = {a1, a2}
  Players = {p1, p2}
  Requests = {r1, r2}
  Bindings = {b1, b2}
  Cookies = {c1, c3}
  Devices = {d1}
  Idents = {i1, i3}
  Discoveries <- OneProfile
  FailureStatuses <- OneFailure
  Ops = {"bind"}
  Overlap = TRUE

PROPERTY FailedBindChangesNothing
CHECK_DEADLOCK FALSE
