SPECIFICATION Spec
CONSTANTS
  b1 = b1
  b2 = b2
  a1 = a1
  a2 = a2
  k1 = k1
  k2 = k2
  l1 = l1
  n1 = n1
  n2 = n2
  i1 = i1
  i2 = i2
  i3 = i3
  p1 = p1
  p2 = p2
  odd = odd
  None = None
  NoId = NoId
  NameOf <- MCNameOf
  PlayerOf <- MCPlayerOf
  Names = {n1, n2}
  Players = {p1, p2}
  Idents = {i1, i2, i3}
  Requests = {r1, r2, r3}
  Bindings = {b1}
  Accounts = {a1, a2}
  Consumers = {k1}
  Versions = {1}
  Discoveries <- MCDiscoveries
  OtherIds = {odd}
  Offers <- ProfileOffers
SYMMETRY RequestSymmetry
INVARIANTS TypeOK ConfinedSeesOwn DeletedProfileRefused
CHECK_DEADLOCK FALSE
