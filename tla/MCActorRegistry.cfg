SPECIFICATION FairSpec
CONSTANTS
  Request = {r1, r2, r3}
  i1 = i1
  i2 = i2
  n1 = n1
  n2 = n2
  d1 = d1
  d2 = d2
  v1 = v1
  m1 = m1
  Id = {i1, i2}
  Name = {n1, n2}
  Did = {d1, d2}
  Invitation = {v1}
  Image = {m1}
  None = None
  Calls <- MCCalls
INVARIANTS
  TypeOK
  UniqueKeys
  NoTornRow
PROPERTIES
  EveryRequestAnswered
  Atomic
