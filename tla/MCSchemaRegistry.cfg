SPECIFICATION Spec
CONSTANTS
  Request = {r1, r2, r3}
  d1 = d1
  n1 = n1
  x1 = x1
  x2 = x2
  k1 = k1
  s1 = s1
  m1 = m1
  Did = {d1}
  Name = {n1}
  Version = {x1, x2}
  Cheqd = {k1}
  CheqdDid <- MCCheqdDid
  TooShort = {s1}
  Mismatched = {m1}
  None = None
  Calls <- MCCalls
INVARIANTS
  TypeOK
  IdMatchesColumns
PROPERTIES
  CheqdStays
  Atomic
