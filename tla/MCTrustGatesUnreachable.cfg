SPECIFICATION Spec
CONSTANTS
  Request = {r1}
  t1 = t1
  l1 = l1
  s1 = s1
  k1 = k1
  Tenant = {t1, t2}
  Label = {l1, l2}
  None = None
  Legacy = {s1}
  Cheqd = {k1}
  Hidden = Hidden
  Calls <- MCCalls
  MaxChanges = 0
  MaxFaults = 1
INVARIANT
  UnregisteredIsBlocked
