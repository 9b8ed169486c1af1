SPECIFICATION FairSpec
CONSTANTS
  Request = {r1, r2, r3}
  w1 = w1
  w2 = w2
  la = la
  lb = lb
  Wallet = {w1, w2}
  Label = {la, lb}
  None = None
  MaxFaults = 0
  Calls <- MCCalls
PROPERTY
  RolesNeverRevoked
