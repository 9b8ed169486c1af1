SPECIFICATION FairSpec
CONSTANTS
  c1 = c1
  c2 = c2
  c3 = c3
  g1 = g1
  g2 = g2
  f1 = f1
  f2 = f2
  junk = junk
  N = 3
  None = None
  Unknown = Unknown
  Cred = {c1, c2, c3}
  Registry = {g1, g2}
  RegistryOf <- MCRegistryOf
  TailsFile <- MCTailsFile
  File = {f1, f2, junk}
  WellFormed = {f1, f2}
  Calls <- MCCalls
  MaxFaults = 1
  ReadAttempts = 2
  RecordPolls = 2
  RecordAttempts = 2
INVARIANTS
  TypeOK
  StoredUnderItsHash
  DefinedIsRevocable
  SuccessIsKept
PROPERTIES
  EveryRequestEnds
