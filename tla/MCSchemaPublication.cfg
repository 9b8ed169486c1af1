SPECIFICATION FairSpec
CONSTANTS
  Request = {r1, r2, r3}
  SchemaId = {s1, s2}
  Name = {n1}
  Attrs = {a1, a2}
  None = None
  MaxPolls = 2
  MaxPosts = 2
  MaxFaults = 2
INVARIANTS
  TypeOK
  RegisteredIsFinished
  SuccessIsPublished
  UnregisteredIsKnown
PROPERTY
  EveryRequestEnds
