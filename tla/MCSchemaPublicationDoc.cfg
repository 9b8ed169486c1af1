SPECIFICATION FairSpec
CONSTANTS
  Request = {r1, r2}
  SchemaId = {s1, s2}
  Name = {n1}
  Attrs = {a1, a2}
  None = None
  MaxPolls = 2
  MaxPosts = 3
  MaxFaults = 0
INVARIANT
  PublishedIsRegistered
