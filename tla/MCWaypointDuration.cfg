SPECIFICATION FairSpec
CONSTANTS
  BatchSize = 2
  MaxTimeouts = 3
  Duration = 2
  MaxEvents = 2
  MaxClock = 6
INVARIANT
  ConnectionBounded
