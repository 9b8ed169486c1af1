SPECIFICATION FairSpec
CONSTANTS
  BatchSize = 2
  MaxTimeouts = 3
  Duration = 2
  MaxEvents = 3
  MaxClock = 4
INVARIANTS
  TypeOK
  NothingPassedOver
  OneSubscription
  NoFetchAfterEnd
PROPERTY
  EndsAndReleases
