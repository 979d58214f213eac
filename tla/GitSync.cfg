CONSTANTS
  Device = {d1}
  Item = {i1}
  Watched = {i1}
  MaxCommits = 2
SPECIFICATION SyncFairSpec
INVARIANT SyncTypeOK
INVARIANT UpToDateMeansApplied
PROPERTY PushKeepsTheRest
PROPERTY EditsAreShipped
CHECK_DEADLOCK FALSE
