CONSTANTS
  Device = {d1}
  Item = {i1}
  Watched = {i1}
  MaxCommits = 2
SPECIFICATION SyncSpec
PROPERTY PullKeepsUnpushed
CHECK_DEADLOCK FALSE
