CONSTANTS
  Fwd = {f1}
  Start = {w1, w2}
  RowOf <- OnlyRow
  Stopper = {s1}
  UserStopper = {s1}
  PortOf <- OnePort
  KindOf <- AllLocal
SPECIFICATION FwdSpec
INVARIANT DeletedIsStopped
CHECK_DEADLOCK FALSE
