SPECIFICATION BackendSpec
CONSTANTS
  Conn = {c1, c2}
  Shell = {c2}
  MaxUsers = 2
  Fwd = {f1}
  Start = {w1, w2}
  RowOf <- OnlyRow
  Stopper = {s1}
  UserStopper = {s1}
  PortOf <- OnePort
  KindOf <- AllLocal
  EDITS = {e1, e2}
  SAVES = 3
INVARIANT BackendTypeOK
INVARIANT NoUnreachableDriver
PROPERTY AnnouncedIsOver
PROPERTY LifecycleSpec
PROPERTY EndIsAnnounced
INVARIANT ListenersReachable
PROPERTY OverwriteSparesListener
PROPERTY StopFreesPort
PROPERTY SavesReachRemote
CHECK_DEADLOCK FALSE
