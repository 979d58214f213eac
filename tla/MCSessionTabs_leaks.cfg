CONSTANTS
  Conn = {c1, c2, c3}
  Shell <- AllConn
  Tab = {t1}
  Kind <- AllLocal
  Closer = {k1}
  MaxClicks = 1
  MaxTries = 1
  MaxUsers = 0
  AutoReconnect = FALSE
  UserCloser = {k1}
  None = None
SPECIFICATION Spec
SYMMETRY ConnSymmetry
INVARIANT OrphansNeedOverlap
CHECK_DEADLOCK FALSE
