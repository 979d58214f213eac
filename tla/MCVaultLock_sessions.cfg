CONSTANTS
  Conn = {c1}
  Shell <- AllConn
  Tab = {t1}
  Kind <- AllLocalTabs
  Closer = {l1}
  UserCloser = {}
  MaxClicks = 1
  MaxTries = 1
  MaxUsers = 0
  AutoReconnect = FALSE
  None = None
  Fwd = {f1}
  Start = {w1}
  RowOf <- OnlyRow
  Stopper = {l1}
  UserStopper = {}
  PortOf <- OnePort
  KindOf <- AllRemote
  LockCall = {l1}
SPECIFICATION LockSpec
INVARIANT NoSessionBehindLock
CHECK_DEADLOCK FALSE
