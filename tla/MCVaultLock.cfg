CONSTANTS
  Conn = {c1}
  Shell = {}
  Tab = {t1}
  Kind <- AllSshTabs
  Closer = {l1}
  UserCloser = {}
  MaxClicks = 1
  MaxTries = 1
  MaxUsers = 1
  AutoReconnect = FALSE
  None = None
  Fwd = {f1}
  Start = {w1}
  RowOf <- OnlyRow
  Stopper = {l1}
  UserStopper = {}
  PortOf <- OnePort
  KindOf <- AllRemote
  LockCall = {l1}
SPECIFICATION LockFairSpec
INVARIANT LockTypeOK
INVARIANT LockCovers
PROPERTY LockCompletes
CHECK_DEADLOCK FALSE
