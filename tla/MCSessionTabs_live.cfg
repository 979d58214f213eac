CONSTANTS
  Conn = {c1, c2}
  Shell = {}
  Tab = {t1}
  Kind <- AllSsh
  Closer = {k1}
  MaxClicks = 1
  MaxTries = 2
  MaxUsers = 1
  AutoReconnect = TRUE
  UserCloser = {k1}
  None = None
SPECIFICATION FairSpec
INVARIANT TypeOK
INVARIANT OrphansNeedOverlap
PROPERTY ConnectingEnds
PROPERTY CloserEnds
PROPERTY AutoLoopEnds
CHECK_DEADLOCK FALSE
