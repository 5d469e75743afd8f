\* The instance of MCConnPoolLive.cfg: is a scheduled reconnection attempted?
SPECIFICATION FairSpec
CONSTANTS
  Keys = {k1}
  Conns = {c1, c2}
  Callers = {p1}
  Types = {"jsp"}
  Free = Free
  MainLoop = MainLoop
  NoConn = NoConn
  NoKey = NoKey
PROPERTIES
  DueReconnectionIsAttempted
CHECK_DEADLOCK FALSE
