\* Liveness: one terminal of type jsp, whose reader can both lock itself out
\* and spin, two successive connections, one caller; no symmetry.
SPECIFICATION FairSpec
CONSTANTS
  Keys = {k1}
  Conns = {c1, c2}
  Callers = {p1}
  Types = {"jsp"}
  Free = Free
  MainLoop = MainLoop
  NoConn = NoConn
  NoKey = NoKey
PROPERTIES
  ClosedSocketIsReaped
CHECK_DEADLOCK FALSE
