\* One terminal address and two successive connections to it, so that the
\* reader of an old connection meets its successor; two callers.
SPECIFICATION Spec
CONSTANTS
  Keys = {k1}
  Conns = {c1, c2}
  Callers = {p1, p2}
  Types = {"pocket", "jsp"}
  Free = Free
  MainLoop = MainLoop
  NoConn = NoConn
  NoKey = NoKey
INVARIANTS
  TypeOK
  OpenSocketIsEntry
  EntryHasReader
  NoTerminalForgotten
  RemovedStaysRemoved
PROPERTIES
  FrozenWhileHeld
SYMMETRY Symmetry
CHECK_DEADLOCK FALSE
