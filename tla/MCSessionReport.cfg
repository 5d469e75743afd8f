\* The instance of MCSession.cfg: does a report follow a pass?
SPECIFICATION Spec
CONSTANTS
  Sessions = {s1}
  Keys = {k1}
  MainLoop = MainLoop
  NoSession = NoSession
  NoKey = NoKey
  Cameras = {TRUE, FALSE}
  Autofix = FALSE
  NoKpoPass = TRUE
INVARIANT
  ReportFollowsPass
SYMMETRY Symmetry
CHECK_DEADLOCK FALSE
