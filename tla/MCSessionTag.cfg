\* The instance of MCSession.cfg: is an authenticated tag put to 1C?
SPECIFICATION Spec
CONSTANTS
  Sessions = {s1}
  Keys = {k1}
  MainLoop = MainLoop
  NoSession = NoSession
  NoKey = NoKey
  Cameras = {TRUE, FALSE}
  Autofix = FALSE
  NoKpoPass = TRUE
INVARIANT
  AuthenticatedTagIsChecked
SYMMETRY Symmetry
CHECK_DEADLOCK FALSE
