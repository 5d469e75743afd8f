\* One session of one terminal, every interleaving of its goroutines; under
\* fairness it ends, whether 1C answers or not.  The fallback verdict is YES,
\* so that a session may be granted by 1C, by the fallback or by a face.
SPECIFICATION FairSpec
CONSTANTS
  Sessions = {s1}
  Keys = {k1}
  MainLoop = MainLoop
  NoSession = NoSession
  NoKey = NoKey
  Cameras = {TRUE, FALSE}
  Autofix = TRUE
  NoKpoPass = TRUE
INVARIANTS
  TypeOK
  StageHasData
  AllowedOnlyIfGranted
  LogMatchesAnswer
  RepeatsAreBounded
PROPERTIES
  CompletedIsFinal
  DecisionIsKept
  SessionEnds
CHECK_DEADLOCK FALSE
