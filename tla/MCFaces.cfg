\* Three faces before two cameras, one of them linked with a terminal; a ban of two units.
SPECIFICATION Spec
CONSTANTS
  c1 = c1
  c2 = c2
  p1 = p1
  p2 = p2
  t1 = t1
  k1 = k1
  s1 = s1
  s2 = s2
  Cameras = {c1, c2}
  People = {p1, p2}
  Terminals = {t1}
  Keys = {k1}
  Sessions = {s1, s2}
  NoTerminal = NoTerminal
  NoKey = NoKey
  Nobody = Nobody
  NoSession = NoSession
  CamLinks <- MCCamLinks
  IdLength <- MCIdLength
  Answers <- MCAnswers
  BanTime = 2
  PassOnly = {TRUE, FALSE}
  IdlePeriod = 2
  Take = 2
  MaxNow = 4
  MaxCaught = 3
SYMMETRY MCSymmetry
INVARIANTS
  TypeOK
  NobodyFromBefore
PROPERTIES
  BanHolds
  FaceWaitsForTerminal
CHECK_DEADLOCK FALSE
