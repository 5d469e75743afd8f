\* Four lines in three seconds; a day of one second, a ring of two entries.
SPECIFICATION Spec
CONSTANTS
  Configs <- MCConfigs
  BufferSize = 2
  Kinds <- MCKinds
  Day = 1
  MaxNow = 3
  MaxLines = 4
INVARIANTS
  TypeOK
  LinesSurvive
  SizeIsBounded
  RecentLogsAreLatest
CHECK_DEADLOCK FALSE
