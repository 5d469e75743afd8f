\* Three messages of each protocol, read cut in every way.  The system stops
\* where a packet that cannot be decoded ends the daemon.
SPECIFICATION Spec
CONSTANTS
  Conversations <- MCConversations
  ReadSizes = {1, 4, 15}
  Denials <- MCDenials
INVARIANTS
  TypeOK
  CutsDoNotMatter
  ReportsWhatArrived
  NothingInvented
  LockersBelongToCard
CHECK_DEADLOCK FALSE
