\* Four entries at two addresses and none, two lists, one retry, one break.
SPECIFICATION Spec
CONSTANTS
  gate1 = gate1
  gate2 = gate2
  ip1 = ip1
  ip2 = ip2
  NotAnIP = NotAnIP
  NoSettings = NoSettings
  NoConnection = NoConnection
  e1 = e1
  e2 = e2
  e3 = e3
  e4 = e4
  Entries = {e1, e2, e3, e4}
  Told <- MCTold
  Offers <- MCOffers
  DefaultPort <- MCDefaultPort
  Passing = {ip1, ip2, NotAnIP}
  MaxRetries = 1
  MaxTasks = 1
  MaxDrops = 1
INVARIANTS
  TypeOK
  ConnectedIsShown
PROPERTIES
  CheckEnds
  ListedTerminalIsServed
CHECK_DEADLOCK FALSE
