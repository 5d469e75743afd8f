------------------------------ MODULE MCLogger ------------------------------
EXTENDS Logger

MCKinds == {[level |-> "INFO", size |-> 1], [level |-> "DEBUG", size |-> 2]}

MCConfigs ==
  {[enabled |-> TRUE, size |-> 2, files |-> 1, days |-> 0],
   [enabled |-> TRUE, size |-> 3, files |-> 2, days |-> 1],
   [enabled |-> TRUE, size |-> 0, files |-> 0, days |-> 1],
   [enabled |-> FALSE, size |-> 2, files |-> 0, days |-> 0]}
=============================================================================
