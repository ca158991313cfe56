\* One port that connects, one that listens.
CONSTANTS
  Port <- Ports
  Listener <- Second
  Fd <- Two
  MaxConn = 2
  MaxLine = 2
  Leaver <- First
  MaxCall = 2
  Patient = TRUE
SPECIFICATION Spec
INVARIANTS TypeOK MapsAgree SignalsInOrder WrittenInOrder EndsOnlyAfterLoss
CHECK_DEADLOCK FALSE
