\* Two ports that connect, and whose peers may hold the service in a write, one that listens.
CONSTANTS
  Port <- Three
  Listener <- Third
  Fd <- ThreeFds
  MaxConn = 2
  MaxLine = 0
  Leaver <- Nobody
  MaxCall = 2
  Patient = TRUE
SPECIFICATION Spec
PROPERTIES EndReported ClientAccepted
CHECK_DEADLOCK FALSE
