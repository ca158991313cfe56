\* Two threads share three signals.
CONSTANTS
  a = a  b = b  s1 = s1  s2 = s2  s3 = s3  e1 = e1  e2 = e2
  NULL = null
  Thread <- Threads
  Signal <- Signals
  Element <- Elements
  Size <- Sizes
  MaxInit = 4
SPECIFICATION Spec
SYMMETRY Symmetry
CHECK_DEADLOCK FALSE
INVARIANTS TypeOK NoneLeaks SignalKeepsItsElement
