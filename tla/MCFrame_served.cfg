\* One capsule at a time, with a fixed part, and a plugin slot of the main program.
CONSTANTS
  A = A  B = B  o1 = o1  o2 = o2  p1 = p1  x1 = x1  x2 = x2
  NULL = null
  Controller <- TwoControllers
  OptSlot <- OneSlot
  PlugSlot <- OnePlug
  Owner <- Main
  Capsule <- TwoCapsules
  Roles <- FixedOnly
  MaxSignals = 1
SPECIFICATION Spec
PROPERTIES DestroyReturns CommandsTakeEffect
CHECK_DEADLOCK FALSE
