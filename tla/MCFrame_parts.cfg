\* Two capsules, each with a fixed and a plugin part.
CONSTANTS
  A = A  B = B  o1 = o1  o2 = o2  p1 = p1  x1 = x1  x2 = x2
  NULL = null
  Controller <- TwoControllers
  OptSlot <- TwoSlots
  PlugSlot <- NoPlug
  Owner <- Main
  Capsule <- TwoCapsules
  Roles <- Both
  MaxSignals = 1
SPECIFICATION Spec
SYMMETRY Alike
INVARIANTS TypeOK SignalsForOccupant NothingDangles FatalOnlyOnExit ImportsKept
CHECK_DEADLOCK FALSE
