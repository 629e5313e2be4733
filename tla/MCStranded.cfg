SPECIFICATION Spec
CONSTANTS
  MaxOps = 1
  MaxErrors = 1
  Shapes <- KeyedShapes
  Faults = {"error"}
  DestroyPurges = TRUE
PROPERTIES
  QueueEndsWithConnection
CHECK_DEADLOCK FALSE
