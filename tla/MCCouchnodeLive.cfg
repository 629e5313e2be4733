SPECIFICATION Spec
CONSTANTS
  MaxOps = 2
  MaxErrors = 1
  Shapes <- KeyedShapes
  Faults <- AllFaults
  DestroyPurges = FALSE
PROPERTIES
  LostForGood
  EveryOpEnds
CHECK_DEADLOCK FALSE
