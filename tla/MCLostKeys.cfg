SPECIFICATION Spec
CONSTANTS
  MaxOps = 1
  MaxErrors = 0
  Shapes <- SpooledShapes
  Faults = {"execute"}
  DestroyPurges = TRUE
INVARIANTS
  ResultsHaveAllKeys
CHECK_DEADLOCK FALSE
