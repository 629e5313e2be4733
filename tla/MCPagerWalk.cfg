SPECIFICATION Spec
CONSTANTS
  MaxRow = 5
  Limit = 1
  Views <- TextsThenNull
  Faults = {}
  MaxCalls = 4
  MaxPending = 1
  MaxChanges = 0
INVARIANTS
  WalkIsWhole
CHECK_DEADLOCK FALSE
