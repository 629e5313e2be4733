SPECIFICATION Spec
CONSTANTS
  MaxRow = 1
  Limit = 1
  Views <- OneRow
  Faults <- AllFaults
  MaxCalls = 1
  MaxPending = 1
  MaxChanges = 0
INVARIANTS
  ErrorIsTold
CHECK_DEADLOCK FALSE
