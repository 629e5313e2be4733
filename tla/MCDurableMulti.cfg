SPECIFICATION Spec
CONSTANTS
  Calls = {c1, c2}
  Keys = {k1}
  NullKey = null
  NoCall = nobody
  Forms <- MultiForms
  Faults = {}
INVARIANTS
  NoFalseAlarm
CHECK_DEADLOCK FALSE
