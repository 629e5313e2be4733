SPECIFICATION Spec
CONSTANTS
  Ops = {o1, o2}
  MaxErrors = 2
  Callbacks <- AllCallbacks
  Faults <- AllFaults
INVARIANTS
  TypeOK
  OpsKeepHandle
  InstancesFreed
  MisuseHasCause
  ToldOnce
PROPERTIES
  CallbackCalled
CHECK_DEADLOCK FALSE
