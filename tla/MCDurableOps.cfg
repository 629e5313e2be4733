SPECIFICATION Spec
CONSTANTS
  Calls = {c1, c2}
  Keys = {k1, k2}
  NullKey = null
  NoCall = nobody
  Forms <- MostForms
  Faults <- AllFaults
INVARIANTS
  TypeOK
  SuccessMeansDurable
  ErrorHasCauseElsewhere
  ErrorTellsOfFailure
  AnsweredOnce
PROPERTIES
  EveryCallAnswered
CHECK_DEADLOCK FALSE
