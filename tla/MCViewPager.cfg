SPECIFICATION Spec
CONSTANTS
  MaxRow = 4
  Limit = 1
  Views <- SomeViews
  Faults = {"refused", "broken", "partial", "status"}
  MaxCalls = 5
  MaxPending = 2
  MaxChanges = 1
INVARIANTS
  TypeOK
  EndIsEnd
  PrevGoesBack
  AnsweredOnce
PROPERTIES
  NoRowSkipped
  EveryCallAnswered
CHECK_DEADLOCK FALSE
