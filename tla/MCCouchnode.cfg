SPECIFICATION Spec
CONSTANTS
  MaxOps = 2
  MaxErrors = 1
  Shapes <- AllShapes
  Faults <- AllFaults
  DestroyPurges = TRUE
INVARIANTS
  TypeOK
  NoUseAfterDelete
  CookieOutlivesUse
  NoLeakedCookie
  WholeAnswer
  ErrorIffFailure
  HandedInOrder
  ConnectOnce
  Inductive
PROPERTIES
  EndIsFinal
  NothingAfterShutdown
  ImplementsService
CHECK_DEADLOCK FALSE
