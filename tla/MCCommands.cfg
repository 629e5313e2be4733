SPECIFICATION Spec
CONSTANTS
  DefaultSize = 4
  Width32 = 3
  Width64 = 4
  Plans <- AllPlans
INVARIANTS
  TypeOK
  OptionsHonoured
  NumbersArrive
  TextIntact
  OneOwner
  BuffersSound
  ErrorsReject
  
CHECK_DEADLOCK FALSE
