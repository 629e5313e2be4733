SPECIFICATION Spec
CONSTANTS
  DefaultSize = 4
  Width32 = 3
  Width64 = 4
  Plans <- DocumentedPlans
INVARIANTS
  OptionsAsDocumented
CHECK_DEADLOCK FALSE
