SPECIFICATION Spec
CONSTANTS
  MaxArgs = 1
  MaxCalls = 2
  Settings <- DropMode
INVARIANT OwnTexts
CHECK_DEADLOCK FALSE
