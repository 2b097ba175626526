SPECIFICATION Spec
CONSTANTS
  MaxArgs = 2
  MaxCalls = 3
  Settings <- AnySetting
INVARIANTS TypeOK CarefulOwnTexts NoEarlierText ClaimsAreCommitted EncodeFindsBuffer OneBufferUser
CHECK_DEADLOCK FALSE
