SPECIFICATION TypeSpec
CONSTANTS
  Symbols <- MCSymbols
  Undefined = {"u"}
  MaxTokens = 4
INVARIANTS SilentMeansWellTyped WellTypedIsSilent NoCascade
CHECK_DEADLOCK FALSE
