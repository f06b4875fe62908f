SPECIFICATION FairMSpec
CONSTANTS
  Letter = {"a", "E"}
  Digit = {"0", "1"}
  Blank = {" "}
  Other = {"#"}
  Reserved <- MCReserved
  Lines <- MCLines
  MAX_ID_LEN = 2
  MAX_INT_LEN = 2
  MAX_REAL_XX_LEN = 2
  MAX_REAL_YY_LEN = 1
  MAX_REAL_ZZ_LEN = 1
INVARIANTS ReadsStayOnLine MarksAreSet LongestLexeme MachineInvariant
PROPERTY LineEnds
CHECK_DEADLOCK FALSE
