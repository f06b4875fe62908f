SPECIFICATION FairTSpec
CONSTANTS
  Letter = {"a"}
  Digit = {"0"}
  Blank = {" "}
  Other = {"#"}
  Reserved <- MCReserved
  Sources <- MCSources
  Junk <- MCJunk
  MAX_LINE_LENGTH = 5
  MAX_ID_LEN = 3
  MAX_INT_LEN = 2
  MAX_REAL_XX_LEN = 2
  MAX_REAL_YY_LEN = 1
  MAX_REAL_ZZ_LEN = 1
INVARIANTS ErrorsAreDealtWithOnce TokenIsWhereItSays TokenizerInvariant
PROPERTIES ImplementsStream CallsReturn
CHECK_DEADLOCK FALSE
