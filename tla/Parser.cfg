SPECIFICATION ParserSpec
CONSTANTS
  Beginnings <- MCBeginnings
  Alphabet <- MCAlphabet
  MaxFree = 4
INVARIANTS
  NoFalseAlarm
  OperandsResume
  RecursionConsumes
  ParserInvariant
PROPERTIES
  Terminates
CHECK_DEADLOCK FALSE
