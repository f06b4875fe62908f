SPECIFICATION ParserSpec
CONSTANTS
  Beginnings <- MCBeginnings
  Alphabet <- MCAlphabet
  MaxFree = 2
INVARIANTS
  MessageMakesSense
CHECK_DEADLOCK FALSE
