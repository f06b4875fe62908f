SPECIFICATION MainSpec
CONSTANTS
  Beginnings <- MCBeginnings
  Alphabet <- MCAlphabet
  MaxFree = 5
  Fresh <- AnyMemory
INVARIANTS ZeroMeansSuccess StatusSaysWhich
PROPERTY ProgramEnds
CHECK_DEADLOCK FALSE
