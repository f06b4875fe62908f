SPECIFICATION HandSpec
CONSTANTS
  Beginnings <- MCBeginnings
  Alphabet <- MCAlphabet
  MaxFree = 2
  Name = {a, b}
  VarType = {"INT"}
  Count = {0, 1, 2, 3, 4, 5, 6, 7, 8}
  MaxEntries = 8
SYMMETRY NameSymmetry
INVARIANTS
  ExitFollowsEnter
CHECK_DEADLOCK FALSE
