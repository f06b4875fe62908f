SPECIFICATION HandSpec
CONSTANTS
  Beginnings <- MCBeginnings
  Alphabet <- MCAlphabet
  MaxFree = 1
  Name = {a, b, d}
  VarType = {"INT"}
  Count = {0, 1, 2, 3, 4, 5, 6, 7, 8}
  MaxEntries = 8
SYMMETRY NameSymmetry
INVARIANTS
  DuplicatesAreReported
CHECK_DEADLOCK FALSE
