CONSTANTS
  Name = {a, b}
  VarType = {"INT"}
  Count = {1}
  MaxEntries = 4
SPECIFICATION Spec
SYMMETRY NameSymmetry
INVARIANTS
  EyeIsLast
  TableInvariant
PROPERTIES
  LinksAreWrittenOnce
CHECK_DEADLOCK FALSE
