SPECIFICATION DeclSpec
CONSTANTS
  Name = {a, b}
  VarType = {"INT"}
  Count = {}
  MaxEntries = 6
SYMMETRY NameSymmetry
INVARIANTS
  DeclInvariant
  LookupIsInnermost
  SiblingsAreDistinct
  SignatureAgrees
PROPERTIES
  ImplementsScopes
CHECK_DEADLOCK FALSE
