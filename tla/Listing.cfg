SPECIFICATION ListSpec
CONSTANTS
  Name = {"a"}
  VarType = {"INT", "array", "wide", "long", "empty"}
  Count = {}
  MaxEntries = 4
  Declared <- MCDeclared
  INT_MAX = 127
INVARIANTS ListingIsOutline StorageIsDisjoint ListInvariant
CHECK_DEADLOCK FALSE
