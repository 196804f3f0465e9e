SPECIFICATION Spec
CONSTANTS
  ShortMax = 1
  Chunk = 2
  Names = {n1, n2}
  Literals <- ShortTexts
  MaxSize = 4
INVARIANTS
  TypeOK
  OneOwner
  CmpIsOrder
PROPERTIES
  StrImplementsLists
  VecImplementsLists
CHECK_DEADLOCK FALSE
