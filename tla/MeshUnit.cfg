SPECIFICATION UnitSpec
CONSTANTS
  Workers = {w1, w2}
  MaxSeq = 2
  MaxLives = 2
  None = None
  MaxKeys = 2
  Empty = Empty
INVARIANTS
  TypeOK
  NumbersUnique
  IdentityKept
PROPERTIES
  CallAttaches
