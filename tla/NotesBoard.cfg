SPECIFICATION Spec
CONSTANTS
  Workers = {w1, w2}
  Clients = {c1}
  ShortWindow = 0
  LongWindow = 1
  LimitShort = 1
  LimitLong = 2
  MaxTime = 2
  MaxPosts = 4
  None = None
INVARIANTS
  TypeOK
  VisibleSpacing
  VisibleCeiling
  IdsNeverReused
  HandedOnce
PROPERTY
  ImplementsBoard
CHECK_DEADLOCK FALSE
SYMMETRY Symmetry
