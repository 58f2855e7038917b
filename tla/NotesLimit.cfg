SPECIFICATION Spec
CONSTANTS
  Workers = {w1}
  Clients = {c1}
  ShortWindow = 1
  LongWindow = 4
  LimitShort = 1
  LimitLong = 2
  MaxTime = 4
  MaxPosts = 3
  None = None
INVARIANTS
  PostsCeiling
CHECK_DEADLOCK FALSE
