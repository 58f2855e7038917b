SPECIFICATION Spec
CONSTANTS
  Hubs = {a, b}
  Restarting = {b}
  MaxNotes = 3
  MaxRestarts = 2
  None = None
INVARIANTS
  TypeOK
  FreshAcceptedWhileUp
CHECK_DEADLOCK FALSE
