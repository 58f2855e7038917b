SPECIFICATION Spec
CONSTANTS
  Hubs = {a, b}
  Restarting = {b}
  MaxNotes = 3
  MaxRestarts = 2
  None = None
INVARIANTS
  FreshAccepted
CHECK_DEADLOCK FALSE
