SPECIFICATION ListenSpec
CONSTANTS
  Workers = {w1, w2}
  Modes = {"weather", "bands"}
  MaxChildren = 3
  None = None
  Pipeline = Pipeline
  Decoder = Decoder
INVARIANTS
  TypeOK
  OwnedChild
  IdleMeansQuiet
PROPERTIES
  LockReleased
  DongleReturns
