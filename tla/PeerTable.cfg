SPECIFICATION Spec
CONSTANTS
  Fingerprints = {b1}
  WifiPeers = {b1}
  LoraThreads = {lora1, lora2}
  WifiThreads = {wifi}
  Workers = {w1}
  MaxSeq = 2
  MaxAccepts = 3
  None = None
INVARIANTS TypeOK AcceptsIncrease DecisionsStick
PROPERTY ImplementsRegistry
SYMMETRY Alike
