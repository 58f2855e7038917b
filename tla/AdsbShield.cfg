SPECIFICATION Spec
CONSTANTS
  Blank = Blank
  Junk = Junk
  Exact = Exact
  None = None
  Contents <- MCContents
  MaxVersion = 2
  MaxKills = 1
  MaxBoots = 2
INVARIANTS RoundedOnceShielded
PROPERTIES ShieldKeepsUp
