SPECIFICATION Spec
CONSTANTS
  Shapes = {"words"}
  Sources <- MCSources
  keywords <- MCkeywords
  TailWidth = 1
  NonAscii <- MCNonAscii
  countl_one <- MCcountl_one
  XidStart <- MCXidStart
  XidContinue <- MCXidContinue
  source_size_max = 100
INVARIANTS
  IdentifiersHoldNoRefusedChar
