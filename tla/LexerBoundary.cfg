SPECIFICATION Spec
CONSTANTS
  Shapes = {"utf8", "mixed", "long"}
  Sources <- MCSources
  keywords <- MCkeywords
  TailWidth = 1
  NonAscii <- MCNonAscii
  countl_one <- MCcountl_one
  XidStart <- MCXidStart
  XidContinue <- MCXidContinue
  source_size_max = 4
INVARIANTS
  TypeOK
  TokensInOrder
  EndsOnce
  NothingLost
  ReportsInOrder
  FirstCharDecoded
PROPERTIES
  Termination
