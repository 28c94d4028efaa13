SPECIFICATION Spec
CONSTANTS
  Shapes = {"literals", "positions", "nuls", "long"}
  Inputs <- MCInputs
  keywords <- MCkeywords
  TailWidth = 1
  tab_size = 4
  NonAscii <- MCNonAscii
  countl_one <- MCcountl_one
  XidStart = {}
  XidContinue = {}
  source_size_max = 9
INVARIANTS
  ParserInputReady
  AcceptedIsRead
  AcceptedIsWhole
  LocationsExact
  ReportsFormatted
PROPERTIES
  BuildEnds
