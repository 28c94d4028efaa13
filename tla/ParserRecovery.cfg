SPECIFICATION Spec
CONSTANTS
  Shapes = {"statements", "definitions"}
  Inputs <- MCInputs
  source_size_max = 100
INVARIANTS
  TypeOK
  RoundTrip
  ReportsInOrder
  RecoveryLosesLittle
PROPERTIES
  Termination
