SPECIFICATION Spec
CONSTANTS
  Shapes = {"cut_off"}
  Inputs <- MCInputs
  source_size_max = 100
INVARIANTS
  RecoversAtNextDefinition
