SPECIFICATION Spec
CONSTANTS
  Shapes = {"expressions", "returns", "operators", "signatures"}
  Inputs <- MCInputs
  source_size_max = 100
INVARIANTS
  RoundTrip
  PrecedenceRespected
  ShiftsAreAdjacent
