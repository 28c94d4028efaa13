SPECIFICATION Spec
CONSTANTS
  Views = {"a", "b", "c"}
  MaxHandle = 5
  MaxSize = 2
  MaxVersion = 1
INVARIANTS
  TypeOK
  NeverAborts
  ErrorIsCause
  TextWhole
PROPERTIES
  ImplementsOwnership
