SPECIFICATION Spec
CONSTANTS
  Programs <- MCPrograms
INVARIANTS
  NamesAreFound
