CONSTANTS
  Char = {"a", "b"}
  MaxPat = 5
  MaxStr = 8
  Inputs <- AllInputs
SPECIFICATION Spec
INVARIANTS
  ReadsInside
  FoundIsOccurrence
  FirstOccurrenceFound
PROPERTIES
  ShiftsAdvance
  SearchSpec
CHECK_DEADLOCK FALSE
