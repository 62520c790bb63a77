CONSTANTS
  Char = {"a", "b", "c"}
  MaxPat = 3
  MaxStr = 5
  Inputs <- AllInputs
SPECIFICATION Spec
INVARIANTS
  FirstOccurrenceAlwaysFound
CHECK_DEADLOCK FALSE
