CONSTANTS
  Sizes <- MCSizes
  MaxStream <- MCMaxStream
  Faults = {"connect", "write", "read", "poll"}
SPECIFICATION Spec
INVARIANTS ReadStaysInside AnswerIsAPrefix
PROPERTY AnyAnswerEndsTheCall
CHECK_DEADLOCK FALSE
