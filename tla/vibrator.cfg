CONSTANTS
  Effects <- MCEffects
  Strengths <- MCStrengths
  Memory <- MCMemory
  DeviceOutcomes = {TRUE, FALSE}
SPECIFICATION Spec
INVARIANT RunsAsAnnounced
PROPERTY EveryCallReturns
