CONSTANTS
  Effects <- MCEffects
  Strengths <- MCStrengths
  Memory <- MCMemory
  DeviceOutcomes = {TRUE}
SPECIFICATION Spec
INVARIANT OnKeepsTheContract
