CONSTANTS
  IntHalf = 8
  PatLen = 2
  MonthStart <- FourMonths
  DayLength = 2
  Texts <- AllTexts
  Images <- SomePartitions
  Infos <- SomeInfos
  OtherCalls <- TwoArguments
  Faults <- AllFaults
SPECIFICATION Spec
INVARIANTS
  TypeOK
  NothingLeaks
  ComparesTheStamp
  GateIsTight
PROPERTY GateSpec
CHECK_DEADLOCK FALSE
