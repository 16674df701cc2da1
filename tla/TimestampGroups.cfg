CONSTANTS
  MaxTotal = 5
  Times <- MCTimes
  MinTotal = 4
  MinTrain = 2
  MinPart = 1
SPECIFICATION Spec
INVARIANTS WholeTimestampGroups
CHECK_DEADLOCK FALSE
