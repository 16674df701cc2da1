CONSTANTS
  MaxTotal = 9
  Times <- MCTimes
  MinTotal = 4
  MinTrain = 2
  MinPart = 1
  Target = 3
  Floor = 2
  SampleSize = 4
  Repeats = 3
  MinUsed = 1
  Data <- MCData
  Budget <- MCBudget
  Quantile <- MCQuantile
  MinDelta <- MCMinDelta
  Calendar = 2
SPECIFICATION PromotionSpec
INVARIANTS DiagnosticNeverVetoes
CHECK_DEADLOCK FALSE
