CONSTANTS
  N = 2
  Times <- MCTimes
  TicksPerSecond = 2
  Entities = {"x", "y"}
  Amounts = {1}
  Windows = {0, 1}
SPECIFICATION Spec
INVARIANTS StrictlyEarlier
CHECK_DEADLOCK FALSE
