CONSTANTS
  N = 3
  Times <- MCTimes
  TicksPerSecond = 2
  Entities = {"x", "y"}
  Amounts = {1, 3}
  Windows = {0, 1}
SPECIFICATION Spec
INVARIANTS CountsAreExact WindowsAreHonest MeanOfEarlierRows
CHECK_DEADLOCK FALSE
