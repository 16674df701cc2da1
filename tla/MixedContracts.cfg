CONSTANTS
  csv = csv
  long = long
  full = full
  short = short
  garbage = garbage
  Paths = {"model", "table"}
  Contents = {full, short, garbage}
  Absent = Absent
  Contracts = {csv, long}
  CsvDefault = csv
  Accepts <- MCAccepts
  Observe <- MCObserve
  NoContract = NoContract
  Unknown = Unknown
  MixedArguments = TRUE
  MaxWrites = 0
SPECIFICATION Spec
INVARIANTS OwnInventoryVerifies
