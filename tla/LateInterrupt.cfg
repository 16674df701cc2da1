CONSTANTS
  p1 = p1
  p2 = p2
  a = a
  b = b
  Processes = {p1, p2}
  Contents = {a}
  Absent = Absent
  NoJournal = NoJournal
  Nobody = Nobody
  Releases <- MCSignedAndUnsigned
  DirectorySync = FALSE
  StrictFileSet = FALSE
  LateInterrupt = TRUE
  MaxKills = 1
  MaxLosses = 0
SPECIFICATION FairSpec
PROPERTIES RollbackRestoresEverything EveryCallReturns PendingTransactionResolved
