CONSTANTS
  p1 = p1
  p2 = p2
  a = a
  b = b
  Processes = {p1, p2}
  Contents = {a, b}
  Absent = Absent
  NoJournal = NoJournal
  Nobody = Nobody
  Releases <- MCReleases
  DirectorySync = TRUE
  StrictFileSet = FALSE
  LateInterrupt = FALSE
  MaxKills = 2
  MaxLosses = 1
SPECIFICATION Spec
INVARIANTS TypeOK LockExclusion PowerLossSafe ControlInv
PROPERTIES ImplementsAtomicRelease OnlyCommitChangesTheRelease RejectsOnlyNonReleases
SYMMETRY Symmetry
