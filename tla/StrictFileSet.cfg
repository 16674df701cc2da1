CONSTANTS
  p1 = p1
  p2 = p2
  a = a
  b = b
  Processes = {p1, p2}
  Contents = {a, b}
  Absent = Absent
  NoJournal = NoJournal
  Nobody = Nobody
  Releases <- MCReleases
  DirectorySync = TRUE
  StrictFileSet = TRUE
  LateInterrupt = FALSE
  MaxKills = 1
  MaxLosses = 0
SPECIFICATION Spec
PROPERTIES RejectsOnlyNonReleases
