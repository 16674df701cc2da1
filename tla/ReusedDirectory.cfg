CONSTANTS
  cat = cat
  trees = trees
  earlier = earlier
  earliest = earliest
  Version <- MCVersion
  Originals <- MCOriginals
  d1 = d1
  d2 = d2
  Runs = {cat, trees}
  CatBoost = {cat}
  Dirs = {d1, d2}
  Transfers = {"transfer"}
  Reuse = TRUE
  None = None
  Torn = Torn
SPECIFICATION PatchSpec
INVARIANTS TransferIsOfOneRun
SYMMETRY Symmetry
CHECK_DEADLOCK FALSE
