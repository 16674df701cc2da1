CONSTANTS
  cat = cat
  trees = trees
  earlier = earlier
  earliest = earliest
  Version <- MCVersion
  Originals <- MCOriginals
  d1 = d1
  d2 = d2
  Runs = {cat, trees, earlier, earliest}
  CatBoost = {cat, earlier, earliest}
  Dirs = {d1, d2}
  Transfers = {"transfer"}
  Reuse = FALSE
  None = None
  Torn = Torn
SPECIFICATION PatchSpec
INVARIANTS TransferIsOfOneRun MetricsHaveTheirModels RunsInv PatchIsAllOrNothing
SYMMETRY Symmetry
CHECK_DEADLOCK FALSE
