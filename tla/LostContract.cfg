CONSTANTS
  old = old
  new = new
  model = model
  table = table
  team = team
  other = other
  None = None
  Blank = Blank
  Versions = {old, new}
  Artifacts = {model, table}
  Listed <- MCListed
  Requested = {model, table}
  Unlocked <- ManifestAndModel
  Timeouts = {"finite"}
  Renderers = {r1, r2}
  KeyIds = {team, other}
  StateOf <- MCStateOf
  SequenceOf <- MCSequenceOf
  KeyIdOf <- MCKeyIdOf
  Environments = {None, other}
  Handwritten <- MCHandwritten
  Inputs <- MCInputs
SPECIFICATION CommandSpec
PROPERTIES ValidContractSurvives
