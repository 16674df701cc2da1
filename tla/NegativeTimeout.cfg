CONSTANTS
  old = old
  new = new
  model = model
  table = table
  None = None
  Versions = {old, new}
  Artifacts = {model, table}
  Listed <- MCListed
  Requested = {model, table}
  Unlocked = {}
  Timeouts = {"negative", "finite"}
SPECIFICATION FairSpec
PROPERTIES NegativeTimeoutRefused
