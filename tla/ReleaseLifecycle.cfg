CONSTANTS
  promoted = promoted
  held = held
  secret = secret
  team = team
  default = default
  Runs = {promoted, held}
  StateOf <- MCStateOf
  ReleaseStates = {"PROMOTE", "HOLD"}
  Keys = {secret}
  KeyIds = {team}
  DefaultId = default
  MaxSequence = 1
  Equalities = TRUE
  None = None
SPECIFICATION Spec
INVARIANTS FinalizedReleaseVerifies AcceptedWasCommitted AcceptedIsOneRun LifecycleInv
PROPERTIES NeverDowngraded SequenceNeverDecreases
