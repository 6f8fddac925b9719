SPECIFICATION Spec
CONSTANTS
  Config <- AllConfigs
  DefaultEnv <- Unset
  Existing <- MCExisting
  MaxCrashes = 0
  Disturbances = {}
INVARIANTS OptionRanks
