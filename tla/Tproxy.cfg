SPECIFICATION Spec
CONSTANTS
  Config <- AllConfigs
  DefaultEnv <- Unset
  Existing <- MCExisting
  MaxCrashes = 2
  Disturbances = {"bad_config", "mount_fails", "crash"}
INVARIANTS Decided MarkedServed NoproxyNeverMarked StoppedClean
