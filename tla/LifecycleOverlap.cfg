SPECIFICATION Spec
CONSTANTS
  Daemon = {d1, d2, d3}
  NoDaemon = none
  File = {f1, f2, f3, f4, f5}
  NoFile = nofile
  Disturbances = {"overlap"}
INVARIANTS MutualExclusion
