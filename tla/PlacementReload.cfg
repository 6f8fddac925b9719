SPECIFICATION FairSpec
CONSTANTS
  Pid = {p1}
  Program = {"cgproxy", "v2ray"}
  Cgproxy = "cgproxy"
  Cgroup <- ThreeCgroups
  Config <- SingleConfig
  MaxEvents = 1
  Disturbances = {"reload"}
PROPERTIES WriteMoves
CHECK_DEADLOCK FALSE
