SPECIFICATION FairSpec
CONSTANTS
  Pid = {p1}
  Program = {"cgproxy", "v2ray", "curl"}
  Cgproxy = "cgproxy"
  Cgroup <- FourCgroups
  Config <- TwoConfigs
  MaxEvents = 1
  Disturbances = {"pid_option", "wrap", "reuse", "in_flight"}
INVARIANTS TypeOK SettledPlaced
PROPERTIES EventuallyPlaced
