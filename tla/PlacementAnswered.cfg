SPECIFICATION FairSpec
CONSTANTS
  Pid = {p1}
  Program = {"cgproxy", "v2ray"}
  Cgproxy = "cgproxy"
  Cgroup <- ThreeCgroups
  Config <- SingleConfig
  MaxEvents = 1
  Disturbances = {"move", "reload", "lost", "eintr", "timeout", "io", "mount_fails"}
INVARIANTS CommandWins
PROPERTIES Answered
CHECK_DEADLOCK FALSE
