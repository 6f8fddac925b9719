SPECIFICATION Spec
CONSTANTS
  Pid = {p1, p2}
  Program = {"cgproxy", "v2ray"}
  Cgproxy = "cgproxy"
  Cgroup <- ThreeCgroups
  Config <- SingleConfig
  MaxEvents = 1
  Disturbances = {"early_fork", "move", "lost", "eintr", "timeout", "io", "mount_fails"}
INVARIANTS CommandWins
CHECK_DEADLOCK FALSE
