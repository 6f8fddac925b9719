SPECIFICATION Spec
CONSTANTS
  Task = {t1, t2, t3}
  NoTask = none
  MaxRecords = 2
INVARIANTS Reported LeaksOnlyThreads
