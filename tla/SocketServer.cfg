SPECIFICATION FairSpec
CONSTANTS
  Client = {c1, c2, c3}
  NoClient = none
  Backlog = 0
  MaxStops = 1
INVARIANTS OwnAnswer
PROPERTIES Returned
CHECK_DEADLOCK FALSE
