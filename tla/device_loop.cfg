SPECIFICATION FairSpec
CONSTANTS
  Loops = {"scanhash", "async", "queue"}
  Works = {1, 2, 3, 4, 5}
  QueueDepth = 2
  MaxCommands = 3
  MaxFailures = 1
INVARIANTS
  TypeOK
  WorksAccounted
  DisabledIsIdle
PROPERTIES
  Stops
  Runs
  RestartHeeded
CHECK_DEADLOCK FALSE
