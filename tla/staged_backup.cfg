SPECIFICATION Spec
CONSTANTS
  m1 = m1
  m2 = m2
  p1 = p1
  p2 = p2
  p3 = p3
  Miners = {m1}
  mining_algorithms <- TwoAlgos
  DeviceAlgos <- OneDevice
  StratumPools = {p1}
  GetworkPools = {p2, p3}
  Current = p3
  Priority <- BackupPriorities
  GoalAlgo <- BackupGoals
  GoalReset = {}
  OptQueue = 0
  QueueLimit = 0
  OptFailOnly = TRUE
  MaxRolls = 1
  MaxUpdates = 1
  MaxAnswers = 1
  MaxDrops = 2
INVARIANTS
  TypeOK
  CountersExact
  NoDuplicateWork
CHECK_DEADLOCK FALSE
