SPECIFICATION FairSpec
CONSTANTS
  m1 = m1
  m2 = m2
  p1 = p1
  p2 = p2
  p3 = p3
  Miners = {m1, m2}
  mining_algorithms <- TwoAlgos
  DeviceAlgos <- TwoDevices
  StratumPools = {p1, p2}
  GetworkPools = {}
  Current = p1
  Priority <- TwoPriorities
  GoalAlgo <- TwoGoals
  GoalReset = {}
  OptQueue = 0
  QueueLimit = 1
  OptFailOnly = FALSE
  MaxRolls = 0
  MaxUpdates = 1
  MaxAnswers = 0
  MaxDrops = 0
INVARIANTS
  SchedulerHeeds
  WaitersHaveNothing
  NeverOverfills
  RestartNoticed
PROPERTY
  WorkArrives
