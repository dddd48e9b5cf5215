SPECIFICATION FairSpec
CONSTANTS
  a = a
  b = b
  c = c
  Pools = {a, b, c}
  NoPool = NoPool
  Order <- ThreePools
  Algos = {"sha256d", "scrypt"}
  Algo <- TwoAlgos
  AnyAlgo = AnyAlgo
  Quota <- Quotas
  NewQuotas = {0, 1}
  MayFail = {a, c}
  Half = 8
  MaxStaged = 1
  MaxChanges = 0
  MaxFailures = 1
PROPERTY
  SelectionEnds
