\* A pool with long poll that may change to stratum, and one that only getwork tells
\* of, failover-only.
SPECIFICATION FairSpec
CONSTANTS
  p1 = p1
  p2 = p2
  m1 = m1
  Pools = {p1, p2}
  LongpollPools = {p1}
  StratumPools = {p1}
  Miners = {m1}
  MaxBlock = 2
  Kept = 2
  OptFailOnly = TRUE
  Lagging = FALSE
  LostCounts = FALSE
  MaxEvents = 1
INVARIANTS
  TypeOK
  RestartReachesMiners
PROPERTIES
  MinesLatestBlock
