SPECIFICATION FairSpec
CONSTANTS
  s1 = s1
  s2 = s2
  s3 = s3
  p1 = p1
  p2 = p2
  Shares = {s1, s2}
  StratumPools = {}
  RpcPools = {p1}
  PoolOf <- ForOnePool
  OptSubmitStale = FALSE
  OptRetries = 1
  CurlLimit = 2
  MaxSession = 0
  MaxEntries = 0
  MaxDrops = 2
INVARIANT
  QueueWillBeServed
PROPERTIES
  RpcSharesSettle
  ShutdownEnds
