SPECIFICATION Spec
CONSTANTS
  s1 = s1
  s2 = s2
  s3 = s3
  p1 = p1
  p2 = p2
  Shares = {s1}
  StratumPools = {p1}
  RpcPools = {}
  PoolOf <- ForOnePool
  OptSubmitStale = FALSE
  OptRetries <- RetryForEver
  CurlLimit = 2
  MaxSession = 0
  MaxEntries = 3
  MaxDrops = 2
INVARIANT
  SubmittingExact
PROPERTY
  ImplementsLedger
