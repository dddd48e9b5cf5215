SPECIFICATION FairSpec
CONSTANTS
  a = a
  b = b
  Pools = {a, b}
  NoPool = NoPool
  Order <- TwoPools
  Strategy = "FAILOVER"
  Strategies = {"ROTATE"}
  Orders <- EitherFirst
  Quoted = {a, b}
  FailoverOnly = {}
  OptFailOnly = FALSE
  OptDisablePool = TRUE
  Lagging = TRUE
  MaxCommands = 0
  MaxVerdicts = 1
  MaxFailures = 1
PROPERTIES
  FailsOver
  FailsBack
