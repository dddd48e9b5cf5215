SPECIFICATION FairSpec
CONSTANTS
  a = a
  b = b
  Pools = {a, b}
  NoPool = NoPool
  Order <- TwoPools
  Strategy = "FAILOVER"
  Strategies = {"ROTATE"}
  Orders <- EitherFirst
  Quoted = {a, b}
  FailoverOnly = {}
  OptFailOnly = FALSE
  OptDisablePool = TRUE
  Lagging = FALSE
  MaxCommands = 1
  MaxVerdicts = 1
  MaxFailures = 0
PROPERTY
  CommandsAnswered
CHECK_DEADLOCK FALSE
