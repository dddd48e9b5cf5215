SPECIFICATION Spec
CONSTANTS
  a = a
  b = b
  Pools = {a, b}
  NoPool = NoPool
  Order <- TwoPools
  Strategy = "FAILOVER"
  Strategies = {"ROTATE"}
  Orders <- EitherFirst
  Quoted = {a, b}
  FailoverOnly = {}
  OptFailOnly = FALSE
  OptDisablePool = TRUE
  Lagging = FALSE
  MaxCommands = 2
  MaxVerdicts = 0
  MaxFailures = 0
INVARIANTS
  TypeOK
  PrioritiesDistinct
  EnabledPoolsExact
CHECK_DEADLOCK FALSE
