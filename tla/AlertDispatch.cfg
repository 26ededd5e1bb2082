SPECIFICATION Spec
CONSTANTS
  p = p
  q = q
  NoModel = NoModel
  NoProfile = NoProfile
  Pod <- MCPod
  Scenario <- MCScenario
  Eqp <- MCEqp
  Interval <- MCInterval
  ModelOf <- MCModelOf
  ProfileOf <- MCProfileOf
  LocalTtl = 1
  OutboxMax = 1
INVARIANTS SuppressionIsPaid NothingUnaccounted NoFlood
PROPERTIES OneMailPerCooldown BreachPages
CHECK_DEADLOCK FALSE
