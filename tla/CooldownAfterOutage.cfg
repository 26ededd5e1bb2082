SPECIFICATION Spec
CONSTANTS
  p = p
  q = q
  NoModel = NoModel
  NoProfile = NoProfile
  Pod <- MCPod
  Scenario <- MCOutage
  Eqp <- MCEqp
  Interval <- MCInterval
  ModelOf <- MCModelOf
  ProfileOf <- MCLongProfileOf
  LocalTtl = 1
  OutboxMax = 1
PROPERTY LocalEntrySuppresses
CHECK_DEADLOCK FALSE
