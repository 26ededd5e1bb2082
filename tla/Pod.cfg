SPECIFICATION Spec
CONSTANTS
  etch = etch
  diff = diff
  Process <- MCProcess
  Interval <- MCInterval
  DebugNames = {}
  Unassigned = Unassigned
  MaxEdit = 1
  MaxAssign = 2
  MaxApi = 1
  MaxFail = 1
  MaxTries = 2
  MaxFlap = 1
INVARIANTS TypeOK OwnedIsLatest NoJobWithoutClients NothingLeft
PROPERTIES TableSpec Converges
CHECK_DEADLOCK FALSE
