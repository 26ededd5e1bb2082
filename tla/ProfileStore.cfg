SPECIFICATION Spec
CONSTANTS
  p1 = p1
  p2 = p2
  ann = ann
  bob = bob
  Absent = Absent
  Scope <- MCScope
  Equipment <- MCEquipment
  Pod <- MCPod
  Serving <- MCPod
  Client <- MCClient
  Stored <- MCStored
  Edit <- MCEdit
  MaxRequest = 2
  MaxFail = 1
INVARIANTS TypeOK ScheduleCovers NarrowestDecides SoundUntilParentMoves
PROPERTIES NoLostUpdate EditsReachEveryPod
CHECK_DEADLOCK FALSE
