SPECIFICATION Spec
CONSTANTS
  Inst = {1, 2}
  Proc = {1}
  Task <- CadenceTask
  Host <- HostOf
  Target <- TargetOf
  Workers = 1
  Unsteady = {1, 2}
INVARIANTS TypeOK Exclusion LocalExclusion NoLeak
