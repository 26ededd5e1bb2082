SPECIFICATION FairSpec
CONSTANTS
  Inst = {1, 2}
  Proc = {1, 2}
  Task <- CrossedTask
  Host <- HostOf
  Target <- TargetOf
  Workers = 1
  Unsteady = {1}
PROPERTY JobsEnd
