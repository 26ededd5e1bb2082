SPECIFICATION SettledSpec
CONSTANTS
  Inst = {1, 2}
  Proc = {1, 2}
  NoOne = NoOne
  Prompt = FALSE
  MaxAttempts = 2
  MaxSkew = 1
  MaxBoot = 0
  MaxStop = 0
  MaxExpire = 1
  MaxFail = 0
  MaxListFail = 0
  MaxClock = 3
CHECK_DEADLOCK FALSE
INVARIANTS HolderEpochIsNewest SameStampDisjoint ZombieOnlyInRecovery
PROPERTY StampMovesForward
