SPECIFICATION SettledSpec
CONSTANTS
  Inst = {1, 2}
  Proc = {1, 2}
  NoOne = NoOne
  Prompt = FALSE
  MaxAttempts = 3
  MaxSkew = 0
  MaxBoot = 1
  MaxStop = 1
  MaxExpire = 0
  MaxFail = 3
  MaxListFail = 1
  MaxClock = 4
CHECK_DEADLOCK FALSE
INVARIANTS TypeOK SettledCoverage NoSilentStall UnhealthyMeansExhausted
