SPECIFICATION FairSettledSpec
CONSTANTS
  Inst = {1, 2}
  Proc = {1, 2}
  NoOne = NoOne
  Prompt = TRUE
  MaxAttempts = 5
  MaxSkew = 0
  MaxBoot = 1
  MaxStop = 1
  MaxExpire = 0
  MaxFail = 2
  MaxListFail = 0
  MaxClock = 9
CHECK_DEADLOCK FALSE
INVARIANT NoUnreportedStall
PROPERTY EventuallyOwned
