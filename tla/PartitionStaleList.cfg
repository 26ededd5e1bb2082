SPECIFICATION FairSpec
CONSTANTS
  Inst = {1, 2}
  Proc = {1, 2}
  NoOne = NoOne
  Prompt = FALSE
  MaxAttempts = 5
  MaxSkew = 0
  MaxBoot = 2
  MaxStop = 0
  MaxExpire = 0
  MaxFail = 0
  MaxListFail = 0
  MaxClock = 9
CHECK_DEADLOCK FALSE
PROPERTY EventuallyOwned
