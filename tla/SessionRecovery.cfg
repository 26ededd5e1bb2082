SPECIFICATION FairSpec
CONSTANTS
  a = a
  b = b
  Inst <- MCInst
  NoLock = NoLock
  Slow = FALSE
  Hasty = FALSE
  MaxSession = 3
  MaxExpire = 2
  MaxDown = 1
  MaxFail = 1
INVARIANTS TypeOK RecoveredIsMember RecoveredLeaderHoldsLock RecoveredContends
PROPERTIES SomeoneLeads
CHECK_DEADLOCK FALSE
