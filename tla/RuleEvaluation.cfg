SPECIFICATION Spec
CONSTANTS
  Null = Null
  Sample <- MCSample
  EqpIds = {1, 2}
  Measure <- MCMeasure
  Pattern <- MCPattern
  Tick <- MCTick
  Digit = 6
  DayLen = 3
  PositiveTtl = 2
  NegativeTtl = 1
  RowLimit = 1
  Horizon = 4
  MaxSample = 3
  MaxFail = 1
INVARIANTS FiresAsDefined ReportsWorst CapKeepsWorst
CHECK_DEADLOCK FALSE
