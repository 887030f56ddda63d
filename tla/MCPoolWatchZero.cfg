SPECIFICATION Spec
CONSTANTS
  Interval = 0
  LowWater = 3
  Refill = 2
  Deposit = 4
  Funds = 8
  MaxLost = 2
  MaxBacklog = 2
INVARIANT NeverPanics
