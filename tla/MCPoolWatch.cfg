SPECIFICATION LiveSpec
CONSTANTS
  Interval = 1
  LowWater = 3
  Refill = 2
  Deposit = 4
  Funds = 8
  MaxLost = 2
  MaxBacklog = 2
INVARIANTS
  TypeOK
  BoundedOvershoot
PROPERTY Replenished
