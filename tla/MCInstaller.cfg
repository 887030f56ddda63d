SPECIFICATION LiveSpec
CONSTANTS
  Run = {r1, r2}
  old = old
  new = new
  d1 = d1
  d2 = d2
  w1 = w1
  w2 = w2
  Script = {old, new}
  Release = {d1, d2, w1, w2}
  Pin <- MCPin
  Later <- MCLater
  Junk = Junk
  MaxFaults = 1
  None = None
  Torn = Torn
INVARIANTS
  TypeOK
  OnlyPinned
  BinariesBehindProfile
  OneScript
PROPERTY RunningAgainRepairs
