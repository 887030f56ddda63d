SPECIFICATION Spec
CONSTANTS
  Proc = {p1}
  Ttl = 3
  Margin = 1
  PollTimeout = 1
  MaxTime = 4
  MaxKeys = 3
  CrashPoints <- Anywhere
  None = None
  Torn = Torn
INVARIANT FrozenKeyNotReused
