SPECIFICATION SilentSpec
CONSTANTS
  Proc = {p1}
  Ttl = 3
  Margin = 1
  PollTimeout = 2
  MaxTime = 3
  MaxKeys = 2
  CrashPoints <- Nowhere
  None = None
  Torn = Torn
PROPERTY PollEnds
