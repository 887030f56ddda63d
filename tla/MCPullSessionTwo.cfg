SPECIFICATION Spec
CONSTANTS
  Proc = {p1, p2}
  Ttl = 3
  Margin = 1
  PollTimeout = 1
  MaxTime = 1
  MaxKeys = 3
  CrashPoints <- KeyRefused
  None = None
  Torn = Torn
INVARIANT PasswordOpensKey
