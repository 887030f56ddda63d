SPECIFICATION LiveSpec
CONSTANTS
  Proc = {p1}
  Ttl = 3
  Margin = 1
  PollTimeout = 1
  MaxTime = 4
  MaxKeys = 3
  CrashPoints <- NotBetweenRemovals
  None = None
  Torn = Torn
INVARIANTS
  CapabilityMatchesKey
  FrozenKeyNotReused
PROPERTIES
  PollEnds
  ImplementsIdentity
