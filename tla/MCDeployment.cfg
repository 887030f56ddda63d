SPECIFICATION Spec
CONSTANTS
  Proc = {p1, p2}
  Client = {c1}
  sepolia = sepolia
  one = one
  poolA = poolA
  poolB = poolB
  w1 = w1
  w2 = w2
  Chain = {sepolia, one}
  Pool = {poolA, poolB}
  Wallet = {w1, w2}
  Owner <- MCOwner
  Config <- MCConfig
  Skew = 1
  MaxTime = 5
  None = None
SYMMETRY Symmetry
INVARIANTS
  TypeOK
  OneSweep
  OwnsPool
  RepliesRecover
  NotLongExpired
  OldTermsEnd
