SPECIFICATION Spec
CONSTANTS
  Client = {c1}
  Task = {t1, t2}
  Solution = {s1, s2}
  Ttl = 2
  MaxTime = 4
  U64Max = 5
  None = None
SYMMETRY Symmetry
INVARIANTS
  TypeOK
  OneCaptchaOneCapability
  NoStaleReply
  KeepsPromise
  SameTokenReply
PROPERTY ImplementsGrantBook
