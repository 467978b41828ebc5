SPECIFICATION Spec
CONSTANTS
  Threads = {p1, p2}
  Users = {u1, u2}
  Tokens = {t1, t2, t3}
  Links = {l1}
  Keys = {k1}
  AccessTokens = {a1}
  None = None
SYMMETRY Interchangeable
INVARIANTS
  TypeOK
  HeldTokensListed
  
PROPERTY
  RevocationSticks
CHECK_DEADLOCK FALSE
