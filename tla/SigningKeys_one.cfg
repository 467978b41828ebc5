SPECIFICATION Spec
CONSTANTS
  Keys = {a, b, c, d}
  Kids = {d0, d1, d2, d3}
  KeyId = d0
  Rotators = {r1}
  None = None
SYMMETRY Interchangeable
INVARIANTS
  TypeOK
  WholeTokensKeepVerifying
  KidsUnambiguous
  RestartTransparent
CHECK_DEADLOCK FALSE
