SPECIFICATION Spec
CONSTANTS
  Keys = {a, b, c}
  Kids = {d0, d1}
  KeyId = d0
  Rotators = {r1}
  None = None
INVARIANTS
  RotationSurvivesCrash
CHECK_DEADLOCK FALSE
