SPECIFICATION Spec
CONSTANTS
  Procs = {p1, p2}
  MaxAttempts = 2
  MaxDeaths = 2
  Old = Old
INVARIANTS
  TypeOK
  
PROPERTIES
  SecretKept
  
