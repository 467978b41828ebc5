SPECIFICATION Spec
CONSTANTS
  Threads = {p1, p2}
  Ids = {i1, i2, i3}
  Strings <- MCStrings
  Emails <- MCEmails
  NewNames <- MCNames
  Folded <- MCFolded
  Candidate <- MCCandidate
  MaxSuffix = 3
  MaxCreateAttempts = 3
  None = None
SYMMETRY Interchangeable
INVARIANTS
  TypeOK
  OneAccountPerAddress
  
  ConflictIsReal
  FailsOnlyIfOutrun
