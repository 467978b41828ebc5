SPECIFICATION Spec
CONSTANTS
  Users = {u1, u2}
  Expenses = {e1}
  Threads = {p1, p2}
  Org = Org
  Admins = {u1}
  None = None
  PageSize = 50
  MayFail = TRUE
SYMMETRY Interchangeable
INVARIANTS
  TypeOK
  OwnerKeepsAccess
  UnshareTakesEffect
CHECK_DEADLOCK FALSE
