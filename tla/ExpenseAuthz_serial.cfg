SPECIFICATION Spec
CONSTANTS
  Users = {u1, u2, u3}
  Expenses = {e1}
  Threads = {p1}
  Org = Org
  Admins = {u1}
  None = None
  PageSize = 50
  MayFail = FALSE
INVARIANTS
  OneShareEach
  NoOrphans
PROPERTIES
  DeletionCompletes
CHECK_DEADLOCK FALSE
