SPECIFICATION Spec
CONSTANTS
  Workers = {w1}
  Codes = {k1}
  Tokens = {t1, t2, t3}
  LegacyTokens = {t3}
  Clients = {c1, c2}
  Users = {u1}
  None = None
SYMMETRY Pools
INVARIANTS
  TypeOK
  RedeemedOnce
  OneLivePerFamily
  ClosedStaysClosed
  GrantPreserved
