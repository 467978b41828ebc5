SPECIFICATION Spec
CONSTANTS
  Workers = {w1}
  Codes = {k1}
  Tokens = {t1, t2, t3}
  LegacyTokens = {}
  Clients = {c1}
  Users = {u1}
  None = None
SYMMETRY Pools
PROPERTIES
  ImplementsLineage
