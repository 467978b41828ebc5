SPECIFICATION Spec
CONSTANTS
  Threads = {th1, th2}
  None = None
  Keys = {k1, k2}
  MaxAttempts = 2
  Window = 2
  MaxTrackedKeys = 1
  StateTTL = 1
  MaxPending = 1
  MaxStates = 3
  Urls = {u1, u2}
  CacheTTL = 2
  MaxCacheSize = 1
  MaxFetch = 1
  MaxVersion = 2
  Issuers = {i1}
  KeysTTL = 1
  KeysFetch = 0
  Public = {"public"}
  Private = {"private"}
  NegativeTTL = 2
  MaxCities = 1
  Events = {"created"}
  Receivers = {"one", "other"}
  RetryBackoff <- MCRetryBackoff
  MaxTime <- MCMaxTime
SYMMETRY Pools
CHECK_DEADLOCK FALSE
INVARIANTS
  TypeOK
  AttemptsBounded
  StatesAcceptedOnce
  
  DocumentsFresh
  
  AnswersHonest
  OutageOutlived
