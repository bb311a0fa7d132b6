SPECIFICATION Spec
CONSTANTS
  c1 = c1  c2 = c2  k1 = k1  k2 = k2  t1 = t1  t2 = t2  s1 = s1  s2 = s2
  Clients = {c1, c2}
  Conns = {k1, k2}
  Topics = {t1, t2}
  StoreIds = {s1, s2}
  NoConn = NoConn
  NoStore = NoStore
  Data <- MCData
  EmptyData <- MCEmptyData
  InitialData <- MCOneInitial
  Drift = Drift
  Ops <- MCAppending
  Persistent = {}
  Unacquirable = {t2}
  MaxTopics = 2
  MaxRev = 2
  MaxQueue = 2
  MaxCalls = 1
  MaxLost = 0
  MaxBreaks = 0
  MaxCrashes = 0
INVARIANTS SubscriptionsAgree CurrentStoreLeads GapOnlyAfterLoss
SYMMETRY MCSymmetry
CHECK_DEADLOCK FALSE
