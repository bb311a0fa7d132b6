SPECIFICATION Spec
CONSTANTS
  c1 = c1  c2 = c2  k1 = k1  k2 = k2  t1 = t1  t2 = t2  s1 = s1  s2 = s2
  Clients = {c1}
  Conns = {k1, k2}
  Topics = {t1}
  StoreIds = {s1}
  NoConn = NoConn
  NoStore = NoStore
  Data <- MCData
  EmptyData <- MCEmptyData
  InitialData <- MCOneInitial
  Drift = Drift
  Ops <- MCRemoving
  Persistent = {}
  Unacquirable = {}
  MaxTopics = 1
  MaxRev = 3
  MaxQueue = 3
  MaxCalls = 2
  MaxLost = 1
  MaxBreaks = 1
  MaxCrashes = 1
INVARIANTS TypeOK SubscriptionsAgree QuietMeansFresh ReplicaIsGenuine
PROPERTIES ImplementsFeed
SYMMETRY MCSockets
CHECK_DEADLOCK FALSE
