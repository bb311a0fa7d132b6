SPECIFICATION FairSpec
CONSTANTS
  c1 = c1  c2 = c2  k1 = k1  k2 = k2  t1 = t1  t2 = t2  s1 = s1  s2 = s2
  Clients = {c1}
  Conns = {k1, k2}
  Topics = {t1}
  StoreIds = {s1}
  NoConn = NoConn
  NoStore = NoStore
  Data <- MCData
  EmptyData <- MCEmptyData
  InitialData <- MCOneInitial
  Drift = Drift
  Ops <- MCAppendOnly
  Persistent = {t1}
  Unacquirable = {}
  MaxTopics = 1
  MaxRev = 2
  MaxQueue = 2
  MaxCalls = 1
  MaxLost = 0
  MaxBreaks = 1
  MaxCrashes = 1
PROPERTIES SubscribingEnds Converges ReleaseReachesServer
CHECK_DEADLOCK FALSE
