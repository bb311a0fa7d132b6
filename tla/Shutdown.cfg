SPECIFICATION FairShutdownSpec
CONSTANTS
    s1 = s1
    t1 = t1
    t2 = t2
    Sessions = {s1}
    NoSession = NoSession
    Turns = {t1, t2}
    Requests = {}
    Root <- SharedRoot
    SlowStart = {}
    Opencode = {}
    Parents = {s1}
    Retries = {}
    MaxExtras = 0
    MaxDrivers = 3
    MaxPrepares = 2
INVARIANTS QuietWhileStopping IdleMeansRestored TurnsAreHeard
PROPERTIES LeaseEndsItsOwn CommitIsFinal ShutdownEnds
CHECK_DEADLOCK FALSE
