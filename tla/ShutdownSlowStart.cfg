SPECIFICATION ShutdownSpec
CONSTANTS
    s1 = s1
    t1 = t1
    t2 = t2
    Sessions = {s1}
    NoSession = NoSession
    Turns = {t1, t2}
    Requests = {}
    Root <- SharedRoot
    SlowStart = {s1}
    Opencode = {}
    Parents = {}
    Retries = {}
    MaxExtras = 0
    MaxDrivers = 3
    MaxPrepares = 2
INVARIANT NothingSlipsIn
CHECK_DEADLOCK FALSE
