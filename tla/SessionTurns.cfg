SPECIFICATION Spec
CONSTANTS
    s1 = s1
    s2 = s2
    t1 = t1
    t2 = t2
    q1 = q1
    r1 = r1
    Sessions = {s1, s2}
    NoSession = NoSession
    Turns = {t1, t2}
    Requests = {q1}
    Root <- SharedRoot
    SlowStart = {s1}
    Opencode = {s2}
    Parents = {s1}
    Retries = {r1}
    MaxExtras = 1
    MaxDrivers = 1
INVARIANTS OneThingAtATime FolderExclusive StatusTellsTurns
PROPERTY StopWins
SYMMETRY Interchangeable
