SPECIFICATION LiveSubagentsSpec
CONSTANTS
    claude = claude
    codex = codex
    npm = npm
    p = p
    c1 = c1
    c2 = c2
    Harnesses = {claude, codex}
    Locks = {npm}
    LockOf <- OneLock
    MaxUpdates = 2
    Parents = {p}
    Children = {c1, c2}
    ParentOf <- OneParent
    HarnessOf <- OwnHarness
    MaxStarts = 2
    MaxShutdowns = 1
    MaxOutages = 2
INVARIANTS ExactlyOnce UpdatesAlone
PROPERTIES StopHolds ResultsArrive WaitsEnd
CHECK_DEADLOCK FALSE
