SPECIFICATION FollowUpsSpec
CONSTANTS
    Limit = 1
    NeedsLogs = FALSE
    MaxEvents = 2
    MaxActs = 0
    MaxFailures = 0
INVARIANTS NothingMissed
