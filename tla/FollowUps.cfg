SPECIFICATION LiveFollowUpsSpec
CONSTANTS
    Limit = 1
    NeedsLogs = TRUE
    MaxEvents = 2
    MaxActs = 1
    MaxFailures = 1
INVARIANTS UpdatesToldOnce AutoTurnsBounded ReviewsAreReal
PROPERTIES StopIsHeeded FollowedUp
