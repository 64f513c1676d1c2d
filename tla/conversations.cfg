SPECIFICATION MCFairSpec
CONSTANTS
    w1 = w1
    w2 = w2
    Workers <- MCWorkers
    NoOne = NoOne
    MaxTurns = 2
    MaxRenames = 1
    Faults = {"dropped", "killed", "redelivered"}
    MaxFaults = 2
    EXTERNAL_ERROR_MAX_RETRIES = 1
    LOCK_BUSY_MAX_RETRIES = 1
INVARIANT LockOwnership
PROPERTIES  ImplementsReplies RepliesSettle
CHECK_DEADLOCK FALSE
