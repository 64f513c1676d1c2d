SPECIFICATION MCFairSpec
CONSTANTS
    ana = ana
    eva = eva
    rules = rules
    notes = notes
    w1 = w1
    w2 = w2
    Users <- MCUsers
    Manuals <- MCManuals
    Shared <- MCShared
    Owner <- MCOwner
    Workers <- MCWorkers
    Questions = 2
    MaxChanges = 1
    Faults = {"dropped", "killed", "redelivered", "slow", "not_found", "disconnected"}
    MaxFaults = 2
    EXTERNAL_ERROR_MAX_RETRIES = 1
    LOCK_BUSY_MAX_RETRIES = 1
INVARIANTS OneJob OneWriter ShownIsReadable ShownIsCurrent
PROPERTIES GenerationSettles
CHECK_DEADLOCK FALSE
