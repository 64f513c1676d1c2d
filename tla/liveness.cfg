SPECIFICATION FairSpec
CONSTANTS
    p1 = p1
    p2 = p2
    w1 = w1
    w2 = w2
    Pages <- MCPages
    Workers <- MCWorkers
    NoPage = NoPage
    NoOne = NoOne
    Faults = {"killed", "redelivered", "page_error", "page_timeout", "finalize_timeout"}
    MaxFaults = 1
    MaxReprocess = 1
    MaxDuplicates = 1
INVARIANTS TypeOK LockOwnership
PROPERTIES PagesSettle SettledIsPublished 
CHECK_DEADLOCK FALSE
