SPECIFICATION Spec
CONSTANTS
    p1 = p1
    p2 = p2
    w1 = w1
    w2 = w2
    Pages <- MCPages
    Workers <- MCWorkers
    NoPage = NoPage
    NoOne = NoOne
    Faults = {"dropped", "killed", "redelivered", "page_error", "page_timeout"}
    MaxFaults = 2
    MaxReprocess = 2
    MaxDuplicates = 1
SYMMETRY Symmetry
INVARIANTS ExclusiveClaim QuietWhenClosed
PROPERTIES PublishedVerdict ImplementsLifecycle
CHECK_DEADLOCK FALSE
