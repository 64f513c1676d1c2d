SPECIFICATION FairSpec
CONSTANTS
    p1 = p1
    p2 = p2
    w1 = w1
    w2 = w2
    Pages <- MCPages
    Workers <- MCWorkers
    NoPage = NoPage
    NoOne = NoOne
    Faults = {}
    MaxFaults = 0
    MaxReprocess = 0
    MaxDuplicates = 1
PROPERTIES IndexingEnds
CHECK_DEADLOCK FALSE
