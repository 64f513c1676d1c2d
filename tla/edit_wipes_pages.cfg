SPECIFICATION Spec
CONSTANTS
    p1 = p1
    p2 = p2
    w1 = w1
    w2 = w2
    Pages <- MCPages
    Workers <- MCWorkers
    Owner = Owner
    NoOne = NoOne
    None = None
    MaxEdits = 1
    MaxReprocess = 0
    MaxFaults = 0
PROPERTIES EditKeepsOtherPages
