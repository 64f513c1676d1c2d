SPECIFICATION Spec
CONSTANTS
    g1 = g1
    g2 = g2
    r1 = r1
    r2 = r2
    w1 = w1
    w2 = w2
    Games <- MCGames
    Readers <- MCReaders
    Writers <- MCWriters
    Free = Free
    Absent = Absent
    MaxWrites = 2
INVARIANTS TypeOK SingleFlight CacheIsFresh NoStaleAnswer
SYMMETRY MCSymmetry
