SPECIFICATION MemorySpec
CONSTANTS
    m1 = m1
    m2 = m2
    Mems = {m1, m2}
    Recorded = {m1}
    Approvals = {a1}
    a1 = a1
    c1 = c1
    c2 = c2
    Clients = {c1, c2}
    w1 = w1
    w2 = w2
    Workers = {w1, w2}
    MaxSeq = 4
    MaxAccidents = 1
SYMMETRY Interchangeable
INVARIANTS NothingSkipped ReadModelTrue
PROPERTY LedgerHolds
CHECK_DEADLOCK FALSE
