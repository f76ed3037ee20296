SPECIFICATION MemorySpec
CONSTANTS
    m1 = m1
    Mems = {m1}
    Recorded = {m1}
    a1 = a1
    Approvals = {a1}
    c1 = c1
    Clients = {c1}
    w1 = w1
    Workers = {w1}
    MaxSeq = 3
    MaxAccidents = 1
INVARIANT ForgottenLeavesRedis
CHECK_DEADLOCK FALSE
