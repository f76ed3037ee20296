SPECIFICATION Spec
CONSTANTS
    j1 = j1
    j2 = j2
    Jobs = {j1, j2}
    e1 = e1
    e2 = e2
    Editors = {e1, e2}
    m1 = m1
    Mems = {m1}
    a1 = a1
    Approvals = {a1}
    c1 = c1
    Clients = {c1}
    w1 = w1
    w2 = w2
    Workers = {w1, w2}
PROPERTIES BootDelivers DueFires LogDrains
CHECK_DEADLOCK FALSE
