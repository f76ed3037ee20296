SPECIFICATION Spec
CONSTANTS
    f1 = f1
    f2 = f2
    Firers = {f1, f2}
    MaxFirings = 3
    MaxPeriods = 2
    MaxTroubles = 2
    NumRuns = 2
    MaxDisturbances = 2
    j1 = j1
    j2 = j2
    Jobs = {j1, j2}
    Existing = {j1, j2}
    MaxVersions = 2
    e1 = e1
    e2 = e2
    Editors = {e1, e2}
    p1 = p1
    p2 = p2
    Calls = {p1, p2}
    MaxMems = 3
    Keys = {"k1", "k2"}
    Alike = {{"k1", "k2"}}
    Stored <- OneStored
    MaxEpisodes = 2
    Pending = 1
    MaxRuns = 2
    DistilLimit = 1
    Slots = 2
    FirstDay = 320
    LastDay = 430
SYMMETRY Interchangeable
INVARIANTS
    DeliveredOnce FiringsBounded ReportsAndEnvelopes LiveMatchesTable NextDueIsLeast
    PassesSound
CHECK_DEADLOCK FALSE
