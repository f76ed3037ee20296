SPECIFICATION Spec
CONSTANTS
    NumPlans = 2
    NumSteps = 2
    NumRuns = 4
    MaxAttempts = 1
    MAX_GOAL_PLANS = 2
    Clients = {"sweep"}
    MaxDisturbances = 0
INVARIANTS
    Sequential
    VerifiedWork
    AttemptsBounded
    DoneIsSettled
PROPERTY OnlyOrphansStall
CHECK_DEADLOCK FALSE
