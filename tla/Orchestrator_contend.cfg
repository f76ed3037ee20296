SPECIFICATION Spec
CONSTANTS
    NumPlans = 2
    NumSteps = 1
    NumRuns = 3
    MaxAttempts = 1
    MAX_GOAL_PLANS = 2
    Clients = {"sweep", "user"}
    MaxDisturbances = 1
INVARIANTS
    NothingBeforeApproval
PROPERTY PlansMoveForward
CHECK_DEADLOCK FALSE
