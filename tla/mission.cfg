\* Two calls, plans of one and of two steps, responses of two calls, two runs.
SPECIFICATION FairSpec
CONSTANTS
    Calls = {x, y}
    Plans <- McPlans
    NoPlan = none
    PlanLength <- McPlanLength
    PerResponse = 2
    MaxSteps = 3
    MaxRetries = 1
    MaxModelCalls = 3
    MaxToolCalls = 3
    MaxRepeats = 1
    MaxWaits = 2
    MaxRuns = 2
INVARIANTS
    TypeOK
    Grounded
    CoversSteps
    CancelStops
PROPERTIES
    Ends
CHECK_DEADLOCK FALSE
