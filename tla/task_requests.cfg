\* One L2/L3 mission, two requests in flight, two crashes.
SPECIFICATION Spec
CONSTANTS
    Tasks = {a}
    Requests = {r1, r2}
    NoTask = none
    Ops = {"create", "pause", "resume", "cancel", "approve", "reject"}
    Consequential = {a}
    Missions = {a}
    Reasoning = {}
    Leased = {}
    MaxAttempts = 1
    MaxCrashes = 2
SYMMETRY RequestSymmetry
INVARIANTS
    ConsequentialAtMostOnce
    ConsequentialApproved
    CompletionIsEarned
    ParkedStaysParked
CHECK_DEADLOCK FALSE
