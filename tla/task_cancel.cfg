\* An L2/L3 task and an ordinary one, two requests in flight, interrupts, a crash.
SPECIFICATION Spec
CONSTANTS
    Tasks = {a, b}
    Requests = {r1, r2}
    NoTask = none
    Ops = {"create", "cancel", "approve", "interrupt"}
    Consequential = {a}
    Missions = {}
    Reasoning = {}
    Leased = {}
    MaxAttempts = 1
    MaxCrashes = 1
SYMMETRY RequestSymmetry
PROPERTIES CancelIsFinal
CHECK_DEADLOCK FALSE
