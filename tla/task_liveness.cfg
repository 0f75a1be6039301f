\* A task with a fallback model, two requests in flight: every run comes to rest.
SPECIFICATION FairSpec
CONSTANTS
    Tasks = {a}
    Requests = {r1, r2}
    NoTask = none
    Ops = {"create", "pause", "resume", "cancel", "approve", "reject"}
    Consequential = {}
    Missions = {}
    Reasoning = {a}
    Leased = {}
    MaxAttempts = 2
    MaxCrashes = 1
PROPERTIES RunsSettle
CHECK_DEADLOCK FALSE
