\* A cancel that read the row before the task ended.
SPECIFICATION Spec
CONSTANTS
    Tasks = {a}
    Requests = {r}
    NoTask = none
    Ops = {"create", "cancel"}
    Consequential = {}
    Missions = {}
    Reasoning = {}
    Leased = {}
    MaxAttempts = 1
    MaxCrashes = 0
PROPERTIES TerminalOnce
CHECK_DEADLOCK FALSE
