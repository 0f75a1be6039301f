\* One automation of each type with every request, two that share a list of one with requests
\* to resume, or two that share a memory of one task; a request at a time, two days, a restart
\* or a statement that raises.
SPECIFICATION FairSpec
CONSTANTS
    o1 = o1
    o2 = o2
    r1 = r1
    r2 = r2
    c1 = c1
    c2 = c2
    c3 = c3
    OneTime = {o1, o2}
    Recurring = {r1, r2}
    Conditional = {c1, c2, c3}
    Clients = {u}
    Ops = {"pause", "resume", "delete", "pauseAll", "resumeAll"}
    Limit = 1
    MaxRunsPerDay = 1
    Interval = 1
    Debounce = 0
    DayLength = 2
    QueueSize = 1
    OwnedMemory = 1
    Worlds <- McWorlds
    MaxTime = 2
    MaxEvents = 2
    MaxFaults = 1
INVARIANTS
    SlotsAdvance
    DailyBudget
    NoSelfTrigger
PROPERTIES
    StoppedRests
    DueIsTaken
CHECK_DEADLOCK FALSE
