\* A worker that dispatches and the supervisor, an executor, two nodes, two tasks of which one
\* is portable, a crash.
SPECIFICATION FairSpec
CONSTANTS
    Tasks = {a, b}
    Nodes = {m, n}
    None = none
    Workers = {w, s}
    Supervisors = {s}
    Portable = {a}
    Executor = TRUE
    Ttl = 1
    Limit = 1
    MaxTime = 2
    MaxCrashes = 1
    Floor = 1
INVARIANTS
    Exclusive
    HardLimit
    LosesOnlyUnseen
PROPERTIES
    ExpiredIsReclaimed
