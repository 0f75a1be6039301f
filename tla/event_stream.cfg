\* A client that asks for one of two tasks, queues of one event and a history of two, four
\* events, one thing that breaks.
SPECIFICATION FairSpec
CONSTANTS
    Tasks = {a, b}
    Steps = {}
    Remote = {a}
    Clients = {u}
    Filtering = {u}
    FilterTask = a
    QueueSize = 1
    HistorySize = 2
    TerminalSize = 1
    WireSize = 1
    MaxEvents = 4
    MaxBreaks = 1
INVARIANTS
    OneTerminal
PROPERTIES
    KeepsPromise
    CatchesUp
    Arrives
CHECK_DEADLOCK FALSE
