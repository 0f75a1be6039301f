\* Two cards, a board that runs one worker at a time, room for an orphan beside it.
SPECIFICATION FairSpec
CONSTANTS
    Cards = {1, 2}
    Pids = {p, q}
    NoPid = none
    MaxWorkers = 1
INVARIANTS
    OneWorker
    CompletionIsEarned
PROPERTIES
    SettledRests
    StaleIsReclaimed
