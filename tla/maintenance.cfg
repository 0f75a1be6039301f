\* Two migrations, two kinds of backup of which one is kept, two seconds, four backups and
\* restores, two faults.
SPECIFICATION FairSpec
CONSTANTS
    Statements <- McStatements
    Kinds = {1, 2}
    Retention = 1
    MaxTime = 1
    MaxCopies = 4
    MaxFaults = 2
INVARIANTS
    RecordedIsDone
    RestoresSigned
PROPERTIES
    NewestGoodStays
    ComesUp
CHECK_DEADLOCK FALSE
