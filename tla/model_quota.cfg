\* Two planners, of which one has a second model, and a text caller that makes direct calls as
\* well; one slot, one request a minute and one a day; a midnight and a restart.
SPECIFICATION QuotaSpec
CONSTANTS
    Callers = {p, q, t}
    Slotted = {p, q}
    Direct = {t}
    Both = {p}
    pro = pro
    flash = flash
    Models = {pro, flash}
    Compatible <- McCompatible
    Slots = 1
    MaxFallbacks = 1
    PerMinute = 1
    PerDay = 1
    Minute = 1
    DayLength = 2
    MaxWait = 1
    Short = 1
    Long = 2
    LastAsk = 2
    MaxTime = 2
    MaxRestarts = 1
VIEW McView
INVARIANTS
    WithinAllowance
    MeterIsTrue
    CooldownHolds
    NothingLeaks
CHECK_DEADLOCK FALSE
