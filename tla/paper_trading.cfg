\* Two operations at a time, two orders, two symbols of which the rules allow one.
SPECIFICATION Spec
CONSTANTS
    Clients = {u, v}
    Ops = {"direct", "auto", "close", "cancel", "pause", "recheck"}
    Types = {"limit"}
    Symbols = {x, y}
    Prices = {1, 2}
    Quantities = {1}
    Start = 4
    Charge = 1
    MaxOpen = 1
    MaxBooks = 2
    MaxOrders = 2
SYMMETRY Symmetry
INVARIANTS
    TypeOK
    SoundBooks
    PositionLimit
PROPERTIES
    SettledRests
CHECK_DEADLOCK FALSE
