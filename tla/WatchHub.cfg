SPECIFICATION LiveSpec
CONSTANTS
    Conns = {c1}
    Workers = {w1, w2}
    Objects <- MCObjects
    Filters <- MCFilters
    SendBuffer = 2
    WireBuffer = 1
    PongLimit = 1
    MaxChanges = 3
INVARIANTS HubSound
CHECK_DEADLOCK FALSE
PROPERTIES ClientsServed
