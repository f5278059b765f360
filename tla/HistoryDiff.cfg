SPECIFICATION Spec
CONSTANTS
    Uids = {u1, u2}
    Workers = {w1, w2}
    Retention = 1
    Cap = 9
    Batch = 1
    ReadTimeout = 1
    MaxEvents = 3
    MaxClock = 4
INVARIANT LastEventDecides
