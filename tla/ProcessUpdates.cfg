SPECIFICATION Spec
CONSTANTS
    Clusters = {m1, m2}
    MaxUpdates = 2
INVARIANT UpdatesReachClients
CHECK_DEADLOCK FALSE
