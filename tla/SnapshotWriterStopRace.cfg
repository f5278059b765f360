SPECIFICATION Spec
CONSTANTS
    Producers = {p1, p2}
    Workers = {w1, w2}
    Stoppers = {s1}
    QueueSize = 1
    MaxRetries = 2
    MaxOffered = 2
    Joined = {}
    CtxCancels = TRUE
    SinkHonoursCtx = TRUE
    SinkFails = FALSE
    p1 = p1
    p2 = p2
    s1 = s1
    w1 = w1
    w2 = w2
INVARIANT NeverPanics
