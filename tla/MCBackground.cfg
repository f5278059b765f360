SPECIFICATION MCSpec
CONSTANTS
    Producers = {p1, p2}
    Workers = {w1, w2}
    Stoppers = {s1, s2}
    QueueSize = 1
    MaxRetries = 2
    MaxOffered = 3
    Joined = {p1}
    CtxCancels = TRUE
    SinkHonoursCtx = TRUE
    SinkFails = TRUE
    p1 = p1
    p2 = p2
    s1 = s1
    s2 = s2
    w1 = w1
    w2 = w2
INVARIANTS Accounting  StoppedIsDrained NoPanic ReceiverSound RegistrationSound MigratedOnce
PROPERTIES BackgroundSettles ConstraintsAppear
