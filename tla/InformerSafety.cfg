SPECIFICATION Spec
CONSTANTS
    Gvrs <- MCGvrs
    Objects <- MCObjects
    GvrOf <- MCGvrOf
    Bodies <- MCBodies
    Versioned = {"svc"}
    SecretIds = {"sec"}
    MaxRev = 3
    MaxRestarts = 1
    StoreFails = TRUE
    AckLost = TRUE
    BadObjects = TRUE
    Persistence = {TRUE, FALSE}
    None <- MCNone
INVARIANTS GraphSound 
CHECK_DEADLOCK FALSE
