SPECIFICATION LiveSpec
CONSTANTS
    Gvrs <- MCGvrs
    Objects <- MCObjects
    GvrOf <- MCGvrOf
    Bodies <- MCSelectorBodies
    Versioned = {"svc", "pod"}
    SecretIds = {"sec"}
    MaxRev = 3
    MaxRestarts = 0
    StoreFails = TRUE
    AckLost = FALSE
    BadObjects = FALSE
    Persistence = {FALSE}
    None <- MCNone
PROPERTY EdgesCatchUp
CHECK_DEADLOCK FALSE
