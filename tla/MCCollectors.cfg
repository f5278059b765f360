SPECIFICATION MCSpec
CONSTANTS
    Gvrs = {g1, g2}
    Kinds = {"persistence"}
    Failures = {"failed"}
    Sources <- MCSources
    StaleAfter = 1
    MaxClock = 2
SYMMETRY TypeSymmetry
CHECK_DEADLOCK FALSE
INVARIANTS EstablishedIsTrue CoverageSound  InventoryIsEarned
PROPERTIES ContinuityCounts
