SPECIFICATION MCSpec
CONSTANTS
    Names = {east, west}
    Callers = {t1, t2}
    MaxEntries = 3
INVARIANTS NoOrphan   
PROPERTIES CallsReturn WindsDown SlotsComeBack
CHECK_DEADLOCK FALSE
