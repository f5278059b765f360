SPECIFICATION MCSpec
CONSTANTS
    Rows = {1, 2, 3}
    Scope = {1, 2}
    Size <- MCSize
    Max <- MCMax
    MaxBytes = 2000
    MaxWrites = 2
CHECK_DEADLOCK FALSE
INVARIANTS ReadsAreWhole DiffTellsWhatIsThere  EvidenceSound ReportCoversWindow
