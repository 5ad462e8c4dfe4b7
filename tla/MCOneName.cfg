CONSTANTS
    MaxRuns = 2
    MaxEdits = 1
SPECIFICATION Spec
INVARIANT MasterStays
CHECK_DEADLOCK FALSE
