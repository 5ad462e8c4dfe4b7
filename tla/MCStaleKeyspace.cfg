CONSTANTS
    MaxNodes = 5
    MaxChanges = 2
    MaxFaults = 0
    MaxHooks = 3
SPECIFICATION Spec
INVARIANT FactorOfKeyspace
CHECK_DEADLOCK FALSE
