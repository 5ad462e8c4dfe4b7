CONSTANTS
    MaxNodes = 5
    MaxChanges = 2
    MaxFaults = 0
    MaxHooks = 3
SPECIFICATION Spec
PROPERTY MisconfigurationSeen
CHECK_DEADLOCK FALSE
