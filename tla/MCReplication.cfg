CONSTANTS
    MaxNodes = 5
    MaxChanges = 2
    MaxFaults = 2
    MaxHooks = 3
SPECIFICATION Spec
INVARIANTS ReplicationTypeOK FactorsAgree EnoughReplicas
CHECK_DEADLOCK FALSE
