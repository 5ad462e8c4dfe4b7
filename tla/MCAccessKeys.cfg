CONSTANTS
    MaxRuns = 4
    MaxEdits = 2
SPECIFICATION Spec
INVARIANTS AccessTypeOK ClientsAdmitted
PROPERTIES OneMaster UpdateKeepsKeys
CHECK_DEADLOCK FALSE
