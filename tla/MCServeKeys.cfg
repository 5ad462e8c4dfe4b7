CONSTANTS
    Request = {r1, r2}
    MaxSignals = 2
SPECIFICATION Spec
INVARIANT KeyRequired
