CONSTANTS
    Request = {r1, r2}
    MaxSignals = 2
SPECIFICATION Spec
INVARIANTS ServeTypeOK CleanExit AnswersPrepared
PROPERTIES SignalEnds ListenFailureSeen
