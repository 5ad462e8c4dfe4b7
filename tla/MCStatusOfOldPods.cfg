CONSTANTS
    Nodes = 3
    Kinds = {"deployment"}
    Origins = {"updated"}
    Times = 3
    MaxMishaps = 1
SPECIFICATION Spec
INVARIANT OkMeansStarted
