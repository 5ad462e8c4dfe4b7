CONSTANTS
    Nodes = 3
    Kinds = {"statefulset", "deployment", "job"}
    Origins = {"created", "updated"}
    Times = 3
    MaxMishaps = 1
SPECIFICATION Spec
INVARIANTS WorkloadTypeOK OkMeansUp GivesUpLate
PROPERTIES SoundAccepted PollEnds
