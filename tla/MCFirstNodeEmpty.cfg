CONSTANTS
    Nodes = 3
    Kinds = {"statefulset"}
    Origins = {"created"}
    Times = 3
    MaxMishaps = 1
SPECIFICATION Spec
PROPERTY SoundNeverRefused
