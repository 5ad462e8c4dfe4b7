CONSTANTS
    cfg = cfg
    dep = dep
    sts = sts
    v1 = v1
    v2 = v2
    Resource = {cfg, dep, sts}
    Version = {v1, v2}
    Nothing = Nothing
    Drained = Drained
    Recreated = {sts}
    Scalable = {dep}
    MaxItems = 2
    MaxAborts = 2
    MaxForeign = 1
SPECIFICATION Spec
PROPERTIES RevertRollsBackAll
SYMMETRY Versions
