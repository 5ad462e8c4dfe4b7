CONSTANTS
    pithos = pithos
    legacy = legacy
    cassandraCfg = cassandraCfg
    pithosCfg = pithosCfg
    alterJob = alterJob
    cassandra = cassandra
    old = old
    new = new
    scaled = scaled
    Resource = {pithos, legacy, cassandraCfg, pithosCfg, alterJob, cassandra}
    Version = {old, new, scaled}
    Nothing = Nothing
    Drained = Drained
    Recreated = {legacy, alterJob, cassandra}
    Scalable = {pithos}
    MaxItems = 9
    MaxAborts = 1
    MaxForeign = 8
    UpdateTries = 6
    RollbackTries = 3
    MaxKills = 1
SPECIFICATION HookSpec
INVARIANTS PithosOnItsConfig
PROPERTIES UpdatedMeansNew UpdateSucceeds
CHECK_DEADLOCK FALSE
