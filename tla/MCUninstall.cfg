CONSTANTS
    label = label
    cassandraCfg = cassandraCfg
    pithosCfg = pithosCfg
    statefulset = statefulset
    service = service
    deployment = deployment
    account = account
    ssl = ssl
    keys = keys
    tablesJob = tablesJob
    Commands <- UninstallScript
    Others = {tablesJob}
    MaxContainers = 3
    MaxFaults = 2
SPECIFICATION Spec
INVARIANTS UninstallTypeOK DoneMeansSecretsGone SurvivorsWereRefused
CHECK_DEADLOCK FALSE
