CONSTANTS
    Pod = {p1, p2}
    statefulset = statefulset
    CassandraFile = {cassandraCfg, statefulset}
    deployment = deployment
    PithosFile = {service, deployment}
    ssl = ssl
    pithosctl = pithosctl
    MaxContainers = 3
    MaxFaults = 2
    MaxRestarts = 1
SPECIFICATION InstallSpec
INVARIANTS InstallTypeOK InstalledMeansUsable DeploymentAfterTables PodsShareKeys
PROPERTIES InstallCompletes PodsServe
CHECK_DEADLOCK FALSE
