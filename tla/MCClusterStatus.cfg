CONSTANTS
    Ordinals = {0, 1, 2}
    Addr = {a1, a2, a3}
    NoAddr = NoAddr
    Container = {cassandra, sidecar}
    cassandra = cassandra
    ContainerStates = {"ready", "running", "waiting", "terminated"}
    RingStates = {"Normal", "Leaving", "Joining"}
    Loads = {1, 2, 3, 4, 5}
    KiB = 2
    Threshold = 2
    MaxChanges = 2
SYMMETRY Renaming
SPECIFICATION StatusSpec
INVARIANTS StatusTypeOK HealthyMeansSound SoundMeansHealthy
