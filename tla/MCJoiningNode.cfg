CONSTANTS
    Ordinals = {0, 1}
    Addr = {a1, a2, a3}
    NoAddr = NoAddr
    Container = {cassandra, sidecar}
    cassandra = cassandra
    ContainerStates = {"ready", "running", "waiting", "terminated"}
    RingStates = {"Normal", "Leaving", "Joining"}
    Loads = {5}
    KiB = 1
    Threshold = 1
    MaxChanges = 2
SYMMETRY Renaming
SPECIFICATION StatusSpec
INVARIANT JoiningNodesReported
