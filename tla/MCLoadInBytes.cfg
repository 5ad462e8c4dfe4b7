CONSTANTS
    Ordinals = {0, 1, 2}
    Addr = {a1, a2, a3}
    NoAddr = NoAddr
    Container = {cassandra, sidecar}
    cassandra = cassandra
    ContainerStates = {"ready", "waiting"}
    RingStates = {"Normal"}
    Loads = {1, 4}
    KiB = 2
    Threshold = 3
    MaxChanges = 1
SYMMETRY Renaming
SPECIFICATION StatusSpec
INVARIANT LightNodesIgnored
