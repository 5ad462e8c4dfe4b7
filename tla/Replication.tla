---------------------------- MODULE Replication ----------------------------
(***************************************************************************)
(* How many copies Cassandra keeps.  The nodes with the label of Pithos    *)
(* are counted by four programs, each for itself: bootstrap.sh and         *)
(* entrypoint.sh for the replicas of the StatefulSet, pithosctl for the    *)
(* factor in pithos-cfg, initialize.sh for that of the keyspace.  Nodes    *)
(* come and go between two counts, a count may fail, and a hook that fails *)
(* starts again.                                                           *)
(***************************************************************************)
EXTENDS Naturals

CONSTANTS MaxNodes,     \* bound: nodes with the label
          MaxChanges,   \* bound: nodes that join or leave
          MaxFaults,    \* bound: failed calls and killed containers
          MaxHooks      \* bound: hooks started

ASSUME ReplicationAssumption ==
    {MaxNodes, MaxChanges, MaxFaults, MaxHooks} \subseteq Nat

VARIABLES
    nodes,       \* nodes with the label
    hook,        \* "none", "install" or "update"
    line,        \* what its container does next
    file,        \* replicas in cassandra.yaml of this container
    factor,      \* Config.ReplicationFactor of this run of pithosctl
    installed,   \* an installation has got through
    config,      \* factor in the ConfigMap pithos-cfg, 0 without it
    replicas,    \* of the StatefulSet, 0 without it
    job,         \* Job pithos-initialize: "absent", "count", "create", "done"
    drawn,       \* the factor its container has chosen
    keyspace,    \* factor of the keyspace storage, 0 without it
    changes, faults, hooks,
    miscounted,  \* history: a script took a failed count for a number
    crossed,     \* history: the nodes have become three or less than three,
    grown,       \* and they have become three while Pithos was being installed,
    shrunk       \* or less than three

process == <<hook, line, file, factor, installed, hooks>>
objects == <<config, replicas, job, drawn, keyspace>>
history == <<miscounted, crossed, grown, shrunk>>
vars == <<nodes, process, objects, changes, faults, history>>

Lines == {"count", "client", "check", "config", "cassandra", "job", "poll", "scale"}

ReplicationTypeOK ==
    /\ nodes \in 0 .. MaxNodes
    /\ hook \in {"none", "install", "update"} /\ line \in Lines
    /\ file \in {1, 3} /\ drawn \in {1, 3}
    /\ factor \in {0, 1, 3} /\ config \in {0, 1, 3}
    /\ replicas \in {0, 1, 3} /\ keyspace \in {0, 1, 3}
    /\ job \in {"absent", "count", "create", "done"}
    /\ changes \in 0 .. MaxChanges /\ faults \in 0 .. MaxFaults /\ hooks \in 0 .. MaxHooks
    /\ installed \in BOOLEAN /\ miscounted \in BOOLEAN
    /\ crossed \in BOOLEAN /\ grown \in BOOLEAN /\ shrunk \in BOOLEAN

Init ==
    /\ nodes \in 0 .. MaxNodes
    /\ hook = "none" /\ line = "count" /\ file = 1 /\ factor = 0
    /\ installed = FALSE
    /\ config = 0 /\ replicas = 0 /\ job = "absent" /\ drawn = 1 /\ keyspace = 0
    /\ changes = 0 /\ faults = 0 /\ hooks = 0
    /\ miscounted = FALSE /\ crossed = FALSE /\ grown = FALSE /\ shrunk = FALSE

----------------------------------------------------------------------------
Fault == faults < MaxFaults /\ faults' = faults + 1

\* A script pipes the list into wc: without an answer it counts no nodes.
Counts(many, if, else, place) ==
    \/ /\ place = IF many THEN if ELSE else
       /\ UNCHANGED <<faults, miscounted>>
    \/ /\ place = else
       /\ Fault /\ miscounted' = TRUE

\* The container ends; the next one begins with a file that was not edited.
First(h) == IF h = "install" THEN "count" ELSE "client"

StartContainer(h) == line' = First(h) /\ file' = 1 /\ factor' = 0

StartHook(h) ==
    /\ hook = "none" /\ hooks < MaxHooks
    /\ (h = "install") # installed
    /\ hook' = h /\ hooks' = hooks + 1
    /\ StartContainer(h)
    /\ UNCHANGED <<nodes, installed, objects, changes, faults, history>>

\* A call fails, the container is killed or its Job is out of time.
ContainerFails ==
    /\ hook # "none"
    /\ Fault /\ StartContainer(hook)
    /\ UNCHANGED <<nodes, hook, hooks, installed, objects, changes, history>>

----------------------------------------------------------------------------
(***************************************************************************)
(* bootstrap.sh, and pithosctl in either hook.                             *)
(***************************************************************************)
EditFile ==
    /\ line = "count" /\ hook = "install"
    /\ Counts(nodes >= 3, 3, 1, file')
    /\ line' = "client"
    /\ UNCHANGED <<nodes, hook, hooks, factor, installed, objects, changes,
                   crossed, grown, shrunk>>

Goes(from, to) ==
    /\ hook # "none" /\ line = from /\ line' = to
    /\ UNCHANGED <<nodes, hook, hooks, installed, changes, faults, history>>

\* initKubeClient; without a client pithosctl exits (ContainerFails).
NewClient == Goes("client", "check") /\ UNCHANGED <<file, factor, objects>>

\* Faulty: a copy on every node.
CopyPerNode(n) == n

ReplicationFactor(n) == IF n >= 3 THEN 3 ELSE 1

\* The list of the API server; when it fails pithosctl does (ContainerFails).
NodesMatchingLabel == nodes

TooSmall(n) == ReplicationFactor(n) < 1

\* CheckAndSetDefaults
Check ==
    /\ Goes("check", "config")
    /\ ~TooSmall(NodesMatchingLabel)
    /\ factor' = ReplicationFactor(NodesMatchingLabel)
    /\ UNCHANGED <<file, objects>>

CreateConfigMap ==
    /\ Goes("config", "cassandra")
    /\ config' = factor
    /\ UNCHANGED <<file, factor, replicas, job, drawn, keyspace>>

----------------------------------------------------------------------------
(***************************************************************************)
(* Cassandra: created by the installation, replaced by the update.         *)
(***************************************************************************)
End ==
    /\ hook' = "none" /\ StartContainer("install") /\ installed' = TRUE
    /\ UNCHANGED <<nodes, hooks, changes>>

\* kubectl create: a StatefulSet that exists is left alone.
CreateStatefulSet ==
    /\ hook = "install" /\ Goes("cassandra", "job")
    /\ replicas' = IF replicas = 0 THEN file ELSE replicas
    /\ UNCHANGED <<file, factor, config, job, drawn, keyspace>>

\* rig upsert: a StatefulSet is deleted and created from the file.
UpsertStatefulSet ==
    /\ hook = "update" /\ Goes("cassandra", "scale")
    /\ replicas' = file
    /\ UNCHANGED <<file, factor, config, job, drawn, keyspace>>

\* Faulty: the update leaves the StatefulSet with the replicas of the file.
NoScale ==
    /\ line = "scale"
    /\ End
    /\ UNCHANGED <<objects, faults, history>>

Scale ==
    /\ line = "scale"
    /\ Counts(nodes >= 3, 3, replicas, replicas')
    /\ End
    /\ UNCHANGED <<config, job, drawn, keyspace, crossed, grown, shrunk>>

UpsertJob ==
    /\ Goes("job", "poll")
    /\ job' = "count"
    /\ UNCHANGED <<file, factor, config, replicas, drawn, keyspace>>

PollSucceeds ==
    /\ line = "poll" /\ job = "done"
    /\ End
    /\ UNCHANGED <<objects, faults, history>>

----------------------------------------------------------------------------
(***************************************************************************)
(* initialize.sh, in the Job that pithosctl init creates.                  *)
(***************************************************************************)
\* Faulty: more than three nodes.
ManyOverThree == nodes > 3

ManyNodes == nodes > 2

JobCounts ==
    /\ job = "count"
    /\ Counts(ManyNodes, 3, 1, drawn')
    /\ job' = "create"
    /\ UNCHANGED <<nodes, process, config, replicas, keyspace, changes,
                   crossed, grown, shrunk>>

\* cqlsh: CREATE KEYSPACE IF NOT EXISTS, when a pod of Cassandra runs somewhere.
\* A container of the Job that fails is followed by another one.
JobCreates ==
    /\ job = "create"
    /\ \/ /\ replicas > 0 /\ nodes > 0
          /\ keyspace' = IF keyspace = 0 THEN drawn ELSE keyspace
          /\ job' = "done" /\ UNCHANGED faults
       \/ job' = "count" /\ Fault /\ UNCHANGED keyspace
    /\ UNCHANGED <<nodes, process, config, replicas, drawn, changes, history>>

----------------------------------------------------------------------------
\* Nodes get and lose the label; uninstall.sh takes it off all of them.
NodesChange(n) ==
    /\ changes < MaxChanges /\ changes' = changes + 1
    /\ nodes' = n
    /\ crossed' = (crossed \/ ((n >= 3) # (nodes >= 3)))
    /\ grown' = (grown \/ (n >= 3 /\ nodes < 3 /\ hook = "install"))
    /\ shrunk' = (shrunk \/ (n < 3 /\ nodes >= 3))
    /\ UNCHANGED <<process, objects, faults, miscounted>>

Hook ==
    \/ EditFile \/ NewClient \/ Check \/ CreateConfigMap
    \/ CreateStatefulSet \/ UpsertStatefulSet \/ Scale \/ UpsertJob \/ PollSucceeds

Next ==
    \/ \E h \in {"install", "update"} : StartHook(h)
    \/ Hook \/ ContainerFails
    \/ JobCounts \/ JobCreates
    \/ \E n \in 0 .. MaxNodes : NodesChange(n)

Spec == Init /\ [][Next]_vars

----------------------------------------------------------------------------
Settled == installed /\ hook = "none"

\* While the cluster stays on one side of three nodes and no count fails, the four
\* programs agree: copies in pithos-cfg, copies in the keyspace, pods of Cassandra
\* (config.go:100, initialize.sh:6, bootstrap.sh:52, entrypoint.sh:26).
FactorsAgree ==
    Settled /\ ~crossed /\ ~miscounted
        => config = keyspace /\ replicas = keyspace

\* The keyspace never asks for more copies than there are pods, also when nodes
\* join between hooks and when containers of the hooks fail anywhere; unless
\* nodes left, joined during the installation, or a count failed.
EnoughReplicas ==
    Settled /\ ~grown /\ ~shrunk /\ ~miscounted => keyspace <= replicas

\* "ReplicationFactor defines replication factor for cassandra keyspace"
\* (config.go:40): after a hook the keyspace has the factor of the configuration.
FactorOfKeyspace == Settled => keyspace = config

\* "replication factor must be greater than 0; nodes label selector is
\* misconfigured" (config.go:70): without a node pithosctl does not go on.
MisconfigurationSeen == [][line = "check" /\ line' = "config" => nodes > 0]_vars
=============================================================================
