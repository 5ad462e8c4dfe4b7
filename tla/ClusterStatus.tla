--------------------------- MODULE ClusterStatus ---------------------------
(***************************************************************************)
(* The status of the Cassandra cluster as `pithosctl status` and the       *)
(* /status endpoint report it.                                             *)
(*                                                                         *)
(* A request lists the pods, then runs `nodetool status` in the first of   *)
(* them, and compares the list with the answer.  Pods and ring change      *)
(* meanwhile; pods of a StatefulSet keep their names when they are         *)
(* replaced, so the pod that answers need not be the one that was listed.  *)
(***************************************************************************)
EXTENDS Naturals, FiniteSets

CONSTANTS
    Ordinals,    \* the pods of the StatefulSet are numbered, the first is asked
    Addr,        \* addresses of pods and of Cassandra nodes
    NoAddr,
    Container,   \* containers of a pod
    cassandra,   \* the one nodetool runs in
    ContainerStates, RingStates,  \* the ones that an instance looks at
    Loads,       \* bytes of data on a node; 0 stands for "?", when that is not known
    KiB,         \* load from which nodetool prints another unit than bytes
    Threshold,   \* load from which nodes are compared
    MaxChanges   \* bound: changes of pods and ring

ASSUME StatusAssumption ==
    /\ Ordinals \subseteq Nat /\ IsFiniteSet(Ordinals)
    /\ IsFiniteSet(Addr) /\ NoAddr \notin Addr
    /\ IsFiniteSet(Container) /\ cassandra \in Container
    /\ {"ready", "waiting"} \subseteq ContainerStates
    /\ ContainerStates \subseteq {"ready", "running", "waiting", "terminated"}
    /\ "Normal" \in RingStates /\ RingStates \subseteq {"Normal", "Leaving", "Joining", "Moving"}
    /\ {Threshold, KiB, MaxChanges} \cup Loads \subseteq Nat

VARIABLES
    pods,     \* the pods there are, by ordinal
    ring,     \* what nodetool prints in the pod that is asked, by address
    step,     \* of the request: "idle", "exec" or "judge"
    listed,   \* PodsStatus of the request
    nodes,    \* NodesStatus of the request
    verdict,  \* the answer to the last request
    podsThen, ringThen,  \* history: pods when listed, ring when nodetool ran
    changes

environment == <<pods, ring, changes>>
request     == <<step, listed, nodes, verdict>>
history     == <<podsThen, ringThen>>
statusVars  == <<environment, request, history>>

\* How far a pod has come: kubelet has not taken it yet, its init container has
\* not succeeded, its containers have been created.
Pod == [stage: {"unstarted", "init", "main"}, containers: [Container -> ContainerStates],
        reason: {"", "NodeLost"}, deleting: BOOLEAN, ip: Addr \cup {NoAddr}]

\* Containers wait for the init container, and have an address when they run.
Possible(pod) ==
    /\ pod.stage = "unstarted" => pod.ip = NoAddr /\ pod.reason = ""
    /\ pod.stage # "main" => \A c \in Container : pod.containers[c] = "waiting"
    /\ pod.stage = "main" => pod.ip # NoAddr

Pods == {pod \in Pod : Possible(pod)}

Row == [status: {"Up", "Down"}, state: RingStates, load: Loads]

Distinct(ps) ==
    \A p, q \in DOMAIN ps : p # q /\ ps[p].ip # NoAddr => ps[p].ip # ps[q].ip

----------------------------------------------------------------------------
(***************************************************************************)
(* DeterminePodStatus                                                      *)
(***************************************************************************)
\* A pod whose containers all wait is Pending, but then their reason is reported.
Phase(pod) == IF pod.stage = "main" THEN "Running" ELSE "Pending"

\* A container that waits or ended sets the status, the last one wins; which one
\* that is does not matter.
Troubles(pod) ==
    {pod.containers[c] : c \in Container} \cap {"waiting", "terminated"}

ContainerStatus(pod) ==
    CASE pod.stage = "init" -> "init"
      [] pod.stage = "main" /\ Troubles(pod) # {} -> CHOOSE t \in Troubles(pod) : TRUE
      [] OTHER -> IF pod.reason # "" THEN pod.reason ELSE Phase(pod)

StatusOfPod(pod) ==
    IF ~pod.deleting THEN ContainerStatus(pod)
    ELSE IF pod.reason = "NodeLost" THEN "Unknown" ELSE "Terminating"

\* Faulty: the init container counts too when it is done.
ReadyWithInit(pod) ==
    Cardinality({c \in Container : pod.containers[c] = "ready"})
      + (IF pod.stage = "main" THEN 1 ELSE 0)

ReadyContainers(pod) == Cardinality({c \in Container : pod.containers[c] = "ready"})

PodStatus(pod) ==
    [status |-> StatusOfPod(pod), total |-> Cardinality(Container),
     ready |-> ReadyContainers(pod), ip |-> pod.ip, started |-> pod.stage # "unstarted"]

(***************************************************************************)
(* isClusterHealthy                                                        *)
(***************************************************************************)
Larger(a, b)  == IF a < b THEN b ELSE a
Smaller(a, b) == IF a < b THEN a ELSE b

\* Faulty: one large node is enough to compare.
OverThresholdOfOne(a, b) ==
    /\ Larger(a, b) > Threshold
    /\ 5 * (Larger(a, b) - Smaller(a, b)) > Larger(a, b)

\* More than a fifth of the larger apart.
LoadOverThreshold(a, b) ==
    /\ Smaller(a, b) > Threshold
    /\ 5 * (Larger(a, b) - Smaller(a, b)) > Larger(a, b)

\* nodetool prints a small load in "bytes", a unit that ParseStrictBytes does not
\* know; for "?" getNodeLoad writes "0KiB".
Parses(load) == load = 0 \/ load >= KiB

\* Faulty: the numbers of pods and nodes are not compared.
HealthyPodsOnly(l, n) ==
    /\ Cardinality(DOMAIN l) > 1
    /\ \A p \in DOMAIN l :
           /\ l[p].status = "Running" /\ l[p].ready = l[p].total
           /\ l[p].ip \in DOMAIN n
           /\ n[l[p].ip].status = "Up" /\ n[l[p].ip].state = "Normal"
    /\ \A a \in DOMAIN n : Parses(n[a].load)
    /\ \A a, b \in DOMAIN n : ~LoadOverThreshold(n[a].load, n[b].load)

Healthy(l, n) ==
    /\ Cardinality(DOMAIN l) > 1
    /\ Cardinality(DOMAIN l) = Cardinality(DOMAIN n)
    /\ \A p \in DOMAIN l :
           /\ l[p].status = "Running" /\ l[p].ready = l[p].total
           /\ l[p].ip \in DOMAIN n
           /\ n[l[p].ip].status = "Up" /\ n[l[p].ip].state = "Normal"
    /\ \A a \in DOMAIN n : Parses(n[a].load)
    /\ \A a, b \in DOMAIN n : ~LoadOverThreshold(n[a].load, n[b].load)

----------------------------------------------------------------------------
(***************************************************************************)
(* A request.                                                              *)
(***************************************************************************)
NoRows == [a \in {} |-> 0]

Answer(how) == step' = "idle" /\ verdict' = how

ListPods ==
    /\ step = "idle"
    /\ podsThen' = pods /\ ringThen' = NoRows
    /\ listed' = [p \in DOMAIN pods |-> PodStatus(pods[p])]
    /\ nodes' = NoRows
    /\ IF DOMAIN pods = {}
       THEN Answer("error")
       ELSE step' = "exec" /\ verdict' = "none"
    /\ UNCHANGED environment

FirstListed == CHOOSE p \in DOMAIN listed : \A q \in DOMAIN listed : p <= q

Reachable(p) ==
    p \in DOMAIN pods /\ pods[p].containers[cassandra] \in {"ready", "running"}

\* Joining nodes own nothing: nodetool prints "?" for the percentage, the line
\* does not match the expression of processNode, and indexing the match panics.
Matches(row) == row.state # "Joining"

Nodetool ==
    /\ step = "exec" /\ Reachable(FirstListed)
    /\ ringThen' = ring
    /\ IF \A a \in DOMAIN ring : Matches(ring[a])
       THEN nodes' = ring /\ step' = "judge" /\ UNCHANGED verdict
       ELSE Answer("panic") /\ UNCHANGED nodes
    /\ UNCHANGED <<environment, listed, podsThen>>

\* The container is not there, or nodetool does not reach Cassandra.
NodetoolFails ==
    /\ step = "exec"
    /\ Answer("error")
    /\ UNCHANGED <<environment, listed, nodes, history>>

\* `pithosctl status` prints the table first, and reads through the nil StartTime
\* of a pod that kubelet has not taken.
PrintFails ==
    /\ step = "judge"
    /\ \E p \in DOMAIN listed : ~listed[p].started
    /\ Answer("panic")
    /\ UNCHANGED <<environment, listed, nodes, history>>

\* The verdict of the /status endpoint, of `status --short`, and of `status` when
\* the table was printed.
Judge ==
    /\ step = "judge"
    /\ Answer(IF Healthy(listed, nodes) THEN "healthy" ELSE "unhealthy")
    /\ UNCHANGED <<environment, listed, nodes, history>>

(***************************************************************************)
(* The surroundings: kubelet, the StatefulSet and Cassandra's gossip.      *)
(***************************************************************************)
Change == changes < MaxChanges /\ changes' = changes + 1

PodChanges ==
    /\ Change
    /\ \E p \in Ordinals : \E pod \in Pods :
           /\ pods' = [q \in DOMAIN pods \cup {p} |-> IF q = p THEN pod ELSE pods[q]]
           /\ Distinct(pods')
    /\ UNCHANGED <<ring, request, history>>

PodGone ==
    /\ Change
    /\ \E p \in DOMAIN pods : pods' = [q \in DOMAIN pods \ {p} |-> pods[q]]
    /\ UNCHANGED <<ring, request, history>>

RingChanges ==
    /\ Change
    /\ \E a \in Addr :
           \/ \E row \in Row :
                  ring' = [b \in DOMAIN ring \cup {a} |-> IF b = a THEN row ELSE ring[b]]
           \/ a \in DOMAIN ring /\ ring' = [b \in DOMAIN ring \ {a} |-> ring[b]]
    /\ UNCHANGED <<pods, request, history>>

----------------------------------------------------------------------------
FinePod(a) ==
    [stage |-> "main", containers |-> [c \in Container |-> "ready"], reason |-> "",
     deleting |-> FALSE, ip |-> a]

\* A cluster that runs, with data spread in some way.  (Bound: it stays as it is
\* when its nodes differ in load, so that instances stay small.)
StatusInit ==
    /\ \E home \in [Ordinals -> Addr] :
           /\ \A p, q \in Ordinals : p # q => home[p] # home[q]
           /\ pods = [p \in Ordinals |-> FinePod(home[p])]
           /\ \E load \in [{home[p] : p \in Ordinals} -> Loads] :
                  /\ ring = [a \in DOMAIN load |->
                                [status |-> "Up", state |-> "Normal", load |-> load[a]]]
                  /\ changes = IF \A a, b \in DOMAIN load : load[a] = load[b]
                               THEN 0 ELSE MaxChanges
    /\ step = "idle" /\ verdict = "none"
    /\ listed = NoRows /\ nodes = NoRows
    /\ podsThen = NoRows /\ ringThen = NoRows

StatusNext ==
    \/ ListPods \/ Nodetool \/ NodetoolFails \/ PrintFails \/ Judge
    \/ PodChanges \/ PodGone \/ RingChanges

StatusSpec == StatusInit /\ [][StatusNext]_statusVars

StatusTypeOK ==
    /\ DOMAIN pods \subseteq Ordinals /\ \A p \in DOMAIN pods : pods[p] \in Pods
    /\ DOMAIN ring \subseteq Addr /\ \A a \in DOMAIN ring : ring[a] \in Row
    /\ step \in {"idle", "exec", "judge"}
    /\ verdict \in {"none", "healthy", "unhealthy", "error", "panic"}
    /\ DOMAIN nodes \subseteq Addr /\ \A a \in DOMAIN nodes : nodes[a] \in Row
    /\ DOMAIN listed \subseteq Ordinals
    /\ \A p \in DOMAIN listed : listed[p].ready \in 0 .. listed[p].total
    /\ changes \in 0 .. MaxChanges

----------------------------------------------------------------------------
(***************************************************************************)
(* What a healthy cluster is: each pod runs and is a node of the ring in   *)
(* good order, the ring has no other nodes, and of the nodes above the     *)
(* threshold the largest has at most a quarter more than the smallest.     *)
(***************************************************************************)
PodFine(pod) ==
    /\ pod.stage = "main" /\ pod.reason = "" /\ ~pod.deleting
    /\ \A c \in Container : pod.containers[c] = "ready"

Heavy(rows) == {rows[a].load : a \in DOMAIN rows} \cap {n \in Loads : n > Threshold}

Even(rows) ==
    \A most, least \in Heavy(rows) :
        (\A n \in Heavy(rows) : least <= n /\ n <= most) => 4 * most <= 5 * least

Sound(ps, rows) ==
    /\ \E p, q \in DOMAIN ps : p # q
    /\ \A p \in DOMAIN ps : PodFine(ps[p])
    /\ DOMAIN rows = {ps[p].ip : p \in DOMAIN ps}
    /\ \A a \in DOMAIN rows : rows[a].status = "Up" /\ rows[a].state = "Normal"
    /\ Even(rows)

\* A cluster reported healthy was sound: its pods when they were listed, and every
\* node of the ring, with or without a pod, when nodetool ran (isClusterHealthy loops
\* over the pods only and compares numbers, status.go:167-192), however pods were
\* replaced and the ring changed between the two reads.
HealthyMeansSound == verdict = "healthy" => Sound(podsThen, ringThen)

\* False alarms have one cause: sound pods and a sound ring, read one after the other,
\* do not make a request panic, and are reported unhealthy only when the load of a
\* node is printed in bytes, which does not parse (status.go:200-207).
SoundMeansHealthy ==
    /\ verdict = "panic" => ~Sound(podsThen, ringThen)
    /\ verdict = "unhealthy" =>
           \/ ~Sound(podsThen, ringThen)
           \/ \E a \in DOMAIN ringThen : ~Parses(ringThen[a].load)

\* What the flag says: the threshold is the "Minimum threshold (in bytes) to compute
\* load across the cluster" (status.go:54), so nodes with less data than that do not
\* make a sound cluster unhealthy.
LightNodesIgnored == verdict = "unhealthy" => ~Sound(podsThen, ringThen)

\* What PodStatus says of itself: "CreationTimestamp is the timestamp representing
\* the server time when the pod was created" (kubernetes/status.go:41-42), which
\* every pod has; so only nodetool's answer could make a request panic.
PodsHaveCreationTime ==
    verdict = "panic" => \E a \in DOMAIN ringThen : ~Matches(ringThen[a])

\* What the comment on the format says of each line of a node, "State=Normal/Leaving/
\* Joining/Moving" (cassandra.go:80), for which there is NodeStateJoining: that joining
\* nodes are reported; so only a listed pod could make a request panic.
JoiningNodesReported ==
    verdict = "panic" => \E p \in DOMAIN podsThen : podsThen[p].stage = "unstarted"
=============================================================================
