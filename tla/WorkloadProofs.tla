--------------------------- MODULE WorkloadProofs ---------------------------
(***************************************************************************)
(* Proofs about the polling of a workload, for any number of nodes, pods,  *)
(* attempts and mishaps.                                                   *)
(***************************************************************************)
EXTENDS Workload, FiniteSetTheorems, TLAPS

(***************************************************************************)
(* The invariant.                                                          *)
(***************************************************************************)
\* Controllers make no more pods than an object asks for; pods of a Job complete
\* and are never ready, those of the others never complete.
PodInv ==
    /\ kind # "job" => Cardinality(Existing) <= replicas /\ With({"succeeded"}) = {}
    /\ origin = "created" => old = 0
    /\ mishaps = 0 => With({"failed"}) = {}

\* What the status of an object says was true, and as nothing went down still is.
StatusInv ==
    /\ counts.succeeded >= 1 => With({"succeeded"}) # {}
    /\ mishaps = 0 /\ origin = "created"
           => counts.available <= Cardinality(With({"ready"}))

\* What an attempt saw on the first node.
SeenInv ==
    /\ pc \in {"pods", "nodes"} => kind = "statefulset"
    /\ kind # "job" /\ seen[1] = "succeeded" => FALSE
    /\ mishaps = 0 => seen[1] # "failed"
    /\ mishaps = 0 /\ kind # "job" /\ seen[1] \in {"running", "ready"}
           => pods[1] \in {"running", "ready"}

\* What an accepted attempt found.
OkInv ==
    pc = "ok" =>
        CASE kind = "deployment" ->
                 mishaps = 0 /\ origin = "created"
                     => Cardinality(With({"ready"})) >= replicas
          [] kind = "job"        -> With({"succeeded"}) # {}
          [] OTHER               -> FirstRunning

\* While an attempt is steady all is well, also what it has seen.
SteadyInv ==
    /\ steady => Sound
    /\ steady /\ pc = "nodes" /\ replicas = Nodes => seen[1] = "ready"

\* Attempts are counted.
PollInv ==
    /\ pc = "sleep" => attempt < Times
    /\ pc = "failed" => attempt = Times \/ cancelled

WorkloadInd ==
    WorkloadTypeOK /\ PodInv /\ StatusInv /\ SeenInv /\ OkInv /\ SteadyInv /\ PollInv

Phase == {"none", "pending", "running", "ready", "failed", "succeeded"}

(***************************************************************************)
(* Sets of nodes.                                                          *)
(***************************************************************************)
LEMMA NodeFinite == IsFiniteSet(Node) /\ Cardinality(Node) = Nodes /\ 1 \in Node
<1>1. Nodes \in Nat \ {0}
  BY WorkloadAssumption
<1> QED
  BY <1>1, FS_Interval DEF Node

LEMMA Counting ==
  ASSUME NEW S \in SUBSET Node
  PROVE  /\ IsFiniteSet(S) /\ Cardinality(S) \in Nat /\ Cardinality(S) <= Nodes
         /\ \A T \in SUBSET S : Cardinality(T) \in Nat /\ Cardinality(T) <= Cardinality(S)
                                 /\ (Cardinality(T) = Cardinality(S) => T = S)
         /\ \A n \in Node : Cardinality(S \cup {n}) <= Cardinality(S) + 1
         /\ Cardinality(S) = 0 <=> S = {}
         /\ Cardinality(S) = Nodes => S = Node
<1>1. IsFiniteSet(S) /\ Cardinality(S) <= Nodes /\ (Cardinality(S) = Nodes => S = Node)
  BY NodeFinite, FS_Subset
<1>2. Cardinality(S) \in Nat
  BY <1>1, FS_CardinalityType
<1>3. ASSUME NEW T \in SUBSET S
      PROVE  Cardinality(T) \in Nat /\ Cardinality(T) <= Cardinality(S)
             /\ (Cardinality(T) = Cardinality(S) => T = S)
  BY <1>1, FS_Subset, FS_CardinalityType
<1>4. ASSUME NEW n \in Node PROVE Cardinality(S \cup {n}) <= Cardinality(S) + 1
  <2>1. Cardinality(S \cup {n}) =
            IF n \in S THEN Cardinality(S) ELSE Cardinality(S) + 1
    BY <1>1, FS_AddElement
  <2> QED
    BY <1>2, <2>1
<1>5. Cardinality(S) = 0 <=> S = {}
  BY <1>1, FS_EmptySet
<1> QED
  BY <1>1, <1>2, <1>3, <1>4, <1>5

LEMMA WithType == \A phases : With(phases) \in SUBSET Node
<1> QED
  BY DEF With

LEMMA WithCounts ==
  /\ Existing \in SUBSET Node /\ With({"ready"}) \in SUBSET Existing
  /\ \A phases : Cardinality(With(phases)) \in Nat
  /\ Cardinality(Existing) \in Nat
  /\ Cardinality(With({"ready"})) <= Cardinality(Existing)
<1>1. Existing \in SUBSET Node /\ With({"ready"}) \in SUBSET Existing
  BY DEF With, Existing
<1>2. \A phases : Cardinality(With(phases)) \in Nat
  BY WithType, Counting
<1> QED
  BY <1>1, <1>2, Counting

\* A pod that changes is in the sets of its new phase, and of no other.
LEMMA BecomesSets ==
  ASSUME pods \in [Node -> Phase], NEW n \in Node, NEW from, NEW to \in Phase,
         Becomes(n, from, to)
  PROVE  /\ pods' \in [Node -> Phase] /\ pods[n] \in from /\ pods'[n] = to
         /\ \A m \in Node \ {n} : pods'[m] = pods[m]
         /\ \A phases : With(phases)' =
                IF to \in phases THEN With(phases) \cup {n} ELSE With(phases) \ {n}
<1> QED
  BY DEF Becomes, With

LEMMA CurrentType ==
  ASSUME old \in Nat
  PROVE  Current \in [updated: Nat, available: Nat, succeeded: Nat, active: Nat]
<1> QED
  BY WithCounts DEF Current

LEMMA InitInd == Init => WorkloadInd
<1> SUFFICES ASSUME Init PROVE WorkloadInd
  OBVIOUS
<1>1. 1 \in Node /\ replicas \in Node /\ replicas \in Nat /\ Times \in Nat \ {0}
  BY NodeFinite, WorkloadAssumption DEF Init, Node
<1>2. old \in 0 .. replicas /\ old \in Nat
  BY <1>1 DEF Init
<1>3. \A phases : "none" \notin phases => With(phases) = {}
  BY DEF Init, With
<1>4. With({"succeeded"}) = {} /\ With({"failed"}) = {} /\ With({"ready"}) = {}
      /\ Existing = {}
  BY <1>3 DEF Existing
<1>5. Cardinality({}) = 0
  BY FS_EmptySet
<1>6. seen[1] = "none" /\ pods[1] = "none"
  BY <1>1 DEF Init
<1>7. WorkloadTypeOK
  <2>1. steady \in BOOLEAN /\ cancelled \in BOOLEAN
    BY Zenon DEF Init
  <2>2. mishaps \in 0 .. MaxMishaps /\ attempt \in 1 .. Times
    BY <1>1, WorkloadAssumption DEF Init
  <2>3. counts \in [updated: Nat, available: Nat, succeeded: Nat, active: Nat]
    BY <1>2 DEF Init
  <2> QED
    BY <1>1, <1>2, <2>1, <2>2, <2>3 DEF Init, WorkloadTypeOK
<1>8. PodInv
  BY <1>1, <1>4, <1>5 DEF Init, PodInv
<1>9. StatusInv
  BY <1>4, <1>5 DEF Init, StatusInv
<1>10. SeenInv
  BY <1>6 DEF Init, SeenInv
<1>11. OkInv /\ SteadyInv /\ PollInv
  BY DEF Init, OkInv, SteadyInv, PollInv
<1> QED
  BY <1>7, <1>8, <1>9, <1>10, <1>11 DEF WorkloadInd

(***************************************************************************)
(* The poll preserves it.                                                  *)
(***************************************************************************)
\* The poll leaves the workload alone.
LEMMA SameWorkload ==
  ASSUME UNCHANGED <<object, cluster>>
  PROVE  /\ UNCHANGED <<kind, origin, replicas, pods, old, counts, mishaps>>
         /\ \A phases : With(phases)' = With(phases)
         /\ Existing' = Existing /\ (Sound' <=> Sound)
         /\ (PodInv => PodInv') /\ (StatusInv => StatusInv')
<1>1. UNCHANGED <<kind, origin, replicas, pods, old, counts, mishaps>>
  BY DEF object, cluster
<1>2. \A phases : With(phases)' = With(phases)
  BY <1>1 DEF With
<1>3. Existing' = Existing
  BY <1>2 DEF Existing
<1>4. Current' = Current
  BY <1>1, <1>2, <1>3 DEF Current
<1>5. Sound' <=> Sound
  BY <1>1, <1>2, <1>3, <1>4 DEF Sound
<1>6. (PodInv => PodInv') /\ (StatusInv => StatusInv')
  BY <1>1, <1>2, <1>3 DEF PodInv, StatusInv
<1> QED
  BY <1>1, <1>2, <1>3, <1>5, <1>6

LEMMA GetInd == ASSUME WorkloadInd, Get PROVE WorkloadInd'
<1>1. pc = "get" /\ UNCHANGED <<object, cluster>> /\ UNCHANGED <<seen, attempt, cancelled>>
      /\ steady' = Sound
  BY DEF Get
<1>2. /\ UNCHANGED <<kind, origin, replicas, pods, old, counts, mishaps>>
      /\ \A phases : With(phases)' = With(phases)
      /\ Sound' <=> Sound
      /\ PodInv' /\ StatusInv'
  BY <1>1, SameWorkload DEF WorkloadInd
<1>3. kind \in {"statefulset", "deployment", "job"}
  BY WorkloadAssumption DEF WorkloadInd, WorkloadTypeOK
<1>4. attempt \in 1 .. Times /\ Times \in Nat
  BY WorkloadAssumption DEF WorkloadInd, WorkloadTypeOK
<1>5. /\ kind = "deployment" => Return(DeploymentUp)
      /\ kind = "job" => Return(JobDone)
      /\ kind = "statefulset" => pc' = "pods"
  BY <1>3 DEF Get
<1>6. /\ pc' \in {"pods", "sleep", "ok", "failed"}
      /\ pc' = "pods" => kind = "statefulset"
      /\ pc' = "ok" => (kind = "deployment" /\ DeploymentUp) \/ (kind = "job" /\ JobDone)
      /\ pc' = "sleep" => ~LastAttempt
      /\ pc' = "failed" => LastAttempt
  BY <1>3, <1>5 DEF Return
<1>7. WorkloadTypeOK'
  <2>1. steady' \in BOOLEAN
    BY <1>1 DEF Sound
  <2> QED
    BY <1>1, <1>2, <1>6, <2>1 DEF WorkloadInd, WorkloadTypeOK
<1>8. SeenInv'
  BY <1>1, <1>2, <1>6 DEF WorkloadInd, SeenInv
<1>9. OkInv'
  <2> SUFFICES ASSUME pc' = "ok" PROVE OkInv'
    BY DEF OkInv
  <2>1. CASE kind = "deployment" /\ DeploymentUp
    <3>1. mishaps = 0 /\ origin = "created" => Cardinality(With({"ready"})) >= replicas
      BY <2>1, WithCounts
         DEF DeploymentUp, WorkloadInd, StatusInv, WorkloadTypeOK, Node
    <3> QED
      BY <1>2, <2>1, <3>1 DEF OkInv
  <2>2. CASE kind = "job" /\ JobDone
    <3>1. With({"succeeded"}) # {}
      BY <2>2 DEF JobDone, WorkloadInd, StatusInv
    <3> QED
      BY <1>2, <2>2, <3>1 DEF OkInv
  <2> QED
    BY <1>6, <2>1, <2>2
<1>10. SteadyInv'
  BY <1>1, <1>2, <1>6 DEF SteadyInv
<1>11. PollInv'
  BY <1>1, <1>4, <1>6 DEF LastAttempt, PollInv
<1> QED
  BY <1>2, <1>7, <1>8, <1>9, <1>10, <1>11 DEF WorkloadInd

\* When all is well with a pod for every node, the first node's is ready.
LEMMA SoundEverywhere ==
  ASSUME WorkloadTypeOK, Sound, kind # "job", replicas = Nodes
  PROVE  pods[1] = "ready"
<1>1. Cardinality(With({"ready"})) = Nodes
  BY DEF Sound
<1>2. With({"ready"}) = Node
  BY <1>1, WithType, Counting
<1> QED
  BY <1>2, NodeFinite DEF With

LEMMA CollectPodsInd == ASSUME WorkloadInd, CollectPods PROVE WorkloadInd'
<1>1. pc = "pods" /\ pc' = "nodes" /\ seen' = pods /\ UNCHANGED <<object, cluster>>
      /\ UNCHANGED <<attempt, cancelled, steady>>
  BY DEF CollectPods
<1>2. /\ UNCHANGED <<kind, origin, replicas, pods, old, counts, mishaps>>
      /\ Sound' <=> Sound
      /\ PodInv' /\ StatusInv'
  BY <1>1, SameWorkload DEF WorkloadInd
<1>3. kind = "statefulset"
  BY <1>1 DEF WorkloadInd, SeenInv
<1>4. WorkloadTypeOK'
  BY <1>1, <1>2 DEF WorkloadInd, WorkloadTypeOK
<1>5. SeenInv'
  <2>1. pods[1] # "succeeded" /\ (mishaps = 0 => pods[1] # "failed")
    BY <1>3, NodeFinite DEF WorkloadInd, PodInv, With
  <2> QED
    BY <1>1, <1>2, <1>3, <2>1 DEF SeenInv
<1>6. OkInv' /\ PollInv'
  BY <1>1 DEF OkInv, PollInv
<1>7. SteadyInv'
  BY <1>1, <1>2, <1>3, SoundEverywhere DEF WorkloadInd, SteadyInv
<1> QED
  BY <1>2, <1>4, <1>5, <1>6, <1>7 DEF WorkloadInd

LEMMA ListNodesInd == ASSUME WorkloadInd, ListNodes PROVE WorkloadInd'
<1>1. pc = "nodes" /\ UNCHANGED <<object, cluster>>
      /\ UNCHANGED <<seen, attempt, cancelled, steady>>
  BY DEF ListNodes
<1>2. /\ UNCHANGED <<kind, origin, replicas, pods, old, counts, mishaps>>
      /\ Sound' <=> Sound
      /\ PodInv' /\ StatusInv'
  BY <1>1, SameWorkload DEF WorkloadInd
<1>3. kind = "statefulset"
  BY <1>1 DEF WorkloadInd, SeenInv
<1>4. attempt \in 1 .. Times /\ Times \in Nat
  BY WorkloadAssumption DEF WorkloadInd, WorkloadTypeOK
<1>5. /\ pc' \in {"sleep", "ok", "failed"}
      /\ pc' = "ok" => FirstRunning
      /\ pc' = "sleep" => ~LastAttempt
      /\ pc' = "failed" => LastAttempt
  BY DEF ListNodes, Return
<1>6. WorkloadTypeOK'
  BY <1>1, <1>2, <1>5 DEF WorkloadInd, WorkloadTypeOK
<1>7. SeenInv'
  BY <1>1, <1>2, <1>5 DEF WorkloadInd, SeenInv
<1>8. OkInv'
  BY <1>1, <1>2, <1>3, <1>5 DEF OkInv, FirstRunning
<1>9. SteadyInv'
  BY <1>1, <1>2, <1>5 DEF WorkloadInd, SteadyInv
<1>10. PollInv'
  BY <1>1, <1>4, <1>5 DEF LastAttempt, PollInv
<1> QED
  BY <1>2, <1>6, <1>7, <1>8, <1>9, <1>10 DEF WorkloadInd

LEMMA CallFailsInd == ASSUME WorkloadInd, CallFails PROVE WorkloadInd'
<1>1. UNCHANGED <<object, cluster>> /\ UNCHANGED <<seen, attempt, cancelled>>
      /\ steady' = FALSE
  BY DEF CallFails
<1>2. /\ UNCHANGED <<kind, origin, replicas, pods, old, counts, mishaps>>
      /\ PodInv' /\ StatusInv'
  BY <1>1, SameWorkload DEF WorkloadInd
<1>3. attempt \in 1 .. Times /\ Times \in Nat
  BY WorkloadAssumption DEF WorkloadInd, WorkloadTypeOK
<1>4. /\ pc' \in {"sleep", "failed"}
      /\ pc' = "sleep" => ~LastAttempt
      /\ pc' = "failed" => LastAttempt
  BY DEF CallFails, Return
<1>5. WorkloadTypeOK'
  <2>1. steady' \in BOOLEAN
    BY <1>1, Zenon
  <2> QED
    BY <1>1, <1>2, <1>4, <2>1 DEF WorkloadInd, WorkloadTypeOK
<1>6. SeenInv'
  BY <1>1, <1>2, <1>4 DEF WorkloadInd, SeenInv
<1>7. OkInv' /\ SteadyInv'
  BY <1>1, <1>4 DEF OkInv, SteadyInv
<1>8. PollInv'
  BY <1>1, <1>3, <1>4 DEF LastAttempt, PollInv
<1> QED
  BY <1>2, <1>5, <1>6, <1>7, <1>8 DEF WorkloadInd

LEMMA PauseInd == ASSUME WorkloadInd, Pause \/ Cancel PROVE WorkloadInd'
<1>1. UNCHANGED <<object, cluster>> /\ UNCHANGED <<seen, steady>>
  BY DEF Pause, Cancel
<1>2. /\ UNCHANGED <<kind, origin, replicas, pods, old, counts, mishaps>>
      /\ Sound' <=> Sound
      /\ PodInv' /\ StatusInv'
  BY <1>1, SameWorkload DEF WorkloadInd
<1>3. attempt \in 1 .. Times /\ Times \in Nat /\ (pc = "sleep" => attempt < Times)
  BY WorkloadAssumption DEF WorkloadInd, WorkloadTypeOK, PollInv
<1>4. /\ pc' = pc \/ pc' \in {"get", "failed"}
      /\ attempt' \in 1 .. Times
      /\ cancelled' \in BOOLEAN
  <2>1. CASE Pause
    BY <1>3, <2>1 DEF Pause, WorkloadInd, WorkloadTypeOK
  <2>2. CASE Cancel
    BY <1>3, <2>2 DEF Cancel
  <2> QED
    BY <2>1, <2>2
<1>5. WorkloadTypeOK'
  BY <1>1, <1>2, <1>4 DEF WorkloadInd, WorkloadTypeOK
<1>6. SeenInv'
  BY <1>1, <1>2, <1>4 DEF WorkloadInd, SeenInv
<1>7. OkInv'
  BY <1>1, <1>2, <1>4, SameWorkload DEF WorkloadInd, OkInv, FirstRunning
<1>8. SteadyInv'
  BY <1>1, <1>2, <1>4 DEF WorkloadInd, SteadyInv
<1>9. PollInv'
  BY <1>3 DEF Pause, Cancel, WorkloadInd, PollInv
<1> QED
  BY <1>2, <1>5, <1>6, <1>7, <1>8, <1>9 DEF WorkloadInd

(***************************************************************************)
(* So do controllers and kubelet: what completed stays, and without        *)
(* mishaps pods only get better.                                           *)
(***************************************************************************)
Better ==
    /\ With({"succeeded"}) \subseteq With({"succeeded"})'
    /\ mishaps' = 0 => /\ mishaps = 0
                       /\ With({"ready"}) \subseteq With({"ready"})'
                       /\ kind # "job" /\ pods[1] \in {"running", "ready"}
                              => pods'[1] \in {"running", "ready"}

LEMMA WithCountsNext ==
  ASSUME pods' \in [Node -> Phase]
  PROVE  /\ \A phases : With(phases)' \in SUBSET Node /\ Cardinality(With(phases)') \in Nat
         /\ Existing' \in SUBSET Node /\ Cardinality(Existing)' \in Nat
<1>1. \A phases : With(phases)' \in SUBSET Node
  BY DEF With
<1>2. Existing' \in SUBSET Node
  BY <1>1 DEF Existing
<1> QED
  BY <1>1, <1>2, Counting

\* The parts of the invariant that follow for every change of the workload.
LEMMA BetterInd ==
  ASSUME WorkloadInd, Surroundings, Better, pods' \in [Node -> Phase]
  PROVE  SeenInv' /\ OkInv' /\ SteadyInv' /\ PollInv' /\ (counts' = counts => StatusInv')
<1>1. UNCHANGED <<kind, origin, replicas, pc, seen, attempt, cancelled>>
      /\ steady' = (steady /\ Sound')
  BY DEF Surroundings, object, poll
<1>2. kind \in {"statefulset", "deployment", "job"} /\ replicas \in Nat
      /\ counts.available \in Nat
  BY WorkloadAssumption DEF WorkloadInd, WorkloadTypeOK, Node
<1>3. mishaps' = 0 =>
          /\ mishaps = 0
          /\ Cardinality(With({"ready"})) \in Nat /\ Cardinality(With({"ready"}))' \in Nat
          /\ Cardinality(With({"ready"})) <= Cardinality(With({"ready"}))'
  BY WithCounts, WithCountsNext, Counting DEF Better
<1>4. SeenInv'
  BY <1>1 DEF Better, WorkloadInd, SeenInv
<1>5. OkInv'
  <2> SUFFICES ASSUME pc = "ok" PROVE OkInv'
    BY <1>1 DEF OkInv
  <2>1. CASE kind = "deployment"
    BY <1>1, <1>2, <1>3, <2>1 DEF WorkloadInd, OkInv
  <2>2. CASE kind = "job"
    BY <1>1, <2>2 DEF Better, WorkloadInd, OkInv
  <2>3. CASE kind = "statefulset"
    BY <1>1, <2>3 DEF WorkloadInd, OkInv, FirstRunning
  <2> QED
    BY <1>2, <2>1, <2>2, <2>3
<1>6. SteadyInv' /\ PollInv'
  BY <1>1 DEF WorkloadInd, SteadyInv, PollInv
<1>7. counts' = counts => StatusInv'
  <2> SUFFICES ASSUME counts' = counts PROVE StatusInv'
    OBVIOUS
  <2>1. counts.succeeded >= 1 => With({"succeeded"})' # {}
    BY DEF Better, WorkloadInd, StatusInv
  <2>2. mishaps' = 0 /\ origin = "created"
            => counts.available <= Cardinality(With({"ready"}))'
    BY <1>2, <1>3 DEF WorkloadInd, StatusInv
  <2> QED
    BY <1>1, <2>1, <2>2 DEF StatusInv
<1> QED
  BY <1>4, <1>5, <1>6, <1>7

\* A pod that changes for the better, or by a mishap.
LEMMA BecomesInd ==
  ASSUME WorkloadInd, Surroundings, NEW n \in Node, NEW from, NEW to \in Phase,
         Becomes(n, from, to), UNCHANGED <<old, counts>>, mishaps' \in 0 .. MaxMishaps,
         "succeeded" \notin from, to = "succeeded" => kind = "job",
         kind # "job" => Cardinality(Existing)' <= replicas,
         mishaps' # 0 \/ (/\ mishaps = 0 /\ to # "failed" /\ "ready" \notin from
                          /\ "running" \in from => to \in {"ready", "succeeded"})
  PROVE  WorkloadInd'
<1>1. UNCHANGED <<kind, origin, replicas, pc, seen, attempt, cancelled>>
      /\ steady' \in BOOLEAN
  BY DEF Surroundings, object, poll, Sound, WorkloadInd, WorkloadTypeOK
<1>2. pods \in [Node -> Phase]
  BY DEF WorkloadInd, WorkloadTypeOK, Phase
<1>3. /\ pods' \in [Node -> Phase] /\ pods[n] \in from /\ pods'[n] = to
      /\ \A m \in Node \ {n} : pods'[m] = pods[m]
      /\ \A phases : With(phases)' =
             IF to \in phases THEN With(phases) \cup {n} ELSE With(phases) \ {n}
  BY <1>2, BecomesSets
<1>4. WorkloadTypeOK'
  BY <1>1, <1>3 DEF WorkloadInd, WorkloadTypeOK, Phase
<1>5. With({"succeeded"}) \subseteq With({"succeeded"})'
  BY <1>3 DEF With
<1>6. mishaps' = 0 => With({"ready"}) \subseteq With({"ready"})'
  BY <1>3 DEF With
<1>7. mishaps' = 0 /\ kind # "job" /\ pods[1] \in {"running", "ready"}
          => pods'[1] \in {"running", "ready"}
  BY <1>3, NodeFinite
<1>8. Better
  BY <1>5, <1>6, <1>7 DEF Better
<1>9. SeenInv' /\ OkInv' /\ SteadyInv' /\ PollInv' /\ StatusInv'
  BY <1>3, <1>8, BetterInd
<1>10. PodInv'
  <2>1. kind # "job" => With({"succeeded"})' = {}
    BY <1>3 DEF WorkloadInd, PodInv
  <2>2. mishaps' = 0 => With({"failed"})' = {}
    BY <1>3 DEF WorkloadInd, PodInv
  <2> QED
    BY <1>1, <2>1, <2>2 DEF WorkloadInd, PodInv
<1> QED
  BY <1>4, <1>9, <1>10 DEF WorkloadInd

\* Of the pods that count, a change that makes none leaves no more.
LEMMA NoMorePods ==
  ASSUME WorkloadInd, NEW n \in Node, NEW from, NEW to \in Phase, Becomes(n, from, to),
         to \in {"pending", "running", "ready"}
             => from \subseteq {"pending", "running", "ready"},
         object' = object
  PROVE  kind # "job" => Cardinality(Existing)' <= replicas
<1>1. pods \in [Node -> Phase] /\ replicas \in Nat
  BY DEF WorkloadInd, WorkloadTypeOK, Phase, Node
<1>2. Existing' \subseteq Existing
  BY <1>1, BecomesSets DEF Existing, With
<1>3. Cardinality(Existing)' \in Nat /\ Cardinality(Existing)' <= Cardinality(Existing)
  BY <1>2, WithCounts, Counting
<1> QED
  BY <1>1, <1>3, WithCounts DEF WorkloadInd, PodInv, object

LEMMA MakePodInd ==
  ASSUME WorkloadInd, NEW n \in Node, MakePod(n), Surroundings PROVE WorkloadInd'
<1>1. Becomes(n, {"none"}, "pending") /\ UNCHANGED <<old, counts, mishaps>>
  BY DEF MakePod
<1>2. kind \in {"statefulset", "deployment", "job"} /\ replicas \in Nat
      /\ mishaps \in 0 .. MaxMishaps /\ pods \in [Node -> Phase]
  BY WorkloadAssumption DEF WorkloadInd, WorkloadTypeOK, Node, Phase
<1>3. kind # "job" => Cardinality(Existing)' <= replicas
  <2> SUFFICES ASSUME kind # "job" PROVE Cardinality(Existing)' <= replicas
    OBVIOUS
  <2>1. Cardinality(Existing) < replicas
    BY <1>2 DEF MakePod
  <2>2. Existing' = Existing \cup {n}
    BY <1>1, <1>2, BecomesSets DEF Existing, Phase
  <2>3. Cardinality(Existing) \in Nat /\ Cardinality(Existing)' \in Nat
        /\ Cardinality(Existing)' <= Cardinality(Existing) + 1
    BY <2>2, WithCounts, Counting
  <2> QED
    BY <1>2, <2>1, <2>3
<1> QED
  BY <1>1, <1>2, <1>3, BecomesInd DEF Phase

LEMMA ProgressInd ==
  ASSUME WorkloadInd, NEW n \in Node, Progress(n), Surroundings PROVE WorkloadInd'
<1>1. UNCHANGED <<old, counts, mishaps>> /\ object' = object
      /\ mishaps \in 0 .. MaxMishaps
  BY DEF Progress, Surroundings, WorkloadInd, WorkloadTypeOK
<1>2. CASE Becomes(n, {"pending"}, "running")
  BY <1>1, <1>2, NoMorePods, BecomesInd DEF Phase
<1>3. CASE kind # "job" /\ Becomes(n, {"running"}, "ready")
  BY <1>1, <1>3, NoMorePods, BecomesInd DEF Phase
<1>4. CASE kind = "job" /\ Becomes(n, {"running"}, "succeeded")
  BY <1>1, <1>4, NoMorePods, BecomesInd DEF Phase
<1> QED
  BY <1>2, <1>3, <1>4 DEF Progress

LEMMA MishapInd ==
  ASSUME WorkloadInd, NEW n \in Node, Mishap(n), Surroundings PROVE WorkloadInd'
<1>1. UNCHANGED <<old, counts>> /\ object' = object
  BY DEF Mishap, Surroundings
<1>2. mishaps' \in 0 .. MaxMishaps /\ mishaps' # 0
  BY WorkloadAssumption DEF Mishap, WorkloadInd, WorkloadTypeOK
<1>3. CASE Becomes(n, {"ready"}, "running")
  BY <1>1, <1>2, <1>3, NoMorePods, BecomesInd DEF Phase
<1>4. CASE Becomes(n, {"running", "ready"}, "failed")
  BY <1>1, <1>2, <1>4, NoMorePods, BecomesInd DEF Phase
<1> QED
  BY <1>3, <1>4 DEF Mishap

LEMMA ReplaceFailedInd ==
  ASSUME WorkloadInd, NEW n \in Node, ReplaceFailed(n), Surroundings PROVE WorkloadInd'
<1>1. Becomes(n, {"failed"}, "none") /\ UNCHANGED <<old, counts, mishaps>> /\ object' = object
  BY DEF ReplaceFailed, Surroundings
<1>2. mishaps' \in 0 .. MaxMishaps
  BY <1>1 DEF WorkloadInd, WorkloadTypeOK
<1> QED
  BY <1>1, <1>2, NoMorePods, BecomesInd DEF Phase

\* Steps that leave the pods as they are.
LEMMA SamePods ==
  ASSUME pods' = pods, mishaps' = mishaps
  PROVE  Better /\ Existing' = Existing /\ \A phases : With(phases)' = With(phases)
<1>1. \A phases : With(phases)' = With(phases)
  BY DEF With
<1> QED
  BY <1>1 DEF Better, Existing

LEMMA RetireOldInd == ASSUME WorkloadInd, RetireOld, Surroundings PROVE WorkloadInd'
<1>1. UNCHANGED <<kind, origin, replicas, pc, seen, attempt, cancelled, pods, counts, mishaps>>
      /\ steady' \in BOOLEAN /\ old > 0 /\ old' = old - 1
  BY DEF RetireOld, Surroundings, object, poll, Sound, WorkloadInd, WorkloadTypeOK
<1>2. old' \in 0 .. replicas
  BY <1>1 DEF WorkloadInd, WorkloadTypeOK, Node
<1>3. WorkloadTypeOK'
  BY <1>1, <1>2 DEF WorkloadInd, WorkloadTypeOK
<1>4. PodInv'
  BY <1>1, SamePods DEF WorkloadInd, PodInv
<1> QED
  BY <1>1, <1>3, <1>4, SamePods, BetterInd DEF WorkloadInd, WorkloadTypeOK, Phase

LEMMA WriteStatusInd == ASSUME WorkloadInd, WriteStatus, Surroundings PROVE WorkloadInd'
<1>1. UNCHANGED <<kind, origin, replicas, pc, seen, attempt, cancelled, pods, old, mishaps>>
      /\ steady' \in BOOLEAN /\ counts' = Current
  BY DEF WriteStatus, Surroundings, object, poll, Sound, WorkloadInd, WorkloadTypeOK
<1>2. old \in Nat
  BY DEF WorkloadInd, WorkloadTypeOK, Node
<1>3. WorkloadTypeOK'
  BY <1>1, <1>2, CurrentType DEF WorkloadInd, WorkloadTypeOK
<1>4. PodInv'
  BY <1>1, SamePods DEF WorkloadInd, PodInv
<1>5. StatusInv'
  <2>1. /\ counts'.succeeded = Cardinality(With({"succeeded"}))
        /\ counts'.available = Cardinality(With({"ready"})) + old
    BY <1>1 DEF Current
  <2>2. Cardinality(With({"succeeded"})) >= 1 => With({"succeeded"}) # {}
    BY WithType, Counting
  <2>3. origin = "created" => counts'.available = Cardinality(With({"ready"}))
    BY <1>2, <2>1, WithCounts DEF WorkloadInd, PodInv
  <2> QED
    BY <1>1, <2>1, <2>2, <2>3, SamePods, WithCounts DEF StatusInv
<1> QED
  BY <1>1, <1>3, <1>4, <1>5, SamePods, BetterInd DEF WorkloadInd, WorkloadTypeOK, Phase

LEMMA NextInd == WorkloadInd /\ [Next]_vars => WorkloadInd'
<1> SUFFICES ASSUME WorkloadInd, [Next]_vars PROVE WorkloadInd'
  OBVIOUS
<1>1. CASE UNCHANGED vars
  <2>1. UNCHANGED <<object, cluster, pc, seen, attempt, cancelled, steady>>
    BY <1>1 DEF vars, poll
  <2>2. UNCHANGED <<kind, origin, replicas, pods, old, counts, mishaps>>
        /\ \A phases : With(phases)' = With(phases)
        /\ (Sound' <=> Sound) /\ PodInv' /\ StatusInv'
    BY <2>1, SameWorkload DEF WorkloadInd
  <2> QED
    BY <2>1, <2>2 DEF WorkloadInd, WorkloadTypeOK, SeenInv, OkInv, FirstRunning,
       SteadyInv, PollInv
<1>2. CASE Poll \/ Cancel
  BY <1>2, GetInd, CollectPodsInd, ListNodesInd, CallFailsInd, PauseInd DEF Poll
<1>3. CASE Change /\ Surroundings
  BY <1>3, MakePodInd, ProgressInd, MishapInd, ReplaceFailedInd, RetireOldInd,
     WriteStatusInd DEF Change
<1> QED
  BY <1>1, <1>2, <1>3 DEF Next

LEMMA AlwaysInd == Spec => []WorkloadInd
<1> QED
  BY InitInd, NextInd, PTL DEF Spec

(***************************************************************************)
(* What follows.                                                           *)
(***************************************************************************)
\* The workload and the poll stay well-typed; attempts never exceed Times.
THEOREM WorkloadTypeCorrect == Spec => []WorkloadTypeOK
<1>1. WorkloadInd => WorkloadTypeOK
  BY DEF WorkloadInd
<1> QED
  BY <1>1, AlwaysInd, PTL

\* retry gives up after its last attempt, or because its context is done.
THEOREM AlwaysGivesUpLate == Spec => []GivesUpLate
<1>1. WorkloadInd => GivesUpLate
  BY DEF WorkloadInd, PollInv, GivesUpLate
<1> QED
  BY <1>1, AlwaysInd, PTL

\* A status check that passed was right about a Deployment and a Job, and about the
\* first pod of a StatefulSet, unless a pod went down since.
THEOREM OkAlwaysMeansUp == Spec => []OkMeansUp
<1>1. WorkloadInd => OkMeansUp
  <2> SUFFICES ASSUME WorkloadInd, pc = "ok", origin = "created", mishaps = 0
               PROVE  CASE kind = "deployment" -> Cardinality(With({"ready"})) = replicas
                        [] kind = "job"        -> With({"succeeded"}) # {}
                        [] OTHER               -> pods[1] \in {"running", "ready"}
    BY DEF OkMeansUp
  <2>1. kind \in {"statefulset", "deployment", "job"} /\ replicas \in Nat
    BY WorkloadAssumption DEF WorkloadInd, WorkloadTypeOK, Node
  <2>2. CASE kind = "deployment"
    <3>1. Cardinality(With({"ready"})) >= replicas
      BY <2>2 DEF WorkloadInd, OkInv
    <3>2. Cardinality(Existing) <= replicas
      BY <2>2 DEF WorkloadInd, PodInv
    <3>3. Cardinality(With({"ready"})) = replicas
      BY <2>1, <3>1, <3>2, WithCounts
    <3> QED
      BY <2>2, <3>3
  <2>3. CASE kind = "job"
    BY <2>3 DEF WorkloadInd, OkInv
  <2>4. CASE kind = "statefulset"
    <3>1. FirstRunning
      BY <2>4 DEF WorkloadInd, OkInv
    <3>2. pods[1] \in {"running", "ready"}
      BY <2>4, <3>1 DEF FirstRunning, WorkloadInd, SeenInv
    <3> QED
      BY <2>4, <3>2
  <2> QED
    BY <2>1, <2>2, <2>3, <2>4
<1> QED
  BY <1>1, AlwaysInd, PTL

\* An attempt is refused only if a call failed or something else was amiss while it read
\* the cluster, or because a StatefulSet has no pod on the first node.
THEOREM SoundAlwaysAccepted == Spec => SoundAccepted
<1> DEFINE Accepts == pc # pc' /\ pc' \in {"sleep", "failed"} /\ pc # "sleep" =>
                          ~steady' \/ (kind = "statefulset" /\ replicas < Nodes)
<1>1. WorkloadInd /\ [Next]_vars => [Accepts]_vars
  <2> SUFFICES ASSUME WorkloadInd, Next, pc # pc', pc' \in {"sleep", "failed"},
                      pc # "sleep", steady'
               PROVE  kind = "statefulset" /\ replicas < Nodes
    OBVIOUS
  <2>1. kind \in {"statefulset", "deployment", "job"} /\ replicas \in 1 .. Nodes
        /\ Nodes \in Nat
    BY WorkloadAssumption DEF WorkloadInd, WorkloadTypeOK, Node
  <2>2. CASE Get
    <3>1. Sound
      BY <2>2 DEF Get
    <3>2. CASE kind = "deployment"
      <4>1. /\ Cardinality(With({"ready"})) = replicas /\ old = 0
            /\ counts.updated = Cardinality(Existing)
            /\ counts.available = Cardinality(With({"ready"})) + old
        BY <3>1, <3>2 DEF Sound, Current
      <4>2. Cardinality(Existing) <= replicas
        BY <3>2 DEF WorkloadInd, PodInv
      <4>3. DeploymentUp
        BY <2>1, <4>1, <4>2, WithCounts DEF DeploymentUp
      <4> QED
        BY <2>2, <3>2, <4>3 DEF Get, Return
    <3>3. CASE kind = "job"
      <4>1. counts.succeeded = Cardinality(With({"succeeded"})) /\ With({"succeeded"}) # {}
        BY <3>1, <3>3 DEF Sound, Current
      <4>2. JobDone
        BY <4>1, WithType, Counting DEF JobDone
      <4> QED
        BY <2>2, <3>3, <4>2 DEF Get, Return
    <3> QED
      BY <2>1, <2>2, <3>2, <3>3 DEF Get
  <2>3. CASE ListNodes
    <3>1. steady /\ pc = "nodes" /\ ~FirstRunning
      BY <2>3 DEF ListNodes, Return
    <3>2. replicas # Nodes
      BY <3>1 DEF FirstRunning, WorkloadInd, SteadyInv
    <3>3. kind = "statefulset"
      BY <3>1 DEF WorkloadInd, SeenInv
    <3> QED
      BY <2>1, <3>2, <3>3
  <2> QED
    BY <2>2, <2>3 DEF Next, Poll, CollectPods, CallFails, Pause, Cancel, Surroundings, poll, vars
<1>2. Spec => [][Accepts]_vars
  BY <1>1, AlwaysInd, PTL DEF Spec
<1> QED
  BY <1>2 DEF SoundAccepted
=============================================================================
