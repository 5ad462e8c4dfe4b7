------------------------------ MODULE Workload ------------------------------
(***************************************************************************)
(* rig polls the status of a workload (`rig status`, `pithosctl init`)     *)
(* while its controller and kubelet bring its pods up.  An attempt reads   *)
(* the object, and for a StatefulSet its pods and the nodes, in separate   *)
(* calls; there are a number of attempts with a pause between them, in     *)
(* which the command may be cancelled.                                     *)
(*                                                                         *)
(* No two pods of a StatefulSet share a node (podAntiAffinity of           *)
(* cassandra.yaml); a DaemonSet is a StatefulSet with a pod for each node. *)
(***************************************************************************)
EXTENDS Naturals, FiniteSets

CONSTANTS Nodes,       \* number of nodes; they are listed as 1 .. Nodes
          Kinds,       \* the kinds looked at
          Origins,     \* was the object "created" or "updated" in place
          Times,       \* attempts
          MaxMishaps   \* bound: pods that fail or stop being ready

ASSUME WorkloadAssumption ==
    /\ {Nodes, Times} \subseteq Nat \ {0} /\ MaxMishaps \in Nat
    /\ Kinds \subseteq {"statefulset", "deployment", "job"}
    /\ Origins \subseteq {"created", "updated"}

VARIABLES
    kind, origin, replicas,
    pods,        \* by node: the pods made from the object as it is now
    old,         \* pods left of the object as it was before, all available
    counts,      \* what the controller wrote last in the object's status
    pc,          \* the poll: "get", "pods", "nodes", "sleep", "ok", "failed"
    seen,        \* the pods listed in this attempt
    attempt, cancelled,
    steady,      \* history: since this attempt began all was well, calls included
    mishaps

object == <<kind, origin, replicas>>
cluster == <<pods, old, counts, mishaps>>
poll == <<pc, seen, attempt, cancelled>>
vars == <<object, cluster, poll, steady>>

Node == 1 .. Nodes

With(phases) == {n \in Node : pods[n] \in phases}
Existing == With({"pending", "running", "ready"})

Current == [updated |-> Cardinality(Existing),
            available |-> Cardinality(With({"ready"})) + old,
            succeeded |-> Cardinality(With({"succeeded"})),
            active |-> Cardinality(Existing)]

\* The workload does what its object says, and its status says so.
Sound ==
    /\ counts = Current
    /\ IF kind = "job"
       THEN With({"succeeded"}) # {} /\ Existing = {}
       ELSE Cardinality(With({"ready"})) = replicas /\ old = 0

WorkloadTypeOK ==
    /\ kind \in Kinds /\ origin \in Origins /\ replicas \in Node
    /\ pods \in [Node -> {"none", "pending", "running", "ready", "failed", "succeeded"}]
    /\ old \in 0 .. replicas
    /\ counts \in [updated: Nat, available: Nat, succeeded: Nat, active: Nat]
    /\ pc \in {"get", "pods", "nodes", "sleep", "ok", "failed"}
    /\ seen \in [Node -> {"none", "pending", "running", "ready", "failed", "succeeded"}]
    /\ attempt \in 1 .. Times
    /\ cancelled \in BOOLEAN /\ steady \in BOOLEAN
    /\ mishaps \in 0 .. MaxMishaps

Init ==
    /\ kind \in Kinds /\ origin \in Origins
    /\ origin = "updated" => kind = "deployment"
    /\ replicas \in IF kind = "job" THEN {1} ELSE Node
    /\ pods = [n \in Node |-> "none"]
    /\ old = IF origin = "updated" THEN replicas ELSE 0
    /\ counts = [updated |-> old, available |-> old, succeeded |-> 0, active |-> 0]
    /\ pc = "get" /\ attempt = 1 /\ cancelled = FALSE
    /\ seen = pods
    /\ steady = FALSE /\ mishaps = 0

----------------------------------------------------------------------------
(***************************************************************************)
(* The verdict of an attempt.                                              *)
(***************************************************************************)
\* Faulty: a Deployment counts as up when its pods have been made.
UpdatedOnly == counts.updated = replicas

DeploymentUp == counts.updated = replicas /\ counts.available = replicas

\* Faulty: one completion too many.
DoneTwice == counts.succeeded > 1

\* The Jobs here have one completion, the default.
JobDone == counts.succeeded >= 1

\* checkRunning: the loop over the nodes returns at the first one, a pod that
\* runs without being ready is no error, and one that has ended is none either.
FirstRunning == seen[1] \in {"running", "ready", "failed", "succeeded"}

----------------------------------------------------------------------------
(***************************************************************************)
(* The poll.                                                               *)
(***************************************************************************)
\* Faulty: one attempt less, or one more.
LastButOne == attempt + 1 >= Times
OneAfterLast == attempt > Times

LastAttempt == attempt = Times

Return(up) ==
    pc' = IF up THEN "ok" ELSE IF LastAttempt THEN "failed" ELSE "sleep"

\* Status begins; for a Deployment or a Job this is all it reads.
Get ==
    /\ pc = "get"
    /\ steady' = Sound
    /\ CASE kind = "deployment" -> Return(DeploymentUp)
         [] kind = "job"        -> Return(JobDone)
         [] OTHER               -> pc' = "pods"
    /\ UNCHANGED <<object, cluster, seen, attempt, cancelled>>

CollectPods ==
    /\ pc = "pods"
    /\ seen' = pods /\ pc' = "nodes"
    /\ UNCHANGED <<object, cluster, attempt, cancelled, steady>>

ListNodes ==
    /\ pc = "nodes"
    /\ Return(FirstRunning)
    /\ UNCHANGED <<object, cluster, seen, attempt, cancelled, steady>>

InCall == pc \in {"get", "pods", "nodes"}

\* The API server refuses a call or is not reached, and the attempt with it.
CallFails ==
    /\ InCall
    /\ Return(FALSE) /\ steady' = FALSE
    /\ UNCHANGED <<object, cluster, seen, attempt, cancelled>>

\* Faulty: attempts are not counted.
PauseOnly ==
    /\ pc = "sleep"
    /\ pc' = IF cancelled THEN "failed" ELSE "get"
    /\ UNCHANGED <<object, cluster, seen, attempt, cancelled, steady>>

\* The pause ends with the next attempt or, if the context is done, without one.
Pause ==
    /\ pc = "sleep"
    /\ \/ pc' = "get" /\ attempt' = attempt + 1
       \/ cancelled /\ pc' = "failed" /\ UNCHANGED attempt
    /\ UNCHANGED <<object, cluster, seen, cancelled, steady>>

Cancel ==
    /\ ~cancelled /\ pc \notin {"ok", "failed"}
    /\ cancelled' = TRUE
    /\ UNCHANGED <<object, cluster, pc, seen, attempt, steady>>

----------------------------------------------------------------------------
(***************************************************************************)
(* Controllers and kubelet.                                                *)
(***************************************************************************)
Becomes(n, from, to) == pods[n] \in from /\ pods' = [pods EXCEPT ![n] = to]

Surroundings == UNCHANGED <<object, poll>> /\ steady' = (steady /\ Sound')

\* A Deployment may have one pod more than its replicas; a StatefulSet starts its
\* pods one after the other; a Job replaces a pod that failed.
MakePod(n) ==
    /\ Becomes(n, {"none"}, "pending")
    /\ CASE kind = "deployment"  -> Cardinality(Existing) < replicas
                                    /\ Cardinality(Existing) + old <= replicas
         [] kind = "statefulset" -> Cardinality(Existing) < replicas
                                    /\ Existing = With({"ready"})
         [] kind = "job"         -> Existing \cup With({"succeeded"}) = {}
    /\ UNCHANGED <<old, counts, mishaps>>

Progress(n) ==
    /\ \/ Becomes(n, {"pending"}, "running")
       \/ kind # "job" /\ Becomes(n, {"running"}, "ready")
       \/ kind = "job" /\ Becomes(n, {"running"}, "succeeded")
    /\ UNCHANGED <<old, counts, mishaps>>

Mishap(n) ==
    /\ mishaps < MaxMishaps /\ mishaps' = mishaps + 1
    /\ Becomes(n, {"ready"}, "running") \/ Becomes(n, {"running", "ready"}, "failed")
    /\ UNCHANGED <<old, counts>>

ReplaceFailed(n) ==
    /\ Becomes(n, {"failed"}, "none")
    /\ UNCHANGED <<old, counts, mishaps>>

RetireOld ==
    /\ old > 0 /\ old + Cardinality(With({"ready"})) >= replicas
    /\ old' = old - 1
    /\ UNCHANGED <<pods, counts, mishaps>>

WriteStatus ==
    /\ counts # Current
    /\ counts' = Current
    /\ UNCHANGED <<pods, old, mishaps>>

Poll == Get \/ CollectPods \/ ListNodes \/ CallFails \/ Pause

Change ==
    \/ \E n \in Node : MakePod(n) \/ Progress(n) \/ Mishap(n) \/ ReplaceFailed(n)
    \/ RetireOld \/ WriteStatus

Next ==
    \/ Poll \/ Cancel
    \/ Change /\ Surroundings
    \/ pc \in {"ok", "failed"} /\ UNCHANGED vars

\* The timer of the pause fires; a call may never be answered, as the client has no
\* time-out.
Spec == Init /\ [][Next]_vars /\ WF_vars(Pause)

----------------------------------------------------------------------------
Ended == pc \in {"ok", "failed"}

\* A status check that passes found the workload of a new object up, if no pod
\* went down since: all replicas of a Deployment, the pod of a Job.  Of a
\* StatefulSet it found a pod, on the first node.
OkMeansUp ==
    pc = "ok" /\ origin = "created" /\ mishaps = 0 =>
        CASE kind = "deployment" -> Cardinality(With({"ready"})) = replicas
          [] kind = "job"        -> With({"succeeded"}) # {}
          [] OTHER               -> pods[1] \in {"running", "ready"}

\* An attempt during which all is well and every call is answered is not refused,
\* provided that a StatefulSet has a pod on every node.
SoundAccepted ==
    [][pc # pc' /\ pc' \in {"sleep", "failed"} /\ pc # "sleep" =>
           ~steady' \/ (kind = "statefulset" /\ replicas < Nodes)]_vars

\* The poll gives up after its last attempt, or when it was cancelled.
GivesUpLate == pc = "failed" => attempt = Times \/ cancelled

\* It ends, whatever the workload does and however many calls fail, unless one is
\* never answered.
PollEnds == <>Ended \/ <>[]InCall

\* "Returns nil if successful (created/deleted/updated), otherwise an error"
\* (rigging/utils.go:36): nil means that the pods of all replicas have started,
OkMeansStarted ==
    pc = "ok" /\ mishaps = 0 /\ kind # "job"
        => Cardinality(With({"running", "ready"})) = replicas

\* and a workload that is up gets no error while the API server answers.
SoundNeverRefused ==
    [][pc # pc' /\ pc' \in {"sleep", "failed"} /\ pc # "sleep" => ~steady']_vars
=============================================================================
