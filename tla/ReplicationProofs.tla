------------------------- MODULE ReplicationProofs -------------------------
(***************************************************************************)
(* Proofs about the counts of nodes, for any number of nodes, hooks,       *)
(* changes and faults.                                                     *)
(***************************************************************************)
EXTENDS Replication, TLAPS

\* The copies and pods that the nodes of the moment call for.
Want == IF nodes >= 3 THEN 3 ELSE 1

InstallLines == {"count", "client", "check", "config", "cassandra", "job", "poll"}
UpdateLines  == {"client", "check", "config", "cassandra", "scale"}

\* There is one installation, which ends with a keyspace; before it there is nothing.
PhaseInv ==
    /\ hook = "none" => line = "count"
    /\ hook = "install" => line \in InstallLines /\ ~installed
    /\ hook = "update" => line \in UpdateLines /\ installed /\ file = 1
    /\ installed => job = "done"
    /\ job = "done" => keyspace # 0
    /\ ~installed /\ hook = "none" => replicas = 0 /\ keyspace = 0 /\ job = "absent"
    /\ line \in {"job", "poll"} => replicas # 0
    /\ line = "scale" => replicas = 1

\* During the installation everything follows the same count; afterwards the
\* keyspace keeps it, and three nodes stay three.
CountInv ==
    ~grown /\ ~shrunk /\ ~miscounted =>
        /\ hook = "install" /\ line # "count" => file = Want
        /\ ~installed => replicas \in {0, Want} /\ keyspace \in {0, Want}
        /\ job = "create" => drawn = Want
        /\ keyspace <= Want
        /\ Settled => keyspace <= replicas

\* With the nodes on one side of three all counts give the same, at any time.
SameInv ==
    /\ ~crossed => ~grown /\ ~shrunk
    /\ ~crossed /\ ~miscounted =>
           /\ line = "config" => factor = Want
           /\ line \in {"cassandra", "job", "poll", "scale"} \/ installed => config = Want
           /\ keyspace \in {0, Want}
           /\ Settled => replicas = Want

ReplicationInd == ReplicationTypeOK /\ PhaseInv /\ CountInv /\ SameInv

LEMMA Bounds ==
  MaxNodes \in Nat /\ MaxChanges \in Nat /\ MaxFaults \in Nat /\ MaxHooks \in Nat
<1> QED
  BY ReplicationAssumption

LEMMA InitInd == Init => ReplicationInd
<1> SUFFICES ASSUME Init PROVE ReplicationInd
  OBVIOUS
<1>1. ReplicationTypeOK
  <2>1. /\ installed \in BOOLEAN /\ miscounted \in BOOLEAN
        /\ crossed \in BOOLEAN /\ grown \in BOOLEAN /\ shrunk \in BOOLEAN
    BY Zenon DEF Init
  <2> QED
    BY <2>1, Bounds DEF Init, ReplicationTypeOK, Lines
<1>2. PhaseInv
  BY DEF Init, PhaseInv
<1>3. CountInv
  BY DEF Init, CountInv, Settled, Want
<1>4. SameInv
  BY DEF Init, SameInv, Settled, Want
<1> QED
  BY <1>1, <1>2, <1>3, <1>4 DEF ReplicationInd

LEMMA StartHookInd ==
  ASSUME ReplicationInd, NEW h \in {"install", "update"}, StartHook(h)
  PROVE  ReplicationInd'
<1> USE DEF ReplicationInd, StartContainer, First, objects, history
<1>1. ReplicationTypeOK'
  BY Bounds DEF ReplicationTypeOK, StartHook, Lines
<1>2. PhaseInv'
  BY DEF ReplicationTypeOK, PhaseInv, StartHook, InstallLines, UpdateLines
<1>3. CountInv'
  BY DEF ReplicationTypeOK, PhaseInv, CountInv, StartHook, Settled, Want
<1>4. SameInv'
  BY DEF ReplicationTypeOK, PhaseInv, CountInv, SameInv, StartHook, Settled, Want
<1> QED
  BY <1>1, <1>2, <1>3, <1>4

LEMMA ContainerFailsInd ==
  ASSUME ReplicationInd, ContainerFails PROVE ReplicationInd'
<1> USE DEF ReplicationInd, Fault, StartContainer, First, objects, history
<1>1. ReplicationTypeOK'
  BY Bounds DEF ReplicationTypeOK, ContainerFails, Lines
<1>2. PhaseInv'
  BY DEF ReplicationTypeOK, PhaseInv, ContainerFails, InstallLines, UpdateLines
<1>3. CountInv'
  BY DEF ReplicationTypeOK, PhaseInv, CountInv, ContainerFails, Settled, Want
<1>4. SameInv'
  BY DEF ReplicationTypeOK, PhaseInv, CountInv, SameInv, ContainerFails,
     Settled, Want
<1> QED
  BY <1>1, <1>2, <1>3, <1>4

LEMMA EditFileInd ==
  ASSUME ReplicationInd, EditFile PROVE ReplicationInd'
<1> USE DEF ReplicationInd, Counts, Fault, objects
<1>1. ReplicationTypeOK'
  <2>1. miscounted' \in BOOLEAN
    BY Zenon DEF ReplicationTypeOK, EditFile
  <2>2. faults' \in 0 .. MaxFaults
    BY Bounds DEF ReplicationTypeOK, EditFile
  <2> QED
    BY <2>1, <2>2, Bounds DEF ReplicationTypeOK, EditFile, Lines
<1>2. PhaseInv'
  BY DEF ReplicationTypeOK, PhaseInv, EditFile, InstallLines, UpdateLines
<1>3. CountInv'
  BY DEF ReplicationTypeOK, PhaseInv, CountInv, EditFile, Settled, Want
<1>4. SameInv'
  BY DEF ReplicationTypeOK, PhaseInv, CountInv, SameInv, EditFile, Settled, Want
<1> QED
  BY <1>1, <1>2, <1>3, <1>4

LEMMA NewClientInd ==
  ASSUME ReplicationInd, NewClient PROVE ReplicationInd'
<1> USE DEF ReplicationInd, Goes, objects, history
<1>1. ReplicationTypeOK'
  BY Bounds DEF ReplicationTypeOK, NewClient, Lines
<1>2. PhaseInv'
  BY DEF ReplicationTypeOK, PhaseInv, NewClient, InstallLines, UpdateLines
<1>3. CountInv'
  BY DEF ReplicationTypeOK, PhaseInv, CountInv, NewClient, Settled, Want
<1>4. SameInv'
  BY DEF ReplicationTypeOK, PhaseInv, CountInv, SameInv, NewClient, Settled, Want
<1> QED
  BY <1>1, <1>2, <1>3, <1>4

LEMMA CheckInd ==
  ASSUME ReplicationInd, Check PROVE ReplicationInd'
<1> USE DEF ReplicationInd, Goes, objects, history
<1>1. ReplicationTypeOK'
  BY Bounds DEF ReplicationTypeOK, Check, ReplicationFactor,
     NodesMatchingLabel, Lines
<1>2. PhaseInv'
  BY DEF ReplicationTypeOK, PhaseInv, Check, ReplicationFactor,
     NodesMatchingLabel, InstallLines, UpdateLines
<1>3. CountInv'
  BY DEF ReplicationTypeOK, PhaseInv, CountInv, Check, ReplicationFactor,
     NodesMatchingLabel, Settled, Want
<1>4. SameInv'
  BY DEF ReplicationTypeOK, PhaseInv, CountInv, SameInv, Check,
     ReplicationFactor, NodesMatchingLabel, Settled, Want
<1> QED
  BY <1>1, <1>2, <1>3, <1>4

LEMMA CreateConfigMapInd ==
  ASSUME ReplicationInd, CreateConfigMap PROVE ReplicationInd'
<1> USE DEF ReplicationInd, Goes, history
<1>1. ReplicationTypeOK'
  BY Bounds DEF ReplicationTypeOK, CreateConfigMap, Lines
<1>2. PhaseInv'
  BY DEF ReplicationTypeOK, PhaseInv, CreateConfigMap, InstallLines, UpdateLines
<1>3. CountInv'
  BY DEF ReplicationTypeOK, PhaseInv, CountInv, CreateConfigMap, Settled, Want
<1>4. SameInv'
  BY DEF ReplicationTypeOK, PhaseInv, CountInv, SameInv, CreateConfigMap,
     Settled, Want
<1> QED
  BY <1>1, <1>2, <1>3, <1>4

LEMMA CreateStatefulSetInd ==
  ASSUME ReplicationInd, CreateStatefulSet PROVE ReplicationInd'
<1> USE DEF ReplicationInd, Goes, history
<1>1. ReplicationTypeOK'
  BY Bounds DEF ReplicationTypeOK, CreateStatefulSet, Lines
<1>2. PhaseInv'
  BY DEF ReplicationTypeOK, PhaseInv, CreateStatefulSet, InstallLines, UpdateLines
<1>3. CountInv'
  BY DEF ReplicationTypeOK, PhaseInv, CountInv, CreateStatefulSet, Settled, Want
<1>4. SameInv'
  BY DEF ReplicationTypeOK, PhaseInv, CountInv, SameInv, CreateStatefulSet,
     Settled, Want
<1> QED
  BY <1>1, <1>2, <1>3, <1>4

LEMMA UpsertStatefulSetInd ==
  ASSUME ReplicationInd, UpsertStatefulSet PROVE ReplicationInd'
<1> USE DEF ReplicationInd, Goes, history
<1>1. ReplicationTypeOK'
  BY Bounds DEF ReplicationTypeOK, UpsertStatefulSet, Lines
<1>2. PhaseInv'
  BY DEF ReplicationTypeOK, PhaseInv, UpsertStatefulSet, InstallLines, UpdateLines
<1>3. CountInv'
  BY DEF ReplicationTypeOK, PhaseInv, CountInv, UpsertStatefulSet, Settled, Want
<1>4. SameInv'
  BY DEF ReplicationTypeOK, PhaseInv, CountInv, SameInv, UpsertStatefulSet,
     Settled, Want
<1> QED
  BY <1>1, <1>2, <1>3, <1>4

LEMMA ScaleInd ==
  ASSUME ReplicationInd, Scale PROVE ReplicationInd'
<1> USE DEF ReplicationInd, Counts, Fault, End, StartContainer, First
<1>1. ReplicationTypeOK'
  <2>1. miscounted' \in BOOLEAN
    BY Zenon DEF ReplicationTypeOK, Scale
  <2>2. faults' \in 0 .. MaxFaults
    BY Bounds DEF ReplicationTypeOK, Scale
  <2> QED
    BY <2>1, <2>2, Bounds DEF ReplicationTypeOK, Scale, Lines
<1>2. PhaseInv'
  BY DEF ReplicationTypeOK, PhaseInv, Scale, InstallLines, UpdateLines
<1>3. CountInv'
  BY DEF ReplicationTypeOK, PhaseInv, CountInv, Scale, Settled, Want
<1>4. SameInv'
  BY DEF ReplicationTypeOK, PhaseInv, CountInv, SameInv, Scale, Settled, Want
<1> QED
  BY <1>1, <1>2, <1>3, <1>4

LEMMA UpsertJobInd ==
  ASSUME ReplicationInd, UpsertJob PROVE ReplicationInd'
<1> USE DEF ReplicationInd, Goes, history
<1>1. ReplicationTypeOK'
  BY Bounds DEF ReplicationTypeOK, UpsertJob, Lines
<1>2. PhaseInv'
  BY DEF ReplicationTypeOK, PhaseInv, UpsertJob, InstallLines, UpdateLines
<1>3. CountInv'
  BY DEF ReplicationTypeOK, PhaseInv, CountInv, UpsertJob, Settled, Want
<1>4. SameInv'
  BY DEF ReplicationTypeOK, PhaseInv, CountInv, SameInv, UpsertJob, Settled, Want
<1> QED
  BY <1>1, <1>2, <1>3, <1>4

LEMMA PollSucceedsInd ==
  ASSUME ReplicationInd, PollSucceeds PROVE ReplicationInd'
<1> USE DEF ReplicationInd, End, StartContainer, First, objects, history
<1>1. ReplicationTypeOK'
  BY Bounds DEF ReplicationTypeOK, PollSucceeds, Lines
<1>2. PhaseInv'
  BY DEF ReplicationTypeOK, PhaseInv, PollSucceeds, InstallLines, UpdateLines
<1>3. CountInv'
  BY DEF ReplicationTypeOK, PhaseInv, CountInv, PollSucceeds, UpdateLines, Settled, Want
<1>4. SameInv'
  BY DEF ReplicationTypeOK, PhaseInv, CountInv, SameInv, PollSucceeds, UpdateLines, Settled, Want
<1> QED
  BY <1>1, <1>2, <1>3, <1>4

LEMMA JobCountsInd ==
  ASSUME ReplicationInd, JobCounts PROVE ReplicationInd'
<1> USE DEF ReplicationInd, Counts, Fault, process
<1>1. ReplicationTypeOK'
  <2>1. miscounted' \in BOOLEAN
    BY Zenon DEF ReplicationTypeOK, JobCounts
  <2>2. faults' \in 0 .. MaxFaults
    BY Bounds DEF ReplicationTypeOK, JobCounts
  <2> QED
    BY <2>1, <2>2, Bounds DEF ReplicationTypeOK, JobCounts, ManyNodes, Lines
<1>2. PhaseInv'
  BY DEF ReplicationTypeOK, PhaseInv, JobCounts, ManyNodes, InstallLines,
     UpdateLines
<1>3. CountInv'
  BY DEF ReplicationTypeOK, PhaseInv, CountInv, JobCounts, ManyNodes, Settled, Want
<1>4. SameInv'
  BY DEF ReplicationTypeOK, PhaseInv, CountInv, SameInv, JobCounts, ManyNodes,
     Settled, Want
<1> QED
  BY <1>1, <1>2, <1>3, <1>4

LEMMA JobCreatesInd ==
  ASSUME ReplicationInd, JobCreates PROVE ReplicationInd'
<1> USE DEF ReplicationInd, Fault, process, history
<1>1. ReplicationTypeOK'
  BY Bounds DEF ReplicationTypeOK, JobCreates, Lines
<1>2. PhaseInv'
  BY DEF ReplicationTypeOK, PhaseInv, JobCreates, InstallLines, UpdateLines
<1>3. CountInv'
  BY DEF ReplicationTypeOK, PhaseInv, CountInv, JobCreates, Settled, Want
<1>4. SameInv'
  BY DEF ReplicationTypeOK, PhaseInv, CountInv, SameInv, JobCreates, Settled, Want
<1> QED
  BY <1>1, <1>2, <1>3, <1>4

LEMMA NodesChangeInd ==
  ASSUME ReplicationInd, NEW n \in 0 .. MaxNodes, NodesChange(n) PROVE ReplicationInd'
<1> USE DEF ReplicationInd
<1>1. /\ nodes \in Nat /\ n \in Nat /\ nodes' = n
      /\ UNCHANGED <<process, objects, faults, miscounted>>
  BY Bounds DEF ReplicationTypeOK, NodesChange
<1>2. ~crossed' => ~crossed /\ ((n >= 3) <=> (nodes >= 3))
  BY Zenon DEF ReplicationTypeOK, NodesChange
<1>3. ~grown' => ~grown /\ ~(n >= 3 /\ nodes < 3 /\ hook = "install")
  BY Zenon DEF ReplicationTypeOK, NodesChange
<1>4. ~shrunk' => ~shrunk /\ ~(n < 3 /\ nodes >= 3)
  BY Zenon DEF ReplicationTypeOK, NodesChange
<1>5. ReplicationTypeOK'
  BY Bounds DEF ReplicationTypeOK, NodesChange, process, objects
<1>6. PhaseInv'
  BY <1>1 DEF PhaseInv, process, objects
<1>7. CountInv'
  BY <1>1, <1>3, <1>4
  DEF ReplicationTypeOK, PhaseInv, CountInv, Settled, Want, process, objects
<1>8. SameInv'
  <2>1. ASSUME ~crossed' PROVE ~grown' /\ ~shrunk'
    <3>1. ~grown /\ ~shrunk /\ ((n >= 3) <=> (nodes >= 3))
      BY <1>2, <2>1 DEF SameInv
    <3>2. ~(n >= 3 /\ nodes < 3 /\ hook = "install") /\ ~(n < 3 /\ nodes >= 3)
      BY <1>1, <3>1
    <3> QED
      BY <3>1, <3>2, Zenon DEF NodesChange
  <2>2. ASSUME ~crossed', ~miscounted' PROVE Want' = Want /\ ~crossed /\ ~miscounted
    BY <1>1, <1>2, <2>2 DEF Want
  <2> QED
    BY <1>1, <2>1, <2>2 DEF SameInv, Settled, process, objects
<1> QED
  BY <1>5, <1>6, <1>7, <1>8

LEMMA NextInd == ReplicationInd /\ [Next]_vars => ReplicationInd'
<1> SUFFICES ASSUME ReplicationInd, [Next]_vars PROVE ReplicationInd'
  OBVIOUS
<1>1. CASE UNCHANGED vars
  BY <1>1 DEF ReplicationInd, ReplicationTypeOK, PhaseInv, CountInv, SameInv,
     Settled,
     Want, vars, process, objects, history
<1>2. CASE Next
  BY <1>2, StartHookInd, ContainerFailsInd, EditFileInd, NewClientInd, CheckInd,
     CreateConfigMapInd, CreateStatefulSetInd, UpsertStatefulSetInd, ScaleInd,
     UpsertJobInd, PollSucceedsInd, JobCountsInd, JobCreatesInd, NodesChangeInd
  DEF Next, Hook
<1> QED
  BY <1>1, <1>2

LEMMA AlwaysInd == Spec => []ReplicationInd
<1> QED
  BY InitInd, NextInd, PTL DEF Spec

\* Counts, factors and progress of the hooks stay well-typed.
THEOREM ReplicationTypeCorrect == Spec => []ReplicationTypeOK
<1>1. ReplicationInd => ReplicationTypeOK
  BY DEF ReplicationInd
<1> QED
  BY <1>1, AlwaysInd, PTL

\* While the nodes stay on one side of three and no count fails, the configuration,
\* the keyspace and the StatefulSet have the same number (config.go:100,
\* initialize.sh:6, bootstrap.sh:52, entrypoint.sh:26), however many nodes and hooks
\* there are and wherever their containers fail.
THEOREM FactorsAlwaysAgree == Spec => []FactorsAgree
<1>1. ReplicationInd => FactorsAgree
  <2> SUFFICES ASSUME ReplicationInd, Settled, ~crossed, ~miscounted
               PROVE  config = keyspace /\ replicas = keyspace
    BY DEF FactorsAgree
  <2>1. keyspace # 0
    BY DEF ReplicationInd, PhaseInv, Settled
  <2> QED
    BY <2>1 DEF ReplicationInd, SameInv, Settled
<1> QED
  BY <1>1, AlwaysInd, PTL

\* The keyspace never asks for more copies than there are pods, unless nodes left,
\* joined during the installation, or a count failed.
THEOREM AlwaysEnoughReplicas == Spec => []EnoughReplicas
<1>1. ReplicationInd => EnoughReplicas
  BY DEF ReplicationInd, CountInv, EnoughReplicas
<1> QED
  BY <1>1, AlwaysInd, PTL
=============================================================================
