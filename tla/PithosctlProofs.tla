-------------------------- MODULE PithosctlProofs --------------------------
(***************************************************************************)
(* Proofs about the commands of pithosctl: `init` in the hook that         *)
(* installs Pithos, for any replicas and objects and any number of         *)
(* containers, faults and restarts; and then the processes that serve,     *)
(* for any requests and signals.                                           *)
(***************************************************************************)
EXTENDS Install, Serve, TLAPS

(***************************************************************************)
(* The invariant.                                                          *)
(***************************************************************************)
\* Each container generates keys once, after these lines.
GeneratedInv == pc \in {"ssl", "configmap"} => generated < containers

KeysWritten ==
    {"cassandra", "job", "jobdeleted", "poll", "pithos", "apply", "installed"}

\* What is there when the container has come to a line.
LineInv ==
    /\ pc = "secret" => keys = configMap /\ keys # 0
    /\ pc \in KeysWritten => configMap = secret /\ secret # 0
    /\ pc \in KeysWritten \cup {"configmap", "secret"} => ssl \in objects
    /\ pc \in {"pithos", "apply", "installed"} => tables
    /\ pc = "installed" => pithosctl \in objects

\* Tables are made by Cassandra.
TablesInv ==
    /\ tablesJob = "done" => tables
    /\ tables => CassandraUp

\* There are no pods without a Deployment; until keys are generated under it, they
\* have those of the Secret.
PodInv ==
    /\ deployment \notin objects =>
           \A p \in Pod : mounted[p] = 0 /\ server[p] = 0 /\ env[p] = 0
    /\ deployment \in objects /\ ~rotated =>
           /\ configMap = secret
           /\ \A p \in Pod :
                  /\ mounted[p] \in {0, secret}
                  /\ server[p] \in {0, secret} /\ env[p] \in {0, secret}

InstallInd ==
    /\ InstallTypeOK /\ GeneratedInv /\ LineInv /\ TablesInv
    /\ DeploymentAfterTables /\ PodInv

LEMMA InstallBase == InstallInit => InstallInd
<1> SUFFICES ASSUME InstallInit PROVE InstallInd
  OBVIOUS
<1> USE DEF InstallInit
<1>1. InstallTypeOK
  <2>1. 1 \in 1 .. MaxContainers /\ 0 \in 0 .. MaxFaults /\ 0 \in 0 .. MaxRestarts
    BY InstallBoundAssumption
  <2>2. /\ generated \in 0 .. containers /\ containers \in 1 .. MaxContainers
        /\ keys \in 0 .. generated /\ configMap \in 0 .. generated
        /\ secret \in 0 .. generated
        /\ faults \in 0 .. MaxFaults /\ restarts \in 0 .. MaxRestarts
    BY <2>1
  <2>3. /\ mounted \in [Pod -> 0 .. generated] /\ server \in [Pod -> 0 .. generated]
        /\ env \in [Pod -> 0 .. generated]
        /\ checker \in [Pod -> {"down", "starting", "creating", "serving"}]
    OBVIOUS
  <2>4. /\ tables \in BOOLEAN /\ bucket \in BOOLEAN /\ rotated \in BOOLEAN
    BY Zenon
  <2> HIDE DEF InstallInit
  <2>5. objects = {} /\ tablesJob = "absent" /\ pc = "ssl"
    BY DEF InstallInit
  <2> QED
    BY <2>2, <2>3, <2>4, <2>5 DEF InstallTypeOK, Lines
<1>2. GeneratedInv
  BY DEF GeneratedInv
<1>3. LineInv /\ TablesInv
  BY DEF LineInv, KeysWritten, TablesInv
<1>4. DeploymentAfterTables /\ PodInv
  BY DEF DeploymentAfterTables, PodInv
<1> QED
  BY <1>1, <1>2, <1>3, <1>4 DEF InstallInd

(***************************************************************************)
(* The container of the install Job.                                       *)
(***************************************************************************)
LEMMA FaultBound == InstallTypeOK /\ Fault => faults' \in 0 .. MaxFaults
<1> QED
  BY InstallBoundAssumption DEF InstallTypeOK, Fault

LEMMA RestartStep ==
  ASSUME InstallInd, ExitContainer, faults' \in 0 .. MaxFaults,
         UNCHANGED <<cluster, generated, rotated, pods, restarts>>
  PROVE  InstallInd'
<1> USE DEF InstallInd, cluster, pods
<1>1. InstallTypeOK'
  BY InstallBoundAssumption DEF InstallTypeOK, ExitContainer, MayStartAgain, Lines
<1>2. GeneratedInv'
  BY InstallBoundAssumption DEF GeneratedInv, InstallTypeOK, ExitContainer
<1>3. LineInv'
  BY DEF LineInv, ExitContainer, KeysWritten
<1>4. TablesInv' /\ DeploymentAfterTables' /\ PodInv'
  BY DEF TablesInv, CassandraUp, DeploymentAfterTables, PodInv
<1> QED
  BY <1>1, <1>2, <1>3, <1>4

LEMMA SSLStep == InstallInd /\ CreateSSLSecret => InstallInd'
<1> SUFFICES ASSUME InstallInd, CreateSSLSecret PROVE InstallInd'
  OBVIOUS
<1> USE DEF InstallInd, CreateSSLSecret, GoTo, pods
<1>1. InstallTypeOK'
  BY DEF InstallTypeOK, Lines
<1>2. GeneratedInv' /\ LineInv'
  BY DEF GeneratedInv, LineInv, KeysWritten
<1>3. TablesInv'
  BY DEF TablesInv, CassandraUp
<1>4. deployment \in objects' <=> deployment \in objects
  BY ObjectAssumption
<1>5. DeploymentAfterTables' /\ PodInv'
  BY <1>4 DEF DeploymentAfterTables, CassandraUp, PodInv
<1> QED
  BY <1>1, <1>2, <1>3, <1>5

LEMMA ConfigMapStep == InstallInd /\ UpsertConfigMap => InstallInd'
<1> SUFFICES ASSUME InstallInd, UpsertConfigMap PROVE InstallInd'
  OBVIOUS
<1> USE DEF InstallInd, UpsertConfigMap, pods
<1>1. generated \in Nat /\ containers \in 1 .. MaxContainers /\ generated < containers
  BY DEF InstallTypeOK, GeneratedInv
<1>2. InstallTypeOK'
  BY <1>1 DEF InstallTypeOK, Lines
<1>3. GeneratedInv' /\ LineInv'
  BY <1>1 DEF GeneratedInv, LineInv, KeysWritten
<1>4. TablesInv' /\ DeploymentAfterTables'
  BY DEF TablesInv, CassandraUp, DeploymentAfterTables
<1>5. PodInv'
  BY DEF PodInv
<1> QED
  BY <1>2, <1>3, <1>4, <1>5

LEMMA SecretStep == InstallInd /\ UpsertSecret => InstallInd'
<1> SUFFICES ASSUME InstallInd, UpsertSecret PROVE InstallInd'
  OBVIOUS
<1> USE DEF InstallInd, UpsertSecret, NewSecret, GoTo, pods
<1>1. secret' = configMap /\ secret' # 0
  BY DEF LineInv
<1>2. InstallTypeOK'
  BY DEF InstallTypeOK, Lines
<1>3. GeneratedInv' /\ LineInv'
  BY <1>1 DEF GeneratedInv, LineInv, KeysWritten
<1>4. TablesInv' /\ DeploymentAfterTables'
  BY <1>1 DEF TablesInv, CassandraUp, DeploymentAfterTables
<1>5. PodInv'
  BY <1>1 DEF PodInv
<1> QED
  BY <1>2, <1>3, <1>4, <1>5

\* What `kubectl create` of a file does, whatever part of it is made and whether or
\* not the container goes on.
LEMMA FileStep ==
  ASSUME InstallInd, NEW file, NEW made \in SUBSET file, NEW next,
         \/ pc = "cassandra" /\ file = CassandraFile /\ next = "job"
         \/ pc = "pithos" /\ file = PithosFile /\ next = "apply",
         CreateObjects(made), faults' \in 0 .. MaxFaults,
         GoTo(next) \/ ExitContainer
  PROVE  InstallInd'
<1> USE DEF InstallInd, CreateObjects, pods
<1>1. InstallTypeOK'
  <2>1. objects' \subseteq CassandraFile \cup PithosFile \cup {ssl, pithosctl}
    BY DEF InstallTypeOK
  <2>2. /\ pc' \in Lines \cup {"installed", "failed"} /\ keys' \in 0 .. generated'
        /\ containers' \in 1 .. MaxContainers /\ generated' \in 0 .. containers'
    BY InstallBoundAssumption
       DEF InstallTypeOK, GoTo, ExitContainer, MayStartAgain, Lines
  <2> QED
    BY <2>1, <2>2 DEF InstallTypeOK
<1>2. GeneratedInv'
  BY InstallBoundAssumption DEF InstallTypeOK, GeneratedInv, GoTo, ExitContainer
<1>3. LineInv'
  BY DEF LineInv, KeysWritten, GoTo, ExitContainer
<1>4. TablesInv'
  BY DEF TablesInv, CassandraUp
<1>5. deployment \in objects' => deployment \in objects \/ pc = "pithos"
  BY ObjectAssumption
<1>6. DeploymentAfterTables'
  BY <1>4, <1>5 DEF DeploymentAfterTables, LineInv, KeysWritten, TablesInv
<1>7. PodInv'
  BY <1>5 DEF PodInv, LineInv, KeysWritten
<1> QED
  BY <1>1, <1>2, <1>3, <1>4, <1>6, <1>7

LEMMA CreateStep ==
  InstallInd /\ (CreateCassandra \/ CreateCassandraFails \/ CreatePithos \/ CreatePithosFails)
    => InstallInd'
<1> SUFFICES ASSUME InstallInd,
                    NEW line, NEW file, NEW next,
                    \/ line = "cassandra" /\ file = CassandraFile /\ next = "job"
                    \/ line = "pithos" /\ file = PithosFile /\ next = "apply",
                    \/ KubectlCreate(line, file, next)
                    \/ KubectlCreateFails(line, file, next)
             PROVE  InstallInd'
  BY DEF CreateCassandra, CreateCassandraFails, CreatePithos, CreatePithosFails,
         AfterCassandra
<1>1. CASE KubectlCreate(line, file, next)
  <2>1. CreateObjects(Missing(file)) /\ (GoTo(next) \/ ExitContainer)
        /\ pc = line /\ faults' = faults
    BY <1>1 DEF KubectlCreate, Outcome
  <2>2. Missing(file) \in SUBSET file /\ faults' \in 0 .. MaxFaults
    BY <2>1 DEF Missing, InstallInd, InstallTypeOK
  <2> QED
    BY <2>1, <2>2, FileStep
<1>2. CASE KubectlCreateFails(line, file, next)
  <2>1. PICK made \in SUBSET Missing(file) : CreateObjects(made)
    BY <1>2 DEF KubectlCreateFails
  <2>2. (GoTo(next) \/ ExitContainer) /\ pc = line /\ Fault
    BY <1>2 DEF KubectlCreateFails, Outcome
  <2>3. made \in SUBSET file /\ faults' \in 0 .. MaxFaults
    BY <2>1, <2>2, FaultBound DEF Missing, InstallInd
  <2> QED
    BY <2>1, <2>2, <2>3, FileStep
<1> QED
  BY <1>1, <1>2

LEMMA JobStep == InstallInd /\ (DeleteJob \/ CreateJob \/ PollSucceeds) => InstallInd'
<1> SUFFICES ASSUME InstallInd, DeleteJob \/ CreateJob \/ PollSucceeds
             PROVE  InstallInd'
  OBVIOUS
<1>1. /\ UNCHANGED <<objects, configMap, secret, tables, generated, rotated, pods,
                     faults, restarts, keys, containers>>
      /\ pc \in {"job", "jobdeleted", "poll"}
      /\ \/ pc' \in {"jobdeleted", "poll"}
         \/ pc' = "pithos" /\ tablesJob = "done"
      /\ tablesJob' \in {"dying", "running", tablesJob}
  BY DEF DeleteJob, CreateJob, PollSucceeds, JobUnchanged, GoTo, cluster, pods
<1> USE DEF InstallInd, pods
<1>2. InstallTypeOK'
  BY <1>1 DEF InstallTypeOK, Lines
<1>3. GeneratedInv'
  BY <1>1 DEF GeneratedInv
<1>4. LineInv'
  BY <1>1 DEF LineInv, KeysWritten, TablesInv
<1>5. TablesInv'
  BY <1>1 DEF TablesInv, CassandraUp
<1>6. DeploymentAfterTables' /\ PodInv'
  BY <1>1 DEF DeploymentAfterTables, CassandraUp, PodInv
<1> QED
  BY <1>2, <1>3, <1>4, <1>5, <1>6

LEMMA ApplyStep == InstallInd /\ ApplyPithosctl => InstallInd'
<1> SUFFICES ASSUME InstallInd, ApplyPithosctl PROVE InstallInd'
  OBVIOUS
<1> USE DEF InstallInd, ApplyPithosctl, GoTo, pods
<1>1. InstallTypeOK'
  BY DEF InstallTypeOK
<1>2. GeneratedInv' /\ LineInv'
  BY DEF GeneratedInv, LineInv, KeysWritten
<1>3. TablesInv'
  BY DEF TablesInv, CassandraUp
<1>4. deployment \in objects' <=> deployment \in objects
  BY ObjectAssumption
<1>5. DeploymentAfterTables' /\ PodInv'
  BY <1>4 DEF DeploymentAfterTables, CassandraUp, PodInv
<1> QED
  BY <1>1, <1>2, <1>3, <1>5

(***************************************************************************)
(* The tables Job and the pods.                                            *)
(***************************************************************************)
LEMMA TablesStep == InstallInd /\ TablesJob => InstallInd'
<1> SUFFICES ASSUME InstallInd, TablesJob PROVE InstallInd'
  OBVIOUS
<1>1. /\ OnlyCluster
      /\ \/ tablesJob' = "absent" /\ tables' = tables
         \/ tablesJob' = "done" /\ tables' = TRUE /\ CassandraUp
  BY DEF TablesJob, RemoveJob, CreateTables
<1> USE DEF InstallInd, OnlyCluster, process, pods
<1>2. InstallTypeOK'
  BY <1>1 DEF InstallTypeOK
<1>3. GeneratedInv' /\ LineInv'
  BY <1>1 DEF GeneratedInv, LineInv
<1>4. TablesInv'
  BY <1>1 DEF TablesInv, CassandraUp
<1>5. DeploymentAfterTables' /\ PodInv'
  BY <1>1 DEF DeploymentAfterTables, CassandraUp, PodInv
<1> QED
  BY <1>2, <1>3, <1>4, <1>5

\* A pod gets what the ConfigMap and the Secret hold, or what it had mounted.
LEMMA OnePodStep ==
  ASSUME InstallInd, NEW p \in Pod,
         UNCHANGED <<cluster, process, faults>>, restarts' \in 0 .. MaxRestarts,
         checker' \in [Pod -> {"down", "starting", "creating", "serving"}],
         bucket' \in BOOLEAN,
         \E m \in {mounted[p], configMap}, s \in {0, server[p], mounted[p]},
            e \in {0, env[p], secret} :
             /\ mounted' = [mounted EXCEPT ![p] = m]
             /\ server' = [server EXCEPT ![p] = s]
             /\ env' = [env EXCEPT ![p] = e]
             /\ deployment \in objects \/ m = mounted[p]
             /\ deployment \in objects \/ e \in {0, env[p]}
  PROVE  InstallInd'
<1> USE DEF InstallInd, cluster, process
<1>1. InstallTypeOK'
  BY DEF InstallTypeOK
<1>2. GeneratedInv' /\ LineInv' /\ TablesInv' /\ DeploymentAfterTables'
  BY DEF GeneratedInv, LineInv, TablesInv, CassandraUp, DeploymentAfterTables
<1>3. PodInv'
  BY DEF PodInv, InstallTypeOK
<1> QED
  BY <1>1, <1>2, <1>3

LEMMA PodsStep ==
  ASSUME InstallInd, NEW p \in Pod, Kubelet(p) \/ PodContainerCrashes(p)
  PROVE  InstallInd'
<1> DEFINE Keep(f) == [f EXCEPT ![p] = f[p]]
<1>1. /\ mounted \in [Pod -> 0 .. generated] /\ server \in [Pod -> 0 .. generated]
      /\ env \in [Pod -> 0 .. generated]
      /\ checker \in [Pod -> {"down", "starting", "creating", "serving"}]
      /\ bucket \in BOOLEAN /\ restarts \in 0 .. MaxRestarts
  BY DEF InstallInd, InstallTypeOK
<1>2. mounted = Keep(mounted) /\ server = Keep(server) /\ env = Keep(env)
  BY <1>1
<1>3. CASE MountConfigMap(p)
  BY <1>1, <1>2, <1>3, OnePodStep DEF MountConfigMap, OnlyPod
<1>4. CASE StartServer(p)
  BY <1>1, <1>2, <1>4, OnePodStep DEF StartServer, OnlyPod
<1>5. CASE StartChecker(p)
  BY <1>1, <1>2, <1>5, OnePodStep DEF StartChecker, OnlyPod
<1>6. CASE BucketExists(p)
  BY <1>1, <1>2, <1>6, OnePodStep DEF BucketExists, AfterLook, StopChecker, OnlyPod
<1>7. CASE MakeBucket(p)
  <2>1. UNCHANGED <<cluster, process, faults>> /\ restarts' = restarts
    BY <1>7 DEF MakeBucket, OnlyPod
  <2>2. CASE checker' = [checker EXCEPT ![p] = "serving"]
             /\ bucket' = TRUE /\ UNCHANGED <<mounted, server, env>>
    BY <1>1, <1>2, <2>1, <2>2, OnePodStep
  <2>3. CASE StopChecker(p)
    BY <1>1, <1>2, <2>1, <2>3, OnePodStep DEF StopChecker
  <2> QED
    BY <1>7, <2>2, <2>3 DEF MakeBucket
<1>8. CASE ProbeFails(p)
  BY <1>1, <1>2, <1>8, OnePodStep DEF ProbeFails, OnlyPod
<1>9. CASE PodContainerCrashes(p)
  <2>1. restarts' \in 0 .. MaxRestarts
    BY <1>1, <1>9, InstallBoundAssumption DEF PodContainerCrashes
  <2> QED
    BY <1>1, <1>2, <1>9, <2>1, OnePodStep DEF PodContainerCrashes, StopChecker
<1> QED
  BY <1>3, <1>4, <1>5, <1>6, <1>7, <1>8, <1>9 DEF Kubelet, Checker

LEMMA InstallStep == InstallInd /\ [InstallNext]_installVars => InstallInd'
<1> SUFFICES ASSUME InstallInd, [InstallNext]_installVars PROVE InstallInd'
  OBVIOUS
<1>1. CASE CreateSSLSecret \/ UpsertConfigMap \/ UpsertSecret
  BY <1>1, SSLStep, ConfigMapStep, SecretStep
<1>2. CASE CreateCassandra \/ CreateCassandraFails \/ CreatePithos \/ CreatePithosFails
  BY <1>2, CreateStep
<1>3. CASE DeleteJob \/ CreateJob \/ PollSucceeds
  BY <1>3, JobStep
<1>4. CASE PollGivesUp \/ ContainerFails
  <2>1. faults' \in 0 .. MaxFaults
    BY <1>4, FaultBound DEF PollGivesUp, ContainerFails, InstallInd, InstallTypeOK
  <2> QED
    BY <1>4, <2>1, RestartStep DEF PollGivesUp, ContainerFails
<1>5. CASE ApplyPithosctl
  BY <1>5, ApplyStep
<1>6. CASE TablesJob
  BY <1>6, TablesStep
<1>7. CASE \E p \in Pod : Kubelet(p) \/ PodContainerCrashes(p)
  BY <1>7, PodsStep
<1>8. CASE UNCHANGED installVars
  <2>1. /\ InstallTypeOK' /\ GeneratedInv' /\ LineInv' /\ TablesInv'
    BY <1>8 DEF installVars, cluster, process, pods, InstallInd, InstallTypeOK,
                GeneratedInv, LineInv, TablesInv, CassandraUp
  <2>2. DeploymentAfterTables' /\ PodInv'
    BY <1>8 DEF installVars, cluster, process, pods, InstallInd,
                DeploymentAfterTables, CassandraUp, PodInv
  <2> QED
    BY <2>1, <2>2 DEF InstallInd
<1> QED
  BY <1>1, <1>2, <1>3, <1>4, <1>5, <1>6, <1>7, <1>8 DEF InstallNext, Installer, Faults

LEMMA InstallInvariant == InstallSpec => []InstallInd
<1> QED
  BY InstallBase, InstallStep, PTL DEF InstallSpec

(***************************************************************************)
(* The theorems.                                                           *)
(***************************************************************************)
\* Every state of an installation is well-typed; in particular no container
\* generates keys twice (CreateResources, pithos.go:57).
THEOREM InstallTypeCorrect == InstallSpec => []InstallTypeOK
<1>1. InstallInd => InstallTypeOK
  BY DEF InstallInd
<1> QED
  BY <1>1, InstallInvariant, PTL

\* Wherever earlier containers stopped, success means tables, keys that agree and
\* the objects that the script makes (init.go:32-77, bootstrap.sh).
THEOREM InstalledIsUsable == InstallSpec => []InstalledMeansUsable
<1>1. InstallInd => InstalledMeansUsable
  BY DEF InstallInd, InstalledMeansUsable, LineInv, KeysWritten, TablesInv
<1> QED
  BY <1>1, InstallInvariant, PTL

\* There is never a Deployment without tables (init.go:58-67).
THEOREM DeploymentIsAfterTables == InstallSpec => []DeploymentAfterTables
<1>1. InstallInd => DeploymentAfterTables
  BY DEF InstallInd
<1> QED
  BY <1>1, InstallInvariant, PTL

\* Servers, health checks and clients share their keys until a container generates
\* keys under a live Deployment (pithos.go:61).
THEOREM PodsAlwaysShareKeys == InstallSpec => []PodsShareKeys
<1>1. InstallInd => PodsShareKeys
  BY DEF InstallInd, PodsShareKeys, PodInv
<1> QED
  BY <1>1, InstallInvariant, PTL

----------------------------------------------------------------------------
(***************************************************************************)
(* `pithosctl healthz` and `pithosctl server`.                             *)
(***************************************************************************)
\* The main goroutine shuts down only after the context is done, and before it does
\* the channel never holds nil.
StopInv ==
    /\ ShuttingDown => done
    /\ main \in {"start", "prepare", "select"} => errChan # "nil"
    /\ main = "exited" /\ exit = 0 => done

\* Only the end of the process cuts a request off.
CutInv ==
    (\E r \in Request : request[r] = "cut") => main = "exited" /\ exit # 0

\* The listener is started last.
PreparedInv ==
    /\ main \in {"start", "prepare"} => listener = "none"
    /\ listener # "none" => prepared
    /\ (\E r \in Request : request[r] # "none") => prepared

ServeInd == ServeTypeOK /\ StopInv /\ CutInv /\ PreparedInv

LEMMA InitInd == Init => ServeInd
<1> SUFFICES ASSUME Init PROVE ServeInd
  OBVIOUS
<1>1. ServeTypeOK
  <2>1. key \in BOOLEAN
    BY Zenon DEF Init, Bound
  <2>2. /\ notified \in BOOLEAN /\ pending \in BOOLEAN
        /\ done \in BOOLEAN /\ prepared \in BOOLEAN
    BY Zenon DEF Init
  <2> QED
    BY <2>1, <2>2, SignalAssumption DEF Init, ServeTypeOK
<1>2. StopInv /\ CutInv /\ PreparedInv
  BY DEF Init, StopInv, ShuttingDown, CutInv, PreparedInv
<1> QED
  BY <1>1, <1>2 DEF ServeInd

LEMMA NotifyInd == ASSUME ServeInd, Notify PROVE ServeInd'
<1> USE DEF ServeInd, ServeTypeOK, Alive, goroutines, signalling
<1>1. ServeTypeOK'
  BY SignalAssumption DEF Notify
<1>2. StopInv'
  BY DEF StopInv, ShuttingDown, Notify
<1>3. CutInv'
  BY DEF CutInv, Notify
<1>4. PreparedInv'
  BY DEF PreparedInv, Notify
<1> QED
  BY <1>1, <1>2, <1>3, <1>4

LEMMA SignalInd == ASSUME ServeInd, Signal PROVE ServeInd'
<1> USE DEF ServeInd, ServeTypeOK, Alive, goroutines, signalling
<1>1. ServeTypeOK'
  <2>1. pending' \in BOOLEAN
    BY Zenon DEF Signal
  <2>2. request' \in [Request -> {"none", "active", "answered", "cut"}]
    BY DEF Signal, Exit
  <2> QED
    BY <2>1, <2>2, SignalAssumption DEF Signal, Exit
<1>2. StopInv'
  BY DEF StopInv, ShuttingDown, Signal, Exit
<1>3. CutInv'
  BY DEF CutInv, Signal, Exit
<1>4. PreparedInv'
  BY DEF PreparedInv, Signal, Exit
<1> QED
  BY <1>1, <1>2, <1>3, <1>4

LEMMA CancelInd == ASSUME ServeInd, Cancel PROVE ServeInd'
<1> USE DEF ServeInd, ServeTypeOK, Alive, goroutines, signalling
<1>1. ServeTypeOK'
  <2>1. done' \in BOOLEAN /\ pending' \in BOOLEAN
    BY Zenon DEF Cancel
  <2>2. UNCHANGED <<command, key, goroutines, notified, signals, request>>
    BY DEF Cancel
  <2> QED
    BY <2>1, <2>2
<1>2. StopInv'
  BY DEF StopInv, ShuttingDown, Cancel
<1>3. CutInv'
  BY DEF CutInv, Cancel
<1>4. PreparedInv'
  BY DEF PreparedInv, Cancel
<1> QED
  BY <1>1, <1>2, <1>3, <1>4

LEMMA StartInd == ASSUME ServeInd, Start PROVE ServeInd'
<1> USE DEF ServeInd, ServeTypeOK, goroutines, signalling
<1>1. ServeTypeOK'
  BY SignalAssumption DEF Start, Exit
<1>2. StopInv'
  BY DEF StopInv, ShuttingDown, Start, Exit
<1>3. CutInv'
  BY DEF CutInv, Start, Exit
<1>4. PreparedInv'
  BY DEF PreparedInv, Start, Exit
<1> QED
  BY <1>1, <1>2, <1>3, <1>4

LEMMA PrepareInd == ASSUME ServeInd, Prepare PROVE ServeInd'
<1> USE DEF ServeInd, ServeTypeOK, goroutines, signalling
<1>1. ServeTypeOK'
  <2>1. prepared' \in BOOLEAN
    BY Zenon DEF Prepare
  <2>2. request' \in [Request -> {"none", "active", "answered", "cut"}]
    BY DEF Prepare, Listening, Exit
  <2> QED
    BY <2>1, <2>2, SignalAssumption DEF Prepare, Listening, Exit
<1>2. StopInv'
  BY DEF StopInv, ShuttingDown, Prepare, Listening, Exit
<1>3. CutInv'
  BY DEF CutInv, Prepare, Listening, Exit
<1>4. PreparedInv'
  BY DEF PreparedInv, Prepare, Listening, Exit
<1> QED
  BY <1>1, <1>2, <1>3, <1>4

LEMMA SelectErrorInd == ASSUME ServeInd, SelectError PROVE ServeInd'
<1> USE DEF ServeInd, ServeTypeOK, goroutines, signalling
<1>1. ServeTypeOK'
  BY SignalAssumption DEF SelectError, Exit
<1>2. StopInv'
  BY DEF StopInv, ShuttingDown, SelectError, Exit
<1>3. CutInv'
  BY DEF StopInv, CutInv, SelectError, Exit
<1>4. PreparedInv'
  BY DEF PreparedInv, SelectError, Exit
<1> QED
  BY <1>1, <1>2, <1>3, <1>4

LEMMA SelectDoneInd == ASSUME ServeInd, SelectDone PROVE ServeInd'
<1> USE DEF ServeInd, ServeTypeOK, goroutines, signalling
<1>1. ServeTypeOK'
  BY SignalAssumption DEF SelectDone
<1>2. StopInv'
  BY DEF StopInv, ShuttingDown, SelectDone
<1>3. CutInv'
  BY DEF CutInv, SelectDone
<1>4. PreparedInv'
  BY DEF PreparedInv, SelectDone
<1> QED
  BY <1>1, <1>2, <1>3, <1>4

LEMMA ShutdownInd == ASSUME ServeInd, Shutdown PROVE ServeInd'
<1> USE DEF ServeInd, ServeTypeOK, goroutines, signalling
<1>1. ServeTypeOK'
  BY SignalAssumption DEF Shutdown, Quiescent, Active, Exit
<1>2. StopInv'
  BY DEF StopInv, ShuttingDown, Shutdown, Quiescent, Active, Exit
<1>3. CutInv'
  BY DEF CutInv, Shutdown, Quiescent, Active, Exit
<1>4. PreparedInv'
  BY DEF PreparedInv, Shutdown, Quiescent, Active, Exit
<1> QED
  BY <1>1, <1>2, <1>3, <1>4

LEMMA ShutdownTimesOutInd == ASSUME ServeInd, ShutdownTimesOut PROVE ServeInd'
<1> USE DEF ServeInd, ServeTypeOK, goroutines, signalling
<1>1. ServeTypeOK'
  BY SignalAssumption DEF ShutdownTimesOut, Deadline, Exit
<1>2. StopInv'
  BY DEF StopInv, ShuttingDown, ShutdownTimesOut, Deadline, Exit
<1>3. CutInv'
  BY DEF CutInv, ShutdownTimesOut, Deadline, Exit
<1>4. PreparedInv'
  BY DEF PreparedInv, ShutdownTimesOut, Deadline, Exit
<1> QED
  BY <1>1, <1>2, <1>3, <1>4

LEMMA ListenInd == ASSUME ServeInd, Listen PROVE ServeInd'
<1> USE DEF ServeInd, ServeTypeOK, Alive, goroutines, signalling
<1>1. ServeTypeOK'
  BY SignalAssumption DEF Listen, ClosedError, ServeError, ShuttingDown
<1>2. StopInv'
  BY DEF StopInv, Listen, ClosedError, ServeError, ShuttingDown
<1>3. CutInv'
  BY DEF CutInv, Listen, ClosedError, ServeError, ShuttingDown
<1>4. PreparedInv'
  BY DEF PreparedInv, Listen, ClosedError, ServeError, ShuttingDown
<1> QED
  BY <1>1, <1>2, <1>3, <1>4

LEMMA ServeReturnsInd == ASSUME ServeInd, ServeReturns PROVE ServeInd'
<1> USE DEF ServeInd, ServeTypeOK, Alive, goroutines, signalling
<1>1. ServeTypeOK'
  BY SignalAssumption DEF ServeReturns, ClosedError, ServeError, ShuttingDown
<1>2. StopInv'
  BY DEF StopInv, ServeReturns, ClosedError, ServeError, ShuttingDown
<1>3. CutInv'
  BY DEF CutInv, ServeReturns, ClosedError, ServeError, ShuttingDown
<1>4. PreparedInv'
  BY DEF PreparedInv, ServeReturns, ClosedError, ServeError, ShuttingDown
<1> QED
  BY <1>1, <1>2, <1>3, <1>4

LEMMA AcceptInd == ASSUME ServeInd, NEW r \in Request, Accept(r) PROVE ServeInd'
<1> USE DEF ServeInd, ServeTypeOK, Alive, goroutines, signalling
<1>1. ServeTypeOK'
  BY SignalAssumption DEF Accept, ShuttingDown
<1>2. StopInv'
  BY DEF StopInv, Accept, ShuttingDown
<1>3. CutInv'
  BY DEF CutInv, Accept, ShuttingDown
<1>4. PreparedInv'
  BY DEF PreparedInv, Accept, ShuttingDown
<1> QED
  BY <1>1, <1>2, <1>3, <1>4

LEMMA AnswerInd == ASSUME ServeInd, NEW r \in Request, Answer(r) PROVE ServeInd'
<1> USE DEF ServeInd, ServeTypeOK, Alive, goroutines, signalling
<1>1. ServeTypeOK'
  BY SignalAssumption DEF Answer
<1>2. StopInv'
  BY DEF StopInv, ShuttingDown, Answer
<1>3. CutInv'
  BY DEF CutInv, Answer
<1>4. PreparedInv'
  BY DEF PreparedInv, Answer
<1> QED
  BY <1>1, <1>2, <1>3, <1>4

LEMMA NextInd == ServeInd /\ [Next]_vars => ServeInd'
<1> SUFFICES ASSUME ServeInd, [Next]_vars PROVE ServeInd'
  OBVIOUS
<1>1. CASE UNCHANGED vars
  BY <1>1 DEF vars, goroutines, signalling, ServeInd, ServeTypeOK, StopInv, ShuttingDown,
     CutInv, PreparedInv
<1>2. CASE Next
  BY <1>1, <1>2, NotifyInd, SignalInd, CancelInd, StartInd, PrepareInd, SelectErrorInd,
     SelectDoneInd, ShutdownInd, ShutdownTimesOutInd, ListenInd, ServeReturnsInd,
     AcceptInd, AnswerInd
  DEF Next, Main
<1> QED
  BY <1>1, <1>2

LEMMA AlwaysInd == Spec => []ServeInd
<1> QED
  BY InitInd, NextInd, PTL DEF Spec

\* Goroutines, channels and requests stay well-typed.
THEOREM ServeTypeCorrect == Spec => []ServeTypeOK
<1>1. ServeInd => ServeTypeOK
  BY DEF ServeInd
<1> QED
  BY <1>1, AlwaysInd, PTL

\* Status 0 means that the process was told to stop and no client lost its answer
\* (main.go:50-55, server.go:90-95), for any number of requests and signals.
THEOREM ExitIsClean == Spec => []CleanExit
<1>1. ServeInd => CleanExit
  BY DEF ServeInd, StopInv, CutInv, CleanExit
<1> QED
  BY <1>1, AlwaysInd, PTL

\* No request is answered before what the answer is about was prepared.
THEOREM AnswersAlwaysPrepared == Spec => []AnswersPrepared
<1>1. ServeInd => AnswersPrepared
  BY DEF ServeInd, PreparedInv, AnswersPrepared
<1> QED
  BY <1>1, AlwaysInd, PTL
=============================================================================
