------------------------------ MODULE Install ------------------------------
(***************************************************************************)
(* Installation of Pithos: images/bootstrap/bootstrap.sh run by the Job    *)
(* pithos-app-install, `pithosctl init` in the middle of it, and the pods  *)
(* of the Deployment it creates.                                           *)
(*                                                                         *)
(* A container that fails or is killed is started again from the first     *)
(* line.  It finds the objects of the earlier containers in the API        *)
(* server, but generates keys of its own, writes them into the ConfigMap   *)
(* that the server reads and then into the Secret that clients and the     *)
(* health check of each pod read.                                          *)
(***************************************************************************)
EXTENDS Naturals, FiniteSets

CONSTANTS
    Pod,             \* replicas of the Deployment pithos
    CassandraFile,   \* objects of resources/cassandra.yaml
    PithosFile,      \* objects of resources/pithos.yaml
    statefulset,     \* the one of CassandraFile that runs Cassandra
    deployment,      \* the one of PithosFile that runs Pithos
    ssl, pithosctl,  \* Secret cassandra-ssl, objects of pithosctl.yaml
    MaxContainers,   \* backoffLimit: containers the install Job starts at most
    MaxFaults,       \* bound: kills, API errors and time-outs
    MaxRestarts      \* bound: containers of the pods that crash

ASSUME ObjectAssumption ==
    /\ statefulset \in CassandraFile /\ deployment \in PithosFile
    /\ CassandraFile \cap PithosFile = {} /\ ssl # pithosctl
    /\ {ssl, pithosctl} \cap (CassandraFile \cup PithosFile) = {}
ASSUME InstallBoundAssumption ==
    MaxContainers \in Nat \ {0} /\ MaxFaults \in Nat /\ MaxRestarts \in Nat

VARIABLES
    objects,     \* objects there are, the four below apart
    configMap,   \* pithos-cfg: which generation of keys it holds, 0 if absent
    secret,      \* pithos-keys: the same
    tablesJob,   \* Job pithos-initialize: "absent", "running", "done" or "dying"
    tables,      \* does the keyspace of Pithos exist in Cassandra
    pc,          \* what the container of the install Job does next
    keys,        \* generation of keys in the memory of pithosctl, 0 if none
    generated,   \* generations there were so far
    containers,  \* containers the install Job has started
    mounted,     \* for each pod, the ConfigMap as kubelet last wrote it, 0 if not
    server,      \* the keys its container pithos was started with, 0 if down
    env,         \* the keys in the environment of its container healthz, 0 if down
    checker,     \* what healthz is doing
    bucket,      \* does the bucket of the health check exist
    faults, restarts,
    rotated      \* history: keys were generated while the Deployment existed

cluster  == <<objects, configMap, secret, tablesJob, tables>>
process  == <<pc, keys, generated, containers, rotated>>
pods     == <<mounted, server, env, checker, bucket>>
installVars == <<cluster, process, pods, faults, restarts>>

Lines == {"ssl", "configmap", "secret", "cassandra", "job", "jobdeleted",
          "poll", "pithos", "apply"}

InstallTypeOK ==
    /\ objects \subseteq CassandraFile \cup PithosFile \cup {ssl, pithosctl}
    /\ tablesJob \in {"absent", "running", "done", "dying"}
    /\ tables \in BOOLEAN
    /\ bucket \in BOOLEAN
    /\ rotated \in BOOLEAN
    /\ pc \in Lines \cup {"installed", "failed"}
    /\ containers \in 1 .. MaxContainers
    /\ generated \in 0 .. containers
    /\ keys \in 0 .. generated
    /\ configMap \in 0 .. generated /\ secret \in 0 .. generated
    /\ mounted \in [Pod -> 0 .. generated]
    /\ server \in [Pod -> 0 .. generated]
    /\ env \in [Pod -> 0 .. generated]
    /\ checker \in [Pod -> {"down", "starting", "creating", "serving"}]
    /\ faults \in 0 .. MaxFaults /\ restarts \in 0 .. MaxRestarts

----------------------------------------------------------------------------
(***************************************************************************)
(* The container of the install Job.                                       *)
(***************************************************************************)
GoTo(next) == pc' = next /\ UNCHANGED <<keys, containers>>

MayStartAgain == containers < MaxContainers

ExitContainer ==
    /\ keys' = 0
    /\ IF MayStartAgain
       THEN pc' = "ssl" /\ containers' = containers + 1
       ELSE pc' = "failed" /\ UNCHANGED containers

Fault == faults < MaxFaults /\ faults' = faults + 1

\* kubectl get || kubectl create: keys of TLS are kept over restarts.
CreateSSLSecret ==
    /\ pc = "ssl"
    /\ objects' = objects \cup {ssl}
    /\ GoTo("configmap")
    /\ UNCHANGED <<configMap, secret, tablesJob, tables, generated, rotated,
                   pods, faults, restarts>>

\* CreateResources: new keys every time, the ConfigMap is written first.
UpsertConfigMap ==
    /\ pc = "configmap"
    /\ generated' = generated + 1
    /\ keys' = generated + 1
    /\ configMap' = generated + 1
    /\ rotated' = (rotated \/ deployment \in objects)
    /\ pc' = "secret"
    /\ UNCHANGED <<objects, secret, tablesJob, tables, containers, pods,
                   faults, restarts>>

\* Faulty: a Secret that exists is left alone.
FirstSecret == IF secret = 0 THEN keys ELSE secret

\* Faulty: the Secret gets keys of its own.
DrawnAgain == generated + 1

NewSecret == keys

UpsertSecret ==
    /\ pc = "secret"
    /\ secret' = NewSecret
    /\ GoTo("cassandra")
    /\ UNCHANGED <<objects, configMap, tablesJob, tables, generated, rotated,
                   pods, faults, restarts>>

\* kubectl create goes on after an object it cannot create.
CreateObjects(made) ==
    /\ objects' = objects \cup made
    /\ UNCHANGED <<configMap, secret, tablesJob, tables, generated, rotated,
                   pods, restarts>>

Missing(file) == file \ objects

\* Faulty: an object that is there already is an error.
NeverTolerated(file) == FALSE

\* "already exists" in the output excuses whatever else went wrong.
Tolerated(file) == Missing(file) # file

Outcome(file, next, failed) ==
    IF ~failed \/ Tolerated(file) THEN GoTo(next) ELSE ExitContainer

KubectlCreate(line, file, next) ==
    /\ pc = line
    /\ CreateObjects(Missing(file))
    /\ Outcome(file, next, Missing(file) # file)
    /\ UNCHANGED faults

KubectlCreateFails(line, file, next) ==
    /\ pc = line
    /\ \E made \in SUBSET Missing(file) :
           made # Missing(file) /\ CreateObjects(made)
    /\ Outcome(file, next, TRUE)
    /\ Fault

\* Faulty: Pithos does not wait for its tables.
JobAfterPithos == "pithos"

AfterCassandra == "job"

CreateCassandra      == KubectlCreate("cassandra", CassandraFile, AfterCassandra)
CreateCassandraFails == KubectlCreateFails("cassandra", CassandraFile, AfterCassandra)
CreatePithos         == KubectlCreate("pithos", PithosFile, "apply")
CreatePithosFails    == KubectlCreateFails("pithos", PithosFile, "apply")

JobUnchanged ==
    UNCHANGED <<objects, configMap, secret, tables, generated, rotated, pods,
                faults, restarts>>

\* JobControl.Upsert deletes the Job of an earlier container and waits.
DeleteJob ==
    /\ pc = "job" /\ tablesJob # "absent"
    /\ tablesJob' = "dying"
    /\ GoTo("jobdeleted")
    /\ JobUnchanged

CreateJob ==
    /\ pc \in {"job", "jobdeleted"} /\ tablesJob = "absent"
    /\ tablesJob' = "running"
    /\ GoTo("poll")
    /\ JobUnchanged

PollSucceeds ==
    /\ pc = "poll" /\ tablesJob = "done"
    /\ GoTo("pithos")
    /\ UNCHANGED <<cluster, generated, rotated, pods, faults, restarts>>

CassandraUp == CassandraFile \subseteq objects

\* All attempts are used up.  While Cassandra may come up that is bad luck.
PollGivesUp ==
    /\ pc = "poll" /\ tablesJob # "done"
    /\ IF CassandraUp THEN Fault ELSE UNCHANGED faults
    /\ ExitContainer
    /\ UNCHANGED <<cluster, generated, rotated, pods, restarts>>

ApplyPithosctl ==
    /\ pc = "apply"
    /\ objects' = objects \cup {pithosctl}
    /\ GoTo("installed")
    /\ UNCHANGED <<configMap, secret, tablesJob, tables, generated, rotated,
                   pods, faults, restarts>>

\* Killed, or an API call failed.
ContainerFails ==
    /\ pc \in Lines
    /\ Fault /\ ExitContainer
    /\ UNCHANGED <<cluster, generated, rotated, pods, restarts>>

----------------------------------------------------------------------------
(***************************************************************************)
(* The tables Job, and the API server that removes it.                     *)
(***************************************************************************)
OnlyCluster ==
    UNCHANGED <<objects, configMap, secret, process, pods, faults, restarts>>

RemoveJob ==
    /\ tablesJob = "dying" /\ tablesJob' = "absent"
    /\ OnlyCluster /\ UNCHANGED tables

\* initialize.sh: CREATE ... IF NOT EXISTS
CreateTables ==
    /\ tablesJob = "running" /\ CassandraUp
    /\ tables' = TRUE /\ tablesJob' = "done"
    /\ OnlyCluster

(***************************************************************************)
(* The pods of the Deployment.                                             *)
(***************************************************************************)
OnlyPod == UNCHANGED <<cluster, process, faults, restarts>>

MountConfigMap(p) ==
    /\ deployment \in objects /\ configMap # mounted[p]
    /\ mounted' = [mounted EXCEPT ![p] = configMap]
    /\ OnlyPod /\ UNCHANGED <<server, env, checker, bucket>>

StartServer(p) ==
    /\ mounted[p] # 0 /\ server[p] = 0 /\ tables
    /\ server' = [server EXCEPT ![p] = mounted[p]]
    /\ OnlyPod /\ UNCHANGED <<mounted, env, checker, bucket>>

\* The environment is taken from the Secret when the container starts.
StartChecker(p) ==
    /\ deployment \in objects /\ secret # 0 /\ checker[p] = "down"
    /\ env' = [env EXCEPT ![p] = secret]
    /\ checker' = [checker EXCEPT ![p] = "starting"]
    /\ OnlyPod /\ UNCHANGED <<mounted, server, bucket>>

StopChecker(p) ==
    /\ env' = [env EXCEPT ![p] = 0]
    /\ checker' = [checker EXCEPT ![p] = "down"]
    /\ UNCHANGED <<mounted, server, bucket>>

Admitted(p) == server[p] # 0 /\ server[p] = env[p]

\* Faulty: the answer is not looked at.
AlwaysCreate == "creating"

AfterLook == IF bucket THEN "serving" ELSE "creating"

\* Prepare: the first request; without an answer, healthz exits.
BucketExists(p) ==
    /\ checker[p] = "starting"
    /\ IF Admitted(p)
       THEN /\ checker' = [checker EXCEPT ![p] = AfterLook]
            /\ UNCHANGED <<mounted, server, env, bucket>>
       ELSE StopChecker(p)
    /\ OnlyPod

\* MakeBucket and PutObject; the other replica may have made the bucket since,
\* which the server may answer with an error.
MakeBucket(p) ==
    /\ checker[p] = "creating"
    /\ \/ /\ Admitted(p)
          /\ bucket' = TRUE
          /\ checker' = [checker EXCEPT ![p] = "serving"]
          /\ UNCHANGED <<mounted, server, env>>
       \/ (bucket \/ ~Admitted(p)) /\ StopChecker(p)
    /\ OnlyPod

\* The liveness probe of the container pithos asks healthz, which answers 503
\* when the server does not let it in; kubelet kills pithos, never healthz.
ProbeFails(p) ==
    /\ checker[p] = "serving" /\ server[p] # 0 /\ ~Admitted(p)
    /\ server' = [server EXCEPT ![p] = 0]
    /\ OnlyPod /\ UNCHANGED <<mounted, env, checker, bucket>>

PodContainerCrashes(p) ==
    /\ restarts < MaxRestarts /\ restarts' = restarts + 1
    /\ \/ /\ server[p] # 0 /\ server' = [server EXCEPT ![p] = 0]
          /\ UNCHANGED <<mounted, env, checker, bucket>>
       \/ checker[p] # "down" /\ StopChecker(p)
    /\ UNCHANGED <<cluster, process, faults>>

----------------------------------------------------------------------------
InstallInit ==
    /\ objects = {} /\ configMap = 0 /\ secret = 0
    /\ tablesJob = "absent" /\ tables = FALSE
    /\ pc = "ssl" /\ keys = 0 /\ generated = 0 /\ containers = 1
    /\ mounted = [p \in Pod |-> 0] /\ server = [p \in Pod |-> 0]
    /\ env = [p \in Pod |-> 0] /\ checker = [p \in Pod |-> "down"]
    /\ bucket = FALSE /\ faults = 0 /\ restarts = 0 /\ rotated = FALSE

Installer ==
    \/ CreateSSLSecret \/ UpsertConfigMap \/ UpsertSecret
    \/ CreateCassandra \/ DeleteJob \/ CreateJob
    \/ PollSucceeds \/ PollGivesUp \/ CreatePithos \/ ApplyPithosctl

Faults == CreateCassandraFails \/ CreatePithosFails \/ ContainerFails

TablesJob == RemoveJob \/ CreateTables

Checker(p) == StartChecker(p) \/ BucketExists(p) \/ MakeBucket(p)

Kubelet(p) == MountConfigMap(p) \/ StartServer(p) \/ Checker(p) \/ ProbeFails(p)

InstallNext ==
    \/ Installer \/ Faults \/ TablesJob
    \/ \E p \in Pod : Kubelet(p) \/ PodContainerCrashes(p)

\* The container runs on unless it fails, and the cluster does its work.
InstallFairness ==
    /\ WF_installVars(Installer) /\ WF_installVars(TablesJob)
    /\ \A p \in Pod :
           /\ WF_installVars(MountConfigMap(p)) /\ WF_installVars(StartServer(p))
           /\ WF_installVars(Checker(p))

InstallSpec == InstallInit /\ [][InstallNext]_installVars /\ InstallFairness

----------------------------------------------------------------------------
\* An installation that reports success has a store with its tables and one
\* generation of keys in the ConfigMap and the Secret, whatever its earlier
\* containers left behind (CreateResources, pithos.go:57-93, runs again in each).
InstalledMeansUsable ==
    pc = "installed" =>
        /\ configMap = secret /\ secret # 0
        /\ tables /\ CassandraUp /\ {ssl, pithosctl} \subseteq objects

\* Pithos is deployed on complete tables only: also when the failure to create
\* an object of cassandra.yaml was excused (init.go:58) and after restarts.
DeploymentAfterTables ==
    deployment \in objects => tables /\ CassandraUp /\ secret # 0

\* As long as no container generated keys under a live Deployment, the server,
\* the health check of each pod and the clients' Secret agree on the keys.
PodsShareKeys ==
    deployment \in objects /\ ~rotated =>
        /\ configMap = secret
        /\ \A p \in Pod : server[p] \in {0, secret} /\ env[p] \in {0, secret}

\* The installation gets through when no more containers fail than the Job allows.
InstallCompletes == <>(pc = "installed")

\* Replicas that race to create the bucket of the health check (healthz.go:117-130)
\* all come to serve, unless the keys were replaced under them.
PodsServe ==
    deployment \in objects
        ~> (rotated \/ \A p \in Pod : checker[p] = "serving" /\ server[p] # 0)

\* "Initialize pithos application" ... "Creating pithos deployment." (init.go:32,67):
\* an installation that reports success has created the Deployment.
InstalledMeansDeployed == pc = "installed" => deployment \in objects
=============================================================================
