# Verification of the Pithos application

Pithos is an S3-compatible object store on Cassandra, packaged as a Gravity
application: Docker images, Kubernetes resources, hook scripts run as Jobs, and
`pithosctl`, a Go program the hooks and pods call. The updates go through `rig`
(`vendor/github.com/gravitational/rigging`), which keeps a log of changes, a
*changeset*, in the Kubernetes API server. This directory holds TLA+ models of
that system, the TLC runs that check them, and proofs for TLAPS.

## The system

| Component | State it keeps | Operations | Talks to |
|---|---|---|---|
| rig changeset (`rigging/changeset.go`, `spec.go`) | status and list of items, in a custom resource | upsert, delete, status, freeze, revert, delete the changeset | the resource controls, the API server |
| resource controls (`rigging/deployment.go`, `job.go`, ...) | none | Delete, Upsert, Status per kind; foreground deletion, scale-down, recreation | the API server |
| polling (`rigging/utils.go`) | attempts left | PollStatus, retry, wait for deletion, readiness of pods | the controls |
| update and rollback hooks (`images/hook/entrypoint.sh`, `resources/app.yaml`) | the line of a shell script; restarts counted by the Job | delete, upsert, `pithosctl update`, scale, status, freeze; revert | rig, kubectl, pithosctl |
| install hook (`images/bootstrap/bootstrap.sh`, `cmd/pithosctl/init.go`, `pkg/pithos/pithos.go`) | the line of the script; generated keys in memory | create secrets, ConfigMap, Cassandra, tables, Pithos | kubectl, API server |
| `pithosctl update` (`pkg/pithos/update.go`) | none | render `pithos-cfg` from the Secret | API server |
| health check (`cmd/pithosctl/healthz.go`, `pkg/pithos/healthz.go`) | S3 client with the keys of its environment | prepare bucket and object, answer the liveness probe | the server in its pod |
| cluster status (`cmd/pithosctl/status.go`, `server.go`, `pkg/cluster`, `pkg/cassandra`, `pkg/kubernetes/status.go`) | none | list pods, run nodetool in one, decide whether the cluster is healthy | API server, Cassandra |
| serving processes (`healthz.go`, `server.go`, `main.go`) | channels of errors and signals, the context | start, wait for an error or a signal, shut down | kubelet, clients |
| configuration (`pkg/cluster/config.go`) | flags | defaults, replication factor | API server |
| Cassandra images (seed provider, readiness probe, `initialize.sh`) | keyspace, ring | choose seeds, report readiness, create tables | API server, Cassandra |
| uninstall hook | none | delete objects | kubectl |

What is hard here: every hook is a sequence of calls that may stop after any of
them and is then started again from its first line; the API server removes
objects some time after it accepted their deletion; the log of a changeset and
the objects it is about are written by separate calls; some objects are written
outside the log; keys live at once in a ConfigMap, a Secret, the memory of
servers and the environment of health checks; four programs count the same nodes at
different times; a status is computed from reads that are not one read. `PROJECT.json` lists these hazards
one by one with the line where each bites.

What makes each component correct: the log of a changeset always suffices to go back,
and "reverted" and "committed" mean it; an update ends in the new release, a rollback
in the old one, and Pithos never runs on the other's configuration; an installation
that reports success left something usable; a status that is accepted, of a workload or of
the cluster, is true of what was read; the numbers of copies, pods and nodes fit;
what init writes update reads back; a process that is told to stop does, and says
whether it lost an answer; an uninstallation tries everything.

## Modules

* **Changeset** - rig over the API server. `content` and `dying` are the cluster,
  `status` and `items` the stored log, `step` and `task` the memory of the rig
  process that runs: which API call comes next and about what. `base` and `author`
  are history. One action per API call: `BeginDelete`/`BeginUpsert` (create or read
  the changeset, read the object), `Record` (append the item), the actions of
  `Apply` (the controls' Delete and Upsert), `Complete` (mark the item), `BeginRevert`,
  `ItemReverted`, `CloseReverted`, `Freeze`, `Discard`. `Abort` ends the process
  after any call: kills, API errors and time-outs look the same to the next command.
  Kinds are told apart by what their controls do: `Recreated` (Job, StatefulSet,
  DaemonSet: an upsert deletes in the foreground, waits, and creates), `Scalable`
  (Deployment: a delete scales to 0 first, an upsert updates in place) and the rest
  (ConfigMap, Service, RBAC: one call each).
* **AtomicChangeset** - what a changeset promises, without a log: contents are saved
  before objects change, stay saved until the changeset is forgotten, half-made changes
  are not committed, "reverted" means that what was saved is back.
  **ChangesetRefinement** maps Changeset to it: `saved` is the `from` of the first item
  about each object, `half` the objects with an item that is not completed, `busy` and
  `seen` the memory of the rig process.
* **UpdateHook** EXTENDS Changeset with `entrypoint.sh`: `Script` is the list of
  commands, `line` and `shell` the state of bash, `tries` the containers of the Job.
  Each step of a rig command is the step of Changeset; `pithosctl update` and
  `kubectl scale` are its `ForeignWrite`. `ready` are the workloads whose status
  check would pass. Objects that the script treats alike are one object:
  `deployments/cassandra-utils`, `configmaps/cassandra-cfg`, the monitoring ConfigMaps,
  services and RBAC objects are left to those of their class that remain.
* **Workload** - one poll of `rig status`: `Get` reads the object (and decides for a
  Deployment and a Job), `CollectPods` and `ListNodes` are the two further reads for a
  StatefulSet or DaemonSet, `CallFails` the failure of any of these calls, which refuses
  the attempt, `Pause` the wait of `retry`, `Cancel` the context.
  Meanwhile kubelet (`MakePod`, `Progress`, `Mishap`, `ReplaceFailed`), the rollout
  (`RetireOld`) and the controller that writes the status (`WriteStatus`) move.
* **Install** - `bootstrap.sh`, `pithosctl init`, the tables Job, and the pods of the
  Deployment. `pc` is the line; the ConfigMap, the Secret, servers and health checks
  hold *generations* of keys. `kubectl create` may create any part of what is missing.
* **AccessKeys** - what a generation is made of: the keystore that the server reads, by
  name of the key, and the four fields of the Secret. `DrawKeys`, `CreateConfigMap`,
  `CreateSecret` are `pithosctl init`; `GetSecret`, `ParseSecret`, `CreateConfigMap` are
  `pithosctl update`; `Fail` and `EditSecret` come at any time. An edit may take fields
  away or write any value: a new one, one of another field, an old one, or nothing. A
  keystore is a Go map: an entry replaces one of the same name (`Put`).
* **Replication** - the four counts of nodes: `EditFile` (bootstrap.sh), `Check`
  (pithosctl), `JobCounts` (initialize.sh) and `Scale` (entrypoint.sh), in the order in
  which the install and update hooks get to them, with `NodesChange` and
  `ContainerFails` between any two.
* **Serve** - `pithosctl healthz` and `pithosctl server`: the main goroutine
  (`Start`, `Prepare`, `SelectError`, `SelectDone`, `Shutdown`, `ShutdownTimesOut`), the one
  that waits for signals (`Notify`, `Cancel`), the one that listens (`Listen`), and the
  requests (`Accept`, `Answer`). The other actions are what happens to the process.
* **ClusterStatus** - one request for the state of Cassandra. `ListPods` is the list of
  pods with `DeterminePodStatus` of each, `Nodetool` the answer of the first of them,
  `Judge` `isClusterHealthy`; `PrintFails` is the table of `pithosctl status` reading a
  missing StartTime. `pods` and `ring` change at any time (`PodChanges`, `PodGone`,
  `RingChanges`); `podsThen` and `ringThen` are history. `Sound` says what a healthy
  cluster is in other terms than the code: sets of addresses instead of numbers of
  pods and nodes, the largest and smallest node instead of pairs. `Parses` says which
  loads `isClusterHealthy` can read at all.
* **Uninstall** - `uninstall.sh`: `Delete` is one line of it, any part of whose objects
  the API server may keep; there is no errexit, and the Job starts containers again.
* **MC*.tla** instantiate these for TLC. **ChangesetProofs** (with the refinement),
  **HookProofs**, **WorkloadProofs**, **AccessKeysProofs**, **ClusterStatusProofs**,
  **ReplicationProofs**, **UninstallProofs**, and **PithosctlProofs** for Install and Serve,
  hold the proofs.

How they compose: UpdateHook and ChangesetRefinement extend Changeset. Install, AccessKeys
and Replication look at the same hooks for different data (which objects are there, which
keys, which numbers), so that each stays small; Workload refines the single step in which
UpdateHook and Install wait for a status. Serve is the process around the requests that
ClusterStatus (`/status`) and Install (the liveness probe) describe.

Definitions marked *Faulty* in a module are what a plausible mistake in the code
would look like; they are not part of the specifications. Each property is known to
fail when one of them takes the place of the definition that follows it.

### Abstractions

* UIDs: `Status` looks up a deleted object by UID. A deletion that completed waited
  until the object was gone, so that UID never matches again and only upserts remain
  to be looked at (`StatusOk`).
* rig commands of one changeset do not overlap: the hook runs them one at a time, and
  a Job runs one container at a time.
* A foreign write happens between two rig commands (that is where the script has its
  own), never on an object being deleted.
* The hook image ships rig 7.0.2 while the vendored library is 5.5.2. The model
  follows the vendored source; `cassandra.yaml` contains a `ServiceMonitor` that this
  version does not know (`upsertResource`, changeset.go:161) and the model leaves out.
* `resources/pithos-initialize.yaml` names no `restartPolicy`. Whether an API server
  admits such a Job is not modelled: it runs here.
* UpdateHook and Install take from Workload that a status check of a workload that is up
  can pass. For a StatefulSet with fewer replicas than there are nodes that depends on
  which node is listed first (`MCFirstNodeEmpty.cfg`); `ready` stands for the case that it
  passes, and the steps `StatusGivesUp` and `PollGivesUp` for the other.
* No two pods of a StatefulSet share a node in Workload (podAntiAffinity in
  `cassandra.yaml`), and nodes are listed in one order.
* A count of nodes by a script that fails is taken for none: the pipe hides the failure
  of kubectl. The properties of Replication make an exception of those runs (`miscounted`).
* Keys that are drawn never repeat: they are numbered as they are drawn, and 0 is the
  empty string. This says nothing of edits of the Secret, which may write any number.
* Requests of a serving process share nothing and are told apart only by whether they
  were answered; two select cases that are both ready are taken in any order.
* nodetool is one view of the ring, that of the pod that is asked, and any row may
  change in it. A row whose ownership is "?" stands for a joining node; other rows
  that the expression of `processNode` would not match are left out.
* nodetool prints a load below a KiB as a number of bytes ("512 bytes"), which
  `ParseStrictBytes` refuses; "?" is read as 0 and parses. `KiB` is a constant, as large
  as an instance needs for loads on either side of it.
* A pod's status is told apart as far as the verdict reads it: waiting and terminated
  containers, whatever their reasons, ready ones, and those that run and are not ready.
* The liveness probe also fails while `healthz` is down. How often that restarts the
  server is a matter of delays; those restarts are `PodContainerCrashes`.

## Runs

| Run | Shows |
|---|---|
| `changeset` (MCChangeset) | `Restorable`: the first item about an object holds what the object was before the changeset, and an object no item is about is as it was. `RevertRestores`: when a reversal ends, everything is back, interrupted commands and reversals included. `FreezeMatchesCluster`: no commit over a half-made change. `ImplementsAtomic`: the refinement. |
| `update_hook` (MCUpdateHook) | With containers to spare the update gets through (`UpdateSucceeds`) and leaves the new release at full scale (`UpdatedMeansNew`); Pithos never runs on another release's configuration (`PithosOnItsConfig`). |
| `failed_update` (MCUpdateHook, MCFailedUpdate.cfg) | An update that is started once, stopped anywhere and rolled back leaves the old release (`RolledBackMeansOld`), `pithos-cfg` included; a rollback that finds a changeset ends (`RollbackSettles`). |
| `install` (MCInstall) | The installation gets through (`InstallCompletes`); what it reports is there (`InstalledMeansUsable`); no Deployment without tables (`DeploymentAfterTables`); one generation of keys everywhere unless a container generated keys under a live Deployment (`PodsShareKeys`); replicas that race for the bucket all serve (`PodsServe`). |
| `workload` (MCWorkload) | What an accepted status means for each kind (`OkMeansUp`: of a StatefulSet no more than a pod on the first node); an attempt during which all was well, and whose calls were answered, is accepted (`SoundAccepted`); the poll gives up only after its last attempt or when cancelled (`GivesUpLate`) and ends unless a call is never answered (`PollEnds`). |
| `cluster_status` (MCClusterStatus) | "Healthy" means that the pods were sound when they were listed and the whole ring when nodetool ran (`HealthyMeansSound`); a sound cluster is called unhealthy only for a load that is printed in bytes, and no request panics on it (`SoundMeansHealthy`). |
| `serve` (MCServe) | Status 0 means told to stop and no answer lost (`CleanExit`); no probe is answered before bucket and object are there (`AnswersPrepared`); a signal ends the process whenever it comes, unless the preparation of bucket and object hangs, which does not look at the context (`SignalEnds`); a listener that fails is seen (`ListenFailureSeen`). |
| `replication` (MCReplication) | The four counts agree while the cluster stays on one side of three nodes (`FactorsAgree`); the keyspace never asks for more copies than there are pods, unless nodes left, joined during the installation, or a count failed (`EnoughReplicas`). |
| `access_keys` (MCAccessKeys) | Clients of both kinds are admitted with their rights after a command that got through (`ClientsAdmitted`), and every configuration that is written has one master key and one other (`OneMaster`); the one exception to both is an update from a Secret that was edited to have one name for both kinds, where the entry of the tenant replaces that of the master. An update of keys that agree changes none (`UpdateKeepsKeys`). |
| `uninstall` (MCUninstall) | Success means that the Secrets are gone (`DoneMeansSecretsGone`); what is left was refused every time (`SurvivorsWereRefused`). |

Two runs show where the code does not do what its texts say:

| Run | Disagreement |
|---|---|
| `revert_on_dying` (MCChangeset) | changeset.go:287 "Revert rolls back all the operations": an update of an object under foreground deletion is accepted and lost. |
| `rollback_after_restart` (MCUpdateHook) | changeset.go:91 "a log that can revert a series of changes": a restarted update discards the log of the interrupted one (entrypoint.sh:9). |

Other disagreements have a configuration each and are not among the runs of
`PROJECT.json`; `tlc -config X.cfg M` shows the behaviour:

| Configuration, module | Disagreement |
|---|---|
| `MCRevertSkip`, MCChangeset | changeset.go:306 logs "skipping changeset item"; there is no `continue`, the item is reverted. The behaviour is the right one (`RevertRestores` fails for the skipping variant), the message is not. |
| `MCPartlyInstalled`, MCInstall | init.go:67 "Creating pithos deployment.": a failure is excused because another object "already exists". |
| `MCLoadInBytes`, MCClusterStatus | cmd/pithosctl/status.go:54 "Minimum threshold (in bytes) to compute load across the cluster": a node far below it makes the cluster unhealthy when nodetool prints its load in bytes, which does not parse. |
| `MCStatusOfNewPod`, MCClusterStatus | pkg/kubernetes/status.go:41 "CreationTimestamp is the timestamp representing the server time when the pod was created": it is StartTime, nil until kubelet takes the pod, and `pithosctl status` panics on it. |
| `MCJoiningNode`, MCClusterStatus | pkg/cassandra/cassandra.go:80 "State=Normal/Leaving/Joining/Moving": the row of a joining node does not match the expression and the request panics. |
| `MCServeKeys`, MCServe | pkg/pithos/healthz.go:51 "access-key is required": nothing calls the function that checks it. |
| `MCFirstNodeOnly`, MCWorkload | rigging/utils.go:36 "Returns nil if successful": `checkRunningAndReady` returns at the first node, one running pod of three passes. |
| `MCFirstNodeEmpty`, MCWorkload | the same line: a StatefulSet that is up is refused when it has no pod on the first node. |
| `MCStatusOfOldPods`, MCWorkload | the same line: the status of a Deployment is compared without ObservedGeneration (deployment.go:157), and may be that of the pods before the update. |
| `MCStaleKeyspace`, MCReplication | config.go:40 "ReplicationFactor defines replication factor for cassandra keyspace": the keyspace keeps the factor it was created with. |
| `MCOneName`, MCAccessKeys | pkg/cluster/config.go:81 "Master parameter for key will allow access to all buckets": an update from a Secret whose two names are equal, or both empty, passes the checks of update.go:62-69 and leaves no key with that right (`MasterStays` fails); the exception in `OneMaster` and `ClientsAdmitted`. |
| `MCNoNodes`, MCReplication | config.go:70 "replication factor must be greater than 0; nodes label selector is misconfigured": `determineReplicationFactor` never returns less than 1. |

### Bounds

* `changeset`: one object per class, two versions (symmetric), two items, two
  aborted commands, one foreign write. Two items on the same object are the least
  that lets a later item hide an earlier one, two aborts allow an interrupted change
  followed by an interrupted reversal. The proofs have no bounds.
* `update_hook`: one object per role in the script, one aborted rig command, one
  killed container, six containers (Kubernetes' default backoffLimit is six restarts;
  no run needs more). `failed_update`: one container for the update, so that it fails
  half-way, and four for the rollback with two aborts and a kill in total.
  `MaxItems` (9: eight changes and one spare) and `MaxForeign` (8) are never reached.
* `install`: three containers, two faults, two objects per file (one may fail while
  the other exists), two replicas, one crash of a pod's container.
* `workload`: any call may fail or never be answered; three nodes, so that one, some or all have a pod; three attempts, the
  least with one that is neither first nor last; one mishap, at any time.
* `cluster_status`: three pods and addresses, two containers, two changes; a change
  before each of the two reads is the least that makes them disagree, and one change
  may replace a pod by any other. A cluster whose nodes differ in load does not change
  otherwise (`StatusInit`). Loads are 1 to 5 with a KiB and a threshold of 2: 1 is printed
  in bytes, 2 does not count, 4 and 5 are exactly a fifth apart, 3 and 4 more. Addresses
  are symmetric.
* `serve`: two requests, one answered while the other hangs, and two signals, the second
  of which finds the channel full or nobody listening.
* `replication`: up to five nodes, two changes of their number (down and up again
  across three), two faults, three hooks (an installation and two updates).
* `access_keys`: four commands and two edits; a half-finished init, another, an update
  and one more. An edit writes any number up to the next, 0 included. `uninstall`: any set of present objects, two objects per line at most,
  three containers, two faults.

Deadlock is not checked for the hooks, the installation, `replication`, `access_keys` and
`uninstall`: a Job ends, and bounded hooks are used up. The other runs check it; where a
process has ended, `Serve` and `Workload` say so with a step that changes nothing.

### Fairness

Weak fairness of the running script and rig process, of the API server's
garbage collection, of the tables Job, and of kubelet starting containers:
processes that run unless they are killed. Kills, aborted commands, crashes, slow
workloads (a status check that gives up) and the operator's rollback have none. The
number of such faults is bounded, because a Job that fails more often than its
backoffLimit is failed for good.

The hooks and the installation thus take it that a call of the API server returns,
with an answer or an error: a call that hung for ever would hang the Job.
`UpdateSucceeds`, `RollbackSettles`, `InstallCompletes` and `PodsServe` say nothing of
that case.

In Serve each goroutine that can run does, but there is no fairness for `Prepare`: the
minio client has time-outs for dialling and TLS only, the client of the API server has
none, and the context is not looked at while bucket and object are prepared. Requests
may hang for ever, signals need not come. In Workload only the pause is fair: calls need
not be answered, and pods and controllers owe the poll nothing.

## Proofs

Everything proved holds for every value of the constants that satisfies the ASSUMEs
of the modules, which say no more than that bounds are numbers, sets are finite where
they are counted, and distinguished values are distinct. UpdateHook also assumes that
its six objects are six, and of the kinds they have (`ObjectAssumption`): the order of the
script is right because a ConfigMap goes at once and a Deployment does not.

| Theorem | States |
|---|---|
| ChangesetProofs: `TypeCorrect`, `AlwaysRestorable`, `RevertCorrect`, `FreezeCorrect` | `[]TypeOK`, `[]Restorable`, `RevertRestores`, `FreezeMatchesCluster` of Changeset |
| ChangesetProofs: `Implements` | Changeset implements AtomicChangeset |
| HookProofs: `HookTypeCorrect`, `HookRestorable`, `HookRevertCorrect`, `HookFreezeCorrect` | `[]HookTypeOK`, and the theorems of Changeset under the scripts |
| HookProofs: `PithosAlwaysOnItsConfig`, `UpdateCorrect`, `RollbackCorrect` | `[]PithosOnItsConfig`, `UpdatedMeansNew`, `[]RolledBackMeansOld`: what the scripts do to the objects |
| PithosctlProofs: `InstallTypeCorrect`, `InstalledIsUsable`, `DeploymentIsAfterTables`, `PodsAlwaysShareKeys` | all invariants of the run `install` |
| PithosctlProofs: `ServeTypeCorrect`, `ExitIsClean`, `AnswersAlwaysPrepared` | all invariants of the run `serve` |
| WorkloadProofs: `WorkloadTypeCorrect`, `OkAlwaysMeansUp`, `SoundAlwaysAccepted`, `AlwaysGivesUpLate` | all safety properties of the run `workload` |
| AccessKeysProofs: `AccessTypeCorrect`, `AlwaysOneMaster`, `ClientsAlwaysAdmitted`, `UpdateAlwaysKeepsKeys` | all properties of the run `access_keys` |
| ClusterStatusProofs: `StatusTypeCorrect`, `HealthyIsSound`, `SoundIsHealthy` | all invariants of the run `cluster_status`: the verdict is that of `Sound`, as far as the loads parse |
| ReplicationProofs: `ReplicationTypeCorrect`, `FactorsAlwaysAgree`, `AlwaysEnoughReplicas` | all invariants of the run `replication` |
| UninstallProofs: `UninstallTypeCorrect`, `DoneAlwaysMeansGone`, `SurvivorsAlwaysRefused` | all invariants of the run `uninstall` |

**Changeset.** `Restorable` is not inductive alone. `IInv` adds `TaskInv` (the process's
memory agrees with the item it works on), `LogInv` (no items without a changeset),
`DyingInv` (only objects that exist and are of a kind deleted in the foreground are dying)
and `ReversalInv` (the objects whose items a running reversal has all dealt with are
back). One lemma per action shows that it preserves `IInv`. `ReversalInv` is needed for
`RevertCorrect`: at `CloseReverted` no item is left, so every object is settled.
`FreezeCorrect` needs two more parts: the command at work is about the last item and has
done what it says when it marks it (`OpInv`), and of an object that commands wrote last, a
completed last item says what it holds, with no removal pending (`CompletedInv`): a
pending removal would undo it later.

**Refinement.** In states of `IInv` the saved contents are `base` on the logged objects,
because the first item about an object holds it. So an action that adds an item about an
object that has one leaves `saved` alone, and one that adds a first item saves what was
seen. Each action of Changeset then is one of AtomicChangeset or leaves its variables
alone, by one lemma each.

**Hooks.** Every step of UpdateHook is a step of Changeset or leaves its variables alone:
the script chooses which commands run, never what they do. Whatever is proved of `Spec`
thus holds under restarts, `pithosctl update` and `kubectl scale`. `HookInd` adds to the
type invariant that each container of the update counts as an update and that a command
that is waited for is a line of the script.

The properties of the objects follow from `DeepInd`, whose parts say where the script and
rig are in each other (`ShellInv`, `WorkInv`, `DoneInv`), what the objects hold when the
update has come to a line (`ObjectsInv`), which lines the items of the log are of
(`LinesInv`), and in which order they are (`ItemsInv`). `UpdateCorrect` is `ObjectsInv` at the
end of the script. For Pithos and its configuration three facts matter:

* they belonged together when the changeset was opened (`BaseInv`), which must hold again
  whenever a later container discards the log half-way;
* while Pithos runs anything but what it ran then, its upsert is logged and not undone
  yet (`PithosInv`); the upsert follows the only item about the configuration, so that the
  reversal takes Pithos away before it touches the configuration;
* the deletion of Pithos is the first item, so that when the reversal puts Pithos back,
  `ReversalInv` of Changeset says that the configuration is back already.

`RollbackCorrect` needs that the first container finds no changeset to discard, so that
the saved contents are those before the update (`FirstInv`): whatever `pithosctl` and
`kubectl` write outside the log by then has an item. `Settled` of Changeset does the rest
(`RevertedInv`). Under another container `FirstInv` fails at its first line, which is what
the run `rollback_after_restart` shows.

**Install.** `InstallInd` says what is there at each line of the container (`LineInv`),
that a container generates keys at most once (`GeneratedInv`), that tables presuppose all
of Cassandra (`TablesInv`), and that pods exist only under a Deployment and carry the keys
of the Secret until keys are generated under it (`PodInv`, which also speaks of the mounted
ConfigMap, the source of a server's next keys). One lemma covers whatever part of a file
`kubectl create` makes, excused or not (`FileStep`).

**Workload.** `WorkloadInd` relates what an attempt has read to what is there now: without
a mishap the pods that matter do not get worse (`Better`), so that what an attempt saw on
the first node still holds (`SeenInv`) and the counts a controller has written are backed
by pods (`StatusInv`); while all is well from the start of an attempt, `Sound` holds at
each of its steps (`SteadyInv`), which a failed call ends. `OkInv` says what an accepted attempt found. `PollInv` counts
attempts: a poll that sleeps has some left, one that failed has none or was cancelled.

**AccessKeys.** `pithosctl update` reads back from the Secret the keys that the template of
the Secret wrote (`RoundTrip`). `AccessInd` says which command is at which line (`LineInv`),
that init holds a key of each kind, and that update and the ConfigMap hold what four
fields give (`KeysInv`), and that what was last read or written agrees with the Secret
until somebody edits it (`AgreeInv`). Nothing is assumed of the names in the Secret:
`KeystoreShape` says what comes of two names (`Apart`) and of one (`Alike`).

**ClusterStatus.** `VerdictIsSound` is the core: for pods without common addresses, the
code's comparison of what was listed with the ring is `Sound` and that every load
parses. Pods map to rows
one to one, so as many rows as pods leave no row without a pod (`EachRowItsPod`); a
finite set of loads has extremes (`Extremes`, over the well-founded order of finite
subsets), and comparing them is comparing all pairs. The invariant `StatusInd` adds that
the request still holds what it read, `Listing(podsThen)` and `ringThen`, however
pods and ring have changed since.

**Replication.** `ReplicationInd` says for each line of a hook what is there already
(`PhaseInv`), how the copies of the keyspace and the replicas relate to what the cluster
calls for now, as long as nodes did not leave, or join an installation (`CountInv`), and
that every number is what the cluster calls for, as long as it stayed on one side of
three nodes (`SameInv`).

**Serve.** `ServeInd` relates the goroutines: what `done` and the channels say about where
main is (`StopInv`), that requests are only cut when the process ends with a status
other than 0 (`CutInv`), and that nothing listens before preparation ended
(`PreparedInv`).

**Uninstall.** `UninstallInd` counts refusals line by line (`TriedInv`): what is still
there was refused once in each earlier container that was not killed, and in this one
too if its line has passed. `KillInv` (a container that runs was not killed) is what
lets the count carry over when a container is killed.

Model-checked only: the liveness properties `UpdateSucceeds`, `RollbackSettles`,
`InstallCompletes`, `PodsServe`, `SignalEnds`, `ListenFailureSeen` and `PollEnds` (liveness
under fairness and ENABLED are beyond the prover), and the disagreements above, which are
counterexamples. Every invariant and action property of a passing run is a theorem.

## Not modelled

Parsing and formatting (YAML, nodetool output, tables on the terminal), TLS keys,
how random keys are drawn, the preUpdate hook (it removes the alert `cassandra-load`) and
the postUpdate hook (one `pithosctl status --short`), nginx, log and alert configuration, build scripts and
end-to-end tests. Of the Cassandra images, the seed provider and the readiness probe:
what follows from their answers is decided by Cassandra's gossip, which is not in
this repository. Replication controllers, Secrets and the RBAC kinds of rig behave as
ConfigMaps do and are not told apart.

## Plan

Done: Changeset, its abstract specification and refinement; UpdateHook; Install; Workload;
ClusterStatus; Serve; Replication; AccessKeys; Uninstall; the theorems above.

Left, in order:

1. UpdateHook with Workload in the place of the flag `ready`.
2. Seeds of Cassandra: `KubernetesSeedProvider` with an empty list of seeds
   ("This should not happen", KubernetesSeedProvider.java:115), and the first pod coming
   back on an empty disk, as far as its own code decides what happens.
