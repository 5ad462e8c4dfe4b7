----------------------------- MODULE UpdateHook -----------------------------
(***************************************************************************)
(* The update and rollback hooks: images/hook/entrypoint.sh run by the     *)
(* Jobs of resources/app.yaml on top of a rig changeset.                   *)
(*                                                                         *)
(* The update script is a sequence of commands under `set -e`: the first   *)
(* one that fails ends the container, and the Job starts the whole script  *)
(* again (restartPolicy OnFailure).  An operator rolls back with           *)
(* `rig revert` when the update failed, or when a later phase of the       *)
(* upgrade did.  Objects the script treats alike are represented by one.   *)
(***************************************************************************)
EXTENDS Changeset

CONSTANTS
    pithos,        \* Deployment pithos
    legacy,        \* DaemonSet cassandra, of old releases
    cassandraCfg,  \* ConfigMap cassandra
    pithosCfg,     \* ConfigMap pithos-cfg: written by pithosctl update
    alterJob,      \* Job cassandra-alter-compaction
    cassandra,     \* StatefulSet cassandra
    old, new,      \* what an object holds in the old and in the new release
    scaled,        \* the new StatefulSet after kubectl scale
    UpdateTries,   \* backoffLimit: containers the update Job starts at most
    RollbackTries, \* the same for the rollback Job
    MaxKills       \* bound: containers killed between two commands

ASSUME HookAssumption ==
    /\ {pithos, legacy, cassandraCfg, pithosCfg, alterJob, cassandra} \subseteq Resource
    /\ {old, new, scaled} \subseteq Version
    /\ {UpdateTries, RollbackTries} \subseteq Nat \ {0} /\ MaxKills \in Nat

\* Six objects: a Deployment, two ConfigMaps, and kinds that rig recreates.
ASSUME ObjectAssumption ==
    /\ pithos \notin {legacy, cassandraCfg, pithosCfg, alterJob, cassandra}
    /\ legacy \notin {cassandraCfg, pithosCfg, alterJob, cassandra}
    /\ cassandraCfg \notin {pithosCfg, alterJob, cassandra}
    /\ pithosCfg \notin {alterJob, cassandra} /\ alterJob # cassandra
    /\ pithos \in Scalable /\ {legacy, alterJob, cassandra} \subseteq Recreated
    /\ {cassandraCfg, pithosCfg} \cap (Recreated \cup Scalable) = {}

VARIABLES
    hook,      \* which Job runs, or how it ended
    line,      \* the command of Script that is next, or running
    shell,     \* "ready" for the next command, or "waiting" for a rig command
    tries,     \* containers the running Job has started
    ready,     \* workloads whose status check passes
    wide,      \* are there 3 nodes labelled pithos-role=node, or more
    miscounted, \* history: did the last count of them fail
    original,  \* history: the cluster before the update
    updates,   \* history: containers the update Job has started
    kills

hookOnly == <<hook, line, shell, tries, wide, miscounted, original, updates, kills>>
hookVars == <<vars, hookOnly, ready>>

Workloads == {pithos, alterJob, cassandra}

Cmd(name, r, v) == [name |-> name, res |-> r, to |-> v]
DeleteCmd(r)    == Cmd("delete", r, Nothing)
UpsertCmd(r)    == Cmd("upsert", r, new)
Plain(name)     == Cmd(name, Nothing, Nothing)

Prologue == <<Plain("discard")>>
Deletes  == <<DeleteCmd(pithos), DeleteCmd(legacy), DeleteCmd(cassandraCfg),
              DeleteCmd(pithosCfg), DeleteCmd(alterJob)>>
Config   == <<Plain("pithosctl")>>
Cassandra == <<UpsertCmd(cassandra), UpsertCmd(cassandraCfg)>>
Scale    == <<Plain("scale")>>
Check    == <<Plain("status")>>
Closing  == <<UpsertCmd(alterJob)>> \o Check \o <<Plain("freeze")>>

\* Faulty: the configuration goes before the pods that use it.
ConfigFirst ==
    Prologue \o <<DeleteCmd(pithosCfg), DeleteCmd(pithos)>>
      \o Config \o Cassandra \o Scale \o <<UpsertCmd(pithos)>> \o Check \o Closing

\* Faulty: pithos-cfg is rewritten before the log knows of the old one.
ConfigUnlogged ==
    Prologue \o Config \o Deletes \o Config \o Cassandra \o Scale
      \o <<UpsertCmd(pithos)>> \o Check \o Closing

\* Faulty: the changeset of an earlier container is kept.
KeepChangeset ==
    Deletes \o Config \o Cassandra \o Scale \o <<UpsertCmd(pithos)>> \o Check \o Closing

\* Faulty: the StatefulSet is scaled before it is replaced.
ScaleFirst ==
    Prologue \o Deletes \o Config \o Scale \o Cassandra
      \o <<UpsertCmd(pithos)>> \o Check \o Closing

Script ==
    Prologue \o Deletes \o Config \o Cassandra \o Scale
      \o <<UpsertCmd(pithos)>> \o Check \o Closing

Current == Script[line]

Tries == IF hook \in {"update", "updated", "failed"} THEN UpdateTries ELSE RollbackTries

HookTypeOK ==
    /\ hook \in {"update", "updated", "failed", "rollback", "rolledback",
                 "rollback-failed"}
    /\ line \in 1 .. (Len(Script) + 1)
    /\ shell \in {"ready", "waiting"}
    /\ tries \in 1 .. Tries
    /\ ready \subseteq Workloads
    /\ wide \in BOOLEAN /\ miscounted \in BOOLEAN
    /\ original \in [Resource -> Version \cup {Nothing}]
    /\ updates \in 1 .. UpdateTries
    /\ kills \in 0 .. MaxKills

----------------------------------------------------------------------------
\* A workload must come up again after its object changed.
ReadyAfter == ready' = {r \in ready : content'[r] = content[r] /\ r \notin dying'}

Running == hook \in {"update", "rollback"}

NextLine == line' = line + 1 /\ shell' = "ready" /\ UNCHANGED <<hook, tries, updates>>

\* Faulty: one container too many.
OneTryMore == tries <= Tries

MayRestart == tries < Tries

\* The container ends with an error: the Job starts another one, or gives up.
ExitContainer ==
    /\ shell' = "ready" /\ line' = 1
    /\ IF MayRestart
       THEN /\ tries' = tries + 1 /\ hook' = hook
            /\ updates' = IF hook = "update" THEN updates + 1 ELSE updates
       ELSE /\ hook' = IF hook = "update" THEN "failed" ELSE "rollback-failed"
            /\ UNCHANGED <<tries, updates>>

(***************************************************************************)
(* The commands of the update script.                                      *)
(***************************************************************************)
AtCommand(name) ==
    /\ hook = "update" /\ shell = "ready"
    /\ line \in DOMAIN Script /\ Current.name = name

\* The script starts with an open changeset and freezes it after a status check
\* that passed: rig has no reason to refuse a change or the freeze, and would be
\* stuck here (see UpdateSucceeds) if it had.
RigCommand ==
    /\ \/ AtCommand("delete") /\ (BeginDelete(Current.res) \/ DeleteNotFound(Current.res))
       \/ AtCommand("upsert") /\ BeginUpsert(Current.res, Current.to)
       \/ AtCommand("discard") /\ Discard
       \/ AtCommand("freeze") /\ Freeze
    /\ shell' = "waiting"
    /\ ReadyAfter
    /\ UNCHANGED <<hook, line, tries, wide, miscounted, original, updates, kills>>

\* rig cs delete --force: nothing to delete.
DiscardNothing ==
    /\ AtCommand("discard") /\ status = "absent"
    /\ NextLine
    /\ UNCHANGED <<vars, ready, wide, miscounted, original, kills>>

\* pithosctl update: pithos-cfg is rendered from the secret, outside the log.
PithosctlUpdate ==
    /\ AtCommand("pithosctl")
    /\ IF content[pithosCfg] = new THEN UNCHANGED vars ELSE ForeignWrite(pithosCfg, new)
    /\ NextLine /\ ReadyAfter
    /\ UNCHANGED <<wide, miscounted, original, kills>>

\* `[ $(kubectl get nodes ... | wc -l) -ge 3 ]`: nobody looks at the status of
\* kubectl, so that a count that fails is a count of no node.
KubectlScale ==
    /\ AtCommand("scale")
    /\ \/ miscounted' = FALSE /\ UNCHANGED kills
       \/ miscounted' = TRUE /\ wide /\ kills < MaxKills /\ kills' = kills + 1
    /\ IF wide /\ ~miscounted' /\ content[cassandra] # scaled
       THEN ForeignWrite(cassandra, scaled)
       ELSE UNCHANGED vars
    /\ NextLine /\ ReadyAfter
    /\ UNCHANGED <<wide, original>>

ItemsDone == \A i \in DOMAIN items : items[i].status # "created"

\* A completed deletion has waited for the object of that UID to go, so only
\* upserts are left to look at.
StatusOk ==
    /\ ItemsDone
    /\ \A i \in DOMAIN items : LET r == items[i].res IN
           items[i].to # Nothing =>
               content[r] # Nothing /\ (r \in Workloads => r \in ready)

RigStatus ==
    /\ AtCommand("status") /\ StatusOk
    /\ NextLine
    /\ UNCHANGED <<vars, ready, wide, miscounted, original, kills>>

\* All attempts are used up: no attempt can succeed over an item that did not
\* complete; slow workloads count as a kill.
StatusGivesUp ==
    /\ AtCommand("status") /\ ~StatusOk
    /\ IF ItemsDone THEN kills < MaxKills /\ kills' = kills + 1 ELSE UNCHANGED kills
    /\ ExitContainer
    /\ UNCHANGED <<vars, ready, wide, miscounted, original>>

Tolerated == result = "ok" \/ (result = "notfound" /\ Current.name = "delete")

\* The rig command of the update script has ended.
CommandEnds ==
    /\ hook = "update" /\ shell = "waiting" /\ step = "idle"
    /\ IF Tolerated THEN NextLine ELSE ExitContainer
    /\ UNCHANGED <<vars, ready, wide, miscounted, original, kills>>

UpdateEnds ==
    /\ hook = "update" /\ line = Len(Script) + 1
    /\ hook' = "updated"
    /\ UNCHANGED <<vars, ready, line, shell, tries, wide, miscounted, original, updates, kills>>

(***************************************************************************)
(* The rollback script.                                                    *)
(***************************************************************************)
OperatorRollsBack ==
    /\ hook \in {"failed", "updated"}
    /\ hook' = "rollback" /\ tries' = 1 /\ line' = 1 /\ shell' = "ready"
    /\ UNCHANGED <<vars, ready, wide, miscounted, original, updates, kills>>

RigRevert ==
    /\ hook = "rollback" /\ shell = "ready"
    /\ BeginRevert \/ RefuseRevert
    /\ shell' = "waiting"
    /\ ReadyAfter
    /\ UNCHANGED <<hook, line, tries, wide, miscounted, original, updates, kills>>

RevertEnds ==
    /\ hook = "rollback" /\ shell = "waiting" /\ step = "idle"
    /\ IF result = "ok"
       THEN hook' = "rolledback" /\ shell' = "ready" /\ UNCHANGED <<line, tries, updates>>
       ELSE ExitContainer
    /\ UNCHANGED <<vars, ready, wide, miscounted, original, kills>>

----------------------------------------------------------------------------
RigWorks == shell = "waiting" /\ Continue /\ ReadyAfter /\ UNCHANGED hookOnly

Finalises ==
    /\ \E r \in Resource : Finalise(r)
    /\ ReadyAfter /\ UNCHANGED hookOnly

RigStops == Abort /\ ReadyAfter /\ UNCHANGED hookOnly

ContainerKilled ==
    /\ Running /\ shell = "ready" /\ kills < MaxKills
    /\ kills' = kills + 1
    /\ ExitContainer
    /\ UNCHANGED <<vars, ready, wide, miscounted, original>>

\* Pods wait for the ConfigMaps they mount; Pithos and the Job need Cassandra.
CanComeUp(r) ==
    /\ content[r] \notin {Nothing, Drained} /\ r \notin dying
    /\ r = pithos => content[pithosCfg] # Nothing
    /\ IF r = cassandra THEN content[cassandraCfg] # Nothing ELSE cassandra \in ready

ComesUp ==
    /\ \E r \in Workloads \ ready : CanComeUp(r) /\ ready' = ready \cup {r}
    /\ UNCHANGED <<vars, hookOnly>>

HookInit ==
    /\ Init
    /\ content \in [Resource -> {old, Nothing}]
    /\ \A r \in Resource \ {legacy, alterJob} : content[r] = old
    /\ hook = "update" /\ line = 1 /\ shell = "ready"
    /\ tries = 1 /\ updates = 1 /\ kills = 0
    /\ ready = {r \in {pithos, cassandra} : content[r] = old}
    /\ wide \in BOOLEAN /\ miscounted = FALSE
    /\ original = content

Shell ==
    \/ RigCommand \/ DiscardNothing \/ PithosctlUpdate \/ KubectlScale
    \/ RigStatus \/ StatusGivesUp \/ CommandEnds \/ UpdateEnds
    \/ RigRevert \/ RevertEnds

HookNext ==
    \/ Shell \/ RigWorks \/ Finalises \/ ComesUp
    \/ RigStops \/ ContainerKilled \/ OperatorRollsBack

\* The shell and rig run on, the API server carries deletions out, and pods whose
\* requirements are met come up.  Nothing obliges an operator to roll back, and
\* nothing obliges a status check to give up while workloads may still come up.
HookFairness ==
    /\ WF_hookVars(Shell) /\ WF_hookVars(RigWorks)
    /\ WF_hookVars(Finalises) /\ WF_hookVars(ComesUp)

HookSpec == HookInit /\ [][HookNext]_hookVars /\ HookFairness

----------------------------------------------------------------------------
\* Pithos never runs on the configuration of another release, nor without one,
\* through restarts of the update and through the rollback (the order of the
\* deletes and upserts in entrypoint.sh:12-31 and of the reversal).
PithosOnItsConfig ==
    content[pithos] \in {old, new} /\ pithos \notin dying
      => content[pithosCfg] = content[pithos]

\* When the update Job succeeds, the whole new release is in place, scaled to
\* the nodes there are unless their count failed, however often the script was
\* started.
UpdatedMeansNew ==
    [][hook = "update" /\ hook' = "updated"
         => /\ status = "committed"
            /\ \A r \in {pithos, pithosCfg, cassandraCfg, alterJob} : content[r] = new
            /\ content[cassandra] = (IF wide /\ ~miscounted THEN scaled ELSE new)
            /\ content[legacy] = Nothing /\ dying = {}]_hookVars

\* A rollback brings the old release back if the update script was started once,
\* pithos-cfg included, which pithosctl wrote outside the log.
RolledBackMeansOld ==
    hook = "rolledback" /\ updates = 1
      => \A r \in Resource : author[r] = "lost" \/ content[r] = original[r]

\* "a collection changeset log that can revert a series of changes to the system"
\* (changeset.go:91): so does a rollback after an update started more than once.
RolledBackAlwaysMeansOld ==
    hook = "rolledback"
      => \A r \in Resource : author[r] = "lost" \/ content[r] = original[r]

\* With containers left to start, the update gets through.
UpdateSucceeds == <>(hook = "updated")

\* A rollback that finds a changeset gets to the end of its reversal.
RollbackSettles ==
    (hook = "rollback" /\ status \in {"in-progress", "committed"})
        ~> status = "reverted"

----------------------------------------------------------------------------
\* The inductive invariant behind HookTypeOK: what the shell waits for is a
\* command of the script, and the containers of the update are counted twice.
HookInd ==
    /\ HookTypeOK
    /\ hook = "update" => updates = tries
    /\ hook = "update" /\ shell = "waiting" => line \in DOMAIN Script
=============================================================================
