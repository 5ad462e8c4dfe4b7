----------------------------- MODULE HookProofs -----------------------------
(***************************************************************************)
(* The hooks use rig as module Changeset allows: what is proved of a       *)
(* changeset holds under entrypoint.sh, its restarts and its rollback.     *)
(* The second part is about the objects: Pithos and its configuration,     *)
(* what an update leaves, and what a rollback brings back.                 *)
(***************************************************************************)
EXTENDS UpdateHook, ChangesetProofs

(***************************************************************************)
(* The script.                                                             *)
(***************************************************************************)
Command ==
    [name: {"upsert"}, res: Resource, to: Version]
      \cup [name: {"delete"}, res: Resource, to: {Nothing}]
      \cup [name: {"discard", "pithosctl", "scale", "status", "freeze"},
            res: {Nothing}, to: {Nothing}]

LEMMA ScriptType == Script \in Seq(Command) /\ Len(Script) \in Nat
                    /\ DOMAIN Script = 1 .. Len(Script)
<1>1. \A r \in {pithos, legacy, cassandraCfg, pithosCfg, alterJob, cassandra} :
          DeleteCmd(r) \in Command /\ UpsertCmd(r) \in Command
  BY HookAssumption DEF DeleteCmd, UpsertCmd, Cmd, Command
<1>2. \A n \in {"discard", "pithosctl", "scale", "status", "freeze"} :
          Plain(n) \in Command
  BY DEF Plain, Cmd, Command
<1>3. Prologue \in Seq(Command)
  BY <1>2 DEF Prologue
<1>4. Deletes \in Seq(Command)
  BY <1>1 DEF Deletes
<1>5. Config \in Seq(Command) /\ Scale \in Seq(Command) /\ Check \in Seq(Command)
  BY <1>2 DEF Config, Scale, Check
<1>6. Cassandra \in Seq(Command) /\ <<UpsertCmd(pithos)>> \in Seq(Command)
      /\ <<UpsertCmd(alterJob)>> \in Seq(Command)
  BY <1>1 DEF Cassandra
<1>7. <<Plain("freeze")>> \in Seq(Command)
  BY <1>2
<1>8. Closing \in Seq(Command)
  BY <1>5, <1>6, <1>7, ConcatProperties DEF Closing
<1>9. Script \in Seq(Command)
  BY <1>3, <1>4, <1>5, <1>6, <1>8, ConcatProperties DEF Script
<1> QED
  BY <1>9, LenProperties

LEMMA ScriptIs ==
  /\ Len(Script) = 15 /\ DOMAIN Script = 1 .. 15
  /\ Script[1] = Plain("discard") /\ Script[2] = DeleteCmd(pithos)
  /\ Script[3] = DeleteCmd(legacy) /\ Script[4] = DeleteCmd(cassandraCfg)
  /\ Script[5] = DeleteCmd(pithosCfg) /\ Script[6] = DeleteCmd(alterJob)
  /\ Script[7] = Plain("pithosctl") /\ Script[8] = UpsertCmd(cassandra)
  /\ Script[9] = UpsertCmd(cassandraCfg) /\ Script[10] = Plain("scale")
  /\ Script[11] = UpsertCmd(pithos) /\ Script[12] = Plain("status")
  /\ Script[13] = UpsertCmd(alterJob) /\ Script[14] = Plain("status")
  /\ Script[15] = Plain("freeze")
<1> QED
  BY DEF Script, Prologue, Deletes, Config, Cassandra, Scale, Check, Closing

LEMMA CurrentType == line \in DOMAIN Script => Current \in Command
<1> QED
  BY ScriptType, ElementOfSeq DEF Current

(***************************************************************************)
(* Every step of the hooks is a step of the changeset, or none.            *)
(***************************************************************************)
LEMMA HookStep == [HookNext]_hookVars => [Next]_vars
<1> SUFFICES ASSUME [HookNext]_hookVars, ~UNCHANGED vars PROVE Next
  OBVIOUS
<1>1. HookNext
  BY DEF hookVars
<1>2. CASE RigCommand
  <2>1. CASE AtCommand("delete") /\ (BeginDelete(Current.res) \/ DeleteNotFound(Current.res))
    <3>1. Current.res \in Resource
      BY <2>1, CurrentType DEF AtCommand, Command
    <3> QED
      BY <2>1, <3>1 DEF Next, Start
  <2>2. CASE AtCommand("upsert") /\ BeginUpsert(Current.res, Current.to)
    <3>1. Current.res \in Resource /\ Current.to \in Version
      BY <2>2, CurrentType DEF AtCommand, Command
    <3> QED
      BY <2>2, <3>1 DEF Next, Start
  <2> QED
    BY <1>2, <2>1, <2>2 DEF RigCommand, Next, Start
<1>3. CASE PithosctlUpdate \/ KubectlScale
  <2>1. pithosCfg \in Resource /\ cassandra \in Resource
        /\ new \in Version /\ scaled \in Version
    BY HookAssumption
  <2> QED
    BY <1>3, <2>1 DEF PithosctlUpdate, KubectlScale, Next, Surroundings
<1>4. CASE RigRevert
  BY <1>4 DEF RigRevert, Next, Start
<1>5. CASE RigWorks \/ Finalises \/ RigStops
  BY <1>5 DEF RigWorks, Finalises, RigStops, Next, Surroundings
<1>6. ~(DiscardNothing \/ RigStatus \/ StatusGivesUp \/ CommandEnds \/ UpdateEnds
        \/ RevertEnds \/ ComesUp \/ ContainerKilled \/ OperatorRollsBack)
  BY DEF DiscardNothing, RigStatus, StatusGivesUp, CommandEnds, UpdateEnds,
     RevertEnds, ComesUp, ContainerKilled, OperatorRollsBack
<1> QED
  BY <1>1, <1>2, <1>3, <1>4, <1>5, <1>6 DEF HookNext, Shell

LEMMA HookIsChangeset == HookSpec => Spec
<1>1. HookInit => Init
  BY DEF HookInit
<1> QED
  BY <1>1, HookStep, PTL DEF HookSpec, Spec

\* Under the hooks the log can always bring the cluster back, and a reversal
\* that ends has done so: pithosctl and kubectl write outside the log, a killed
\* container leaves a half-made change, and the next one discards the log.
THEOREM HookRestorable == HookSpec => []Restorable
<1> QED
  BY HookIsChangeset, AlwaysRestorable, PTL

THEOREM HookRevertCorrect == HookSpec => RevertRestores
<1> QED
  BY HookIsChangeset, RevertCorrect, PTL

\* `rig freeze` at the end of the update commits no half-made change
\* (entrypoint.sh:42).
THEOREM HookFreezeCorrect == HookSpec => FreezeMatchesCluster
<1> QED
  BY HookIsChangeset, FreezeCorrect, PTL

(***************************************************************************)
(* The state of the hooks.                                                 *)
(***************************************************************************)
LEMMA HookInitInd == HookInit => HookInd
<1> SUFFICES ASSUME HookInit PROVE HookInd
  OBVIOUS
<1>1. 1 \in 1 .. Tries /\ 1 \in 1 .. UpdateTries
  BY HookAssumption DEF HookInit, Tries
<1>2. original \in [Resource -> Version \cup {Nothing}]
  BY DEF HookInit, Init
<1>3. ready \subseteq Workloads
  BY DEF HookInit, Workloads
<1>4. line \in 1 .. (Len(Script) + 1) /\ kills \in 0 .. MaxKills
  BY ScriptType, HookAssumption DEF HookInit
<1>5. wide \in BOOLEAN /\ miscounted \in BOOLEAN
  BY DEF HookInit
<1>6. hook = "update" /\ shell = "ready" /\ tries = 1 /\ updates = 1
  BY DEF HookInit
<1> QED
  BY <1>1, <1>2, <1>3, <1>4, <1>5, <1>6 DEF HookInd, HookTypeOK

\* A step that leaves the Job, its script and its counters alone.
LEMMA SameHook ==
  ASSUME HookInd, hookOnly' = hookOnly \/ (kills' \in 0 .. MaxKills /\
             UNCHANGED <<hook, line, shell, tries, wide, miscounted, original, updates>>),
         ready' \subseteq Workloads
  PROVE  HookInd'
<1> QED
  BY DEF hookOnly, HookInd, HookTypeOK, Tries

LEMMA ReadyAfterType == ASSUME HookInd, ReadyAfter PROVE ready' \subseteq Workloads
<1> QED
  BY DEF HookInd, HookTypeOK, ReadyAfter

LEMMA NextLineInd ==
  ASSUME HookInd, hook = "update", line \in DOMAIN Script, NextLine,
         kills' \in 0 .. MaxKills, miscounted' \in BOOLEAN,
         wide' = wide, original' = original, ready' \subseteq Workloads
  PROVE  HookInd'
<1>1. line' \in 1 .. (Len(Script) + 1)
  BY ScriptType DEF NextLine
<1> QED
  BY <1>1 DEF NextLine, HookInd, HookTypeOK, Tries

LEMMA ExitContainerInd ==
  ASSUME HookInd, hook \in {"update", "rollback"}, ExitContainer,
         kills' \in 0 .. MaxKills, ready' = ready,
         UNCHANGED <<wide, miscounted, original>>
  PROVE  HookInd'
<1>1. Tries \in Nat /\ UpdateTries \in Nat /\ tries \in Nat
  BY HookAssumption DEF Tries, HookInd, HookTypeOK
<1>2. Len(Script) \in Nat
  BY ScriptType
<1>3. CASE MayRestart
  BY <1>1, <1>2, <1>3 DEF ExitContainer, MayRestart, HookInd, HookTypeOK, Tries
<1>4. CASE ~MayRestart
  BY <1>1, <1>2, <1>4 DEF ExitContainer, HookInd, HookTypeOK, Tries
<1> QED
  BY <1>3, <1>4

LEMMA HookNextInd == HookInd /\ [HookNext]_hookVars => HookInd'
<1> SUFFICES ASSUME HookInd, [HookNext]_hookVars PROVE HookInd'
  OBVIOUS
<1>1. ready \subseteq Workloads /\ kills \in 0 .. MaxKills /\ MaxKills \in Nat
      /\ miscounted \in BOOLEAN
  BY HookAssumption DEF HookInd, HookTypeOK
<1>2. CASE UNCHANGED hookVars
  BY <1>1, <1>2, SameHook DEF hookVars
<1>3. CASE RigCommand \/ RigRevert
  <2>1. ready' \subseteq Workloads
    BY <1>3, ReadyAfterType DEF RigCommand, RigRevert
  <2> QED
    BY <1>3, <2>1 DEF RigCommand, RigRevert, AtCommand, HookInd, HookTypeOK, Tries
<1>4. CASE DiscardNothing \/ PithosctlUpdate \/ KubectlScale \/ RigStatus
  <2>1. ready' \subseteq Workloads
    BY <1>1, <1>4, ReadyAfterType
       DEF DiscardNothing, PithosctlUpdate, KubectlScale, RigStatus
  <2>2. kills' \in 0 .. MaxKills
    <3>1. kills' = kills \/ (kills < MaxKills /\ kills' = kills + 1)
      BY <1>4 DEF DiscardNothing, PithosctlUpdate, KubectlScale, RigStatus
    <3> QED
      BY <1>1, <3>1
  <2>3. miscounted' \in BOOLEAN
    BY <1>1, <1>4 DEF DiscardNothing, PithosctlUpdate, KubectlScale, RigStatus
  <2> QED
    BY <1>4, <2>1, <2>2, <2>3, NextLineInd
       DEF DiscardNothing, PithosctlUpdate, KubectlScale, RigStatus, AtCommand
<1>5. CASE StatusGivesUp \/ ContainerKilled
  <2>1. kills' \in 0 .. MaxKills
    BY <1>1, <1>5 DEF StatusGivesUp, ContainerKilled
  <2> QED
    BY <1>5, <2>1, ExitContainerInd
       DEF StatusGivesUp, ContainerKilled, AtCommand, Running
<1>6. CASE CommandEnds
  <2>1. line \in DOMAIN Script
    BY <1>6 DEF CommandEnds, HookInd
  <2> QED
    BY <1>1, <1>6, <2>1, NextLineInd, ExitContainerInd DEF CommandEnds
<1>7. CASE UpdateEnds
  BY <1>7 DEF UpdateEnds, HookInd, HookTypeOK, Tries
<1>8. CASE OperatorRollsBack
  BY <1>8, ScriptType, HookAssumption DEF OperatorRollsBack, HookInd, HookTypeOK, Tries
<1>9. CASE RevertEnds
  <2>1. CASE result = "ok"
    BY <1>9, <2>1 DEF RevertEnds, HookInd, HookTypeOK, Tries
  <2>2. CASE result # "ok"
    BY <1>1, <1>9, <2>2, ExitContainerInd DEF RevertEnds
  <2> QED
    BY <2>1, <2>2
<1>10. CASE RigWorks \/ Finalises \/ RigStops
  BY <1>10, ReadyAfterType, SameHook DEF RigWorks, Finalises, RigStops
<1>11. CASE ComesUp
  BY <1>1, <1>11, SameHook DEF ComesUp
<1> QED
  BY <1>2, <1>3, <1>4, <1>5, <1>6, <1>7, <1>8, <1>9, <1>10, <1>11 DEF HookNext, Shell

\* The Job never starts more containers than its backoffLimit allows, and the
\* script never runs past its last line.
THEOREM HookTypeCorrect == HookSpec => []HookTypeOK
<1>1. HookInd => HookTypeOK
  BY DEF HookInd
<1> QED
  BY <1>1, HookInitInd, HookNextInd, PTL DEF HookSpec

----------------------------------------------------------------------------
(***************************************************************************)
(* What the scripts do to the objects.  The commands of Script have these  *)
(* numbers:                                                                *)
(*    1 discard             6 delete alterJob        11 upsert pithos      *)
(*    2 delete pithos       7 pithosctl              12 status             *)
(*    3 delete legacy       8 upsert cassandra       13 upsert alterJob    *)
(*    4 delete cassandraCfg 9 upsert cassandraCfg    14 status             *)
(*    5 delete pithosCfg   10 scale                  15 freeze             *)
(***************************************************************************)
Objects == {pithos, legacy, cassandraCfg, pithosCfg, alterJob, cassandra}

Waiting == hook = "update" /\ shell = "waiting"

\* rig runs while the shell waits for it, on what the line says, or to revert.
ShellInv ==
    /\ shell = "ready" => step = "idle"
    /\ hook \notin {"update", "rollback"} => shell = "ready"
    /\ Waiting => Current.name \in {"discard", "delete", "upsert", "freeze"}
    /\ Waiting /\ step # "idle" =>
           /\ Current.name \in {"delete", "upsert"}
           /\ task.kind = Current.name /\ task.res = Current.res /\ task.goal = Current.to
    /\ hook = "rollback" /\ step # "idle" => task.kind = "revert"

\* What rig marks it has done.  Only Pithos, updated in place while it was being
\* removed, is lost, and only in the rollback.
WorkInv ==
    /\ step = "delete" => content[task.res] \in {Drained, Nothing}
    /\ step = "create" => content[task.res] = Nothing
    /\ step = "log" /\ task.goal = Nothing => content[task.res] = Nothing
    /\ step = "log" /\ task.goal # Nothing =>
           author[task.res] = "lost" \/ (content[task.res] = task.goal /\ task.res \notin dying)
    /\ \A r \in Resource : author[r] = "lost" =>
           r = pithos /\ hook \in {"rollback", "rolledback", "rollback-failed"}
    /\ dying \subseteq Objects

\* What a command that ended did.
DoneInv ==
    Waiting /\ step = "idle" =>
        /\ Current.name \in {"delete", "upsert"} /\ result = "ok" =>
               /\ content[Current.res] = Current.to /\ Current.res \notin dying
               /\ Logged(Current.res)
        /\ Current.name = "delete" /\ result = "notfound" => content[Current.res] = Nothing
        /\ Current.name = "freeze" /\ result = "ok" => status = "committed"

\* Object r is deleted in line d and upserted in line u.
Replaced(r, d, u) ==
    /\ line \in (d + 1) .. u =>
           \/ content[r] = Nothing
           \/ /\ line = u /\ shell = "waiting" /\ step \in {"log", "idle"}
              /\ content[r] = new /\ r \notin dying
    /\ line > u => content[r] = new /\ r \notin dying

\* What the objects hold when the update has come to a line.
ObjectsInv ==
    hook = "update" =>
        /\ Replaced(pithos, 2, 11) /\ Replaced(cassandraCfg, 4, 9)
        /\ Replaced(alterJob, 6, 13)
        /\ line > 3 => content[legacy] = Nothing
        /\ line \in 6 .. 7 => content[pithosCfg] = Nothing
        /\ line > 7 => content[pithosCfg] = new
        /\ line > 8 => cassandra \notin dying /\ Logged(cassandra)
        /\ line \in 9 .. 10 => content[cassandra] = new
        /\ line > 10 => content[cassandra] = (IF wide /\ ~miscounted THEN scaled ELSE new)
        /\ line = 16 => status = "committed"

\* An item is of a command that the container of the update has come to.
OfLine(i, k) ==
    /\ Script[k].name \in {"delete", "upsert"}
    /\ items[i].res = Script[k].res /\ items[i].to = Script[k].to

LinesInv ==
    hook = "update" /\ (line > 1 \/ shell = "waiting") =>
        \A i \in DOMAIN items : \E k \in 1 .. line :
            OfLine(i, k) /\ (k = line => shell = "waiting" /\ step # "record")

\* The deletion of Pithos comes first in the log and its upsert after all about its
\* configuration, of which there is one item at most.
Upserted(i) == items[i].res = pithos /\ items[i].to # Nothing

ItemsInv ==
    /\ \A i \in DOMAIN items :
           /\ items[i].res \in Objects
           /\ items[i].res = pithos /\ items[i].to = Nothing => i = 1
           /\ Upserted(i) => /\ items[i].from = Nothing
                             /\ \A j \in DOMAIN items : items[j].res = pithosCfg => j < i
    /\ \A i, j \in DOMAIN items :
           items[i].res = pithosCfg /\ items[j].res = pithosCfg => i = j
    /\ step = "record" /\ task.res = pithos /\ task.goal # Nothing => task.from = Nothing

Runs(c) == c \in {old, new}

\* Pithos and its configuration belonged together when the changeset was opened.
BaseInv ==
    /\ Runs(base[pithos]) => base[pithosCfg] = base[pithos]
    /\ ~Logged(pithosCfg) => content[pithosCfg] = base[pithosCfg]
    /\ pithos \in dying => content[pithos] = Drained \/ author[pithos] = "lost"

\* They do now, and when Pithos does not run what it ran then its upsert is logged and
\* not yet undone by the running reversal.
PithosInv ==
    Runs(content[pithos]) /\ pithos \notin dying =>
        /\ content[pithosCfg] = content[pithos]
        /\ content[pithos] # base[pithos] =>
               \E i \in DOMAIN items : Upserted(i) /\ (task.kind = "revert" => i <= task.at)

\* The first container of the update keeps the log from the start, so the changeset
\* began with the cluster as it was.
FirstInv ==
    /\ \A r \in Objects \ {legacy, alterJob} : original[r] = old
    /\ updates = 1 =>
           /\ base = original
           /\ \A r \in Resource : ~Logged(r) => content[r] = base[r] /\ r \notin dying
           /\ hook = "update" /\ line = 1 => status = "absent" /\ shell = "ready"

\* Only a rollback reverts, and then everything is back.
RevertedInv ==
    /\ status = "reverted" => hook \in {"rollback", "rolledback", "rollback-failed"}
    /\ status = "reverted" => \A r \in Resource : Settled(r)
    /\ hook = "rolledback" => status = "reverted"
    /\ hook = "rollback" /\ shell = "waiting" /\ step = "idle" /\ result = "ok"
           => status = "reverted"

ScriptInv ==
    /\ ShellInv /\ WorkInv /\ DoneInv /\ ObjectsInv /\ LinesInv
    /\ ItemsInv /\ BaseInv /\ PithosInv /\ FirstInv /\ RevertedInv

DeepInd == IInv /\ OpInv /\ CompletedInv /\ HookInd /\ ScriptInv

(***************************************************************************)
(* What these say together.                                                *)
(***************************************************************************)
LEMMA ObjectFacts ==
  /\ Objects \subseteq Resource
  /\ old # Nothing /\ new # Nothing /\ scaled # Nothing
  /\ old # Drained /\ new # Drained /\ Nothing # Drained
  /\ Objects \cap (Recreated \cup Scalable) = {pithos, legacy, alterJob, cassandra}
  /\ Objects \cap Recreated = {legacy, alterJob, cassandra}
  /\ Objects \cap Scalable = {pithos}
<1> QED
  BY HookAssumption, ObjectAssumption, ContentAssumption, KindAssumption DEF Objects

LEMMA Lines ==
  ASSUME NEW k \in DOMAIN Script
  PROVE  /\ k \in 1 .. 15
         /\ Script[k].name = "discard" <=> k = 1
         /\ Script[k].name = "delete" <=> k \in 2 .. 6
         /\ Script[k].name = "pithosctl" <=> k = 7
         /\ Script[k].name = "upsert" <=> k \in {8, 9, 11, 13}
         /\ Script[k].name = "scale" <=> k = 10
         /\ Script[k].name = "status" <=> k \in {12, 14}
         /\ Script[k].name = "freeze" <=> k = 15
         /\ k \in 2 .. 6 => Script[k].to = Nothing
         /\ k \in {8, 9, 11, 13} => Script[k].to = new
         /\ k \in (2 .. 6) \cup {8, 9, 11, 13} => Script[k].res \in Objects
         /\ Script[k].res = pithos <=> k \in {2, 11}
         /\ Script[k].res = legacy <=> k = 3
         /\ Script[k].res = cassandraCfg <=> k \in {4, 9}
         /\ Script[k].res = pithosCfg <=> k = 5
         /\ Script[k].res = alterJob <=> k \in {6, 13}
         /\ Script[k].res = cassandra <=> k = 8
<1>1. k \in {1, 2, 3, 4, 5, 6, 7, 8, 9, 10, 11, 12, 13, 14, 15}
  BY ScriptIs
<1>2. CASE k \in {1, 7, 10, 12, 14, 15}
  <2>1. Nothing \notin Objects
    BY ObjectFacts, ContentAssumption
  <2>2. Script[k].res = Nothing
        /\ Script[k].name = CASE k = 1 -> "discard" [] k = 7 -> "pithosctl"
                              [] k = 10 -> "scale" [] k \in {12, 14} -> "status"
                              [] k = 15 -> "freeze"
    BY <1>2, ScriptIs DEF Plain, Cmd
  <2> QED
    BY <1>1, <1>2, <2>1, <2>2 DEF Objects
<1>3. CASE k \in {2, 3, 4, 5, 6}
  <2>1. Script[k].name = "delete" /\ Script[k].to = Nothing
        /\ Script[k].res = CASE k = 2 -> pithos [] k = 3 -> legacy
                             [] k = 4 -> cassandraCfg [] k = 5 -> pithosCfg
                             [] k = 6 -> alterJob
    BY <1>3, ScriptIs DEF DeleteCmd, Cmd
  <2> QED
    BY <1>1, <1>3, <2>1, ObjectAssumption DEF Objects
<1>4. CASE k \in {8, 9, 11, 13}
  <2>1. Script[k].name = "upsert" /\ Script[k].to = new
        /\ Script[k].res = CASE k = 8 -> cassandra [] k = 9 -> cassandraCfg
                             [] k = 11 -> pithos [] k = 13 -> alterJob
    BY <1>4, ScriptIs DEF UpsertCmd, Cmd
  <2> QED
    BY <1>1, <1>4, <2>1, ObjectAssumption DEF Objects
<1> QED
  BY <1>1, <1>2, <1>3, <1>4

LEMMA Facts ==
  ASSUME DeepInd
  PROVE  /\ items \in Seq(Item) /\ DOMAIN items = 1 .. Len(items) /\ Len(items) \in Nat
         /\ content \in [Resource -> Held] /\ base \in [Resource -> Held]
         /\ author \in [Resource -> {"op", "revert", "other", "lost"}]
         /\ \A i \in DOMAIN items : items[i] \in Item /\ items[i].res \in Objects
         /\ dying \subseteq {pithos, legacy, alterJob, cassandra}
         /\ \A r \in dying : content[r] # Nothing
         /\ line \in 1 .. 16
         /\ status = "absent" => items = <<>>
<1>1. items \in Seq(Item) /\ DOMAIN items = 1 .. Len(items) /\ Len(items) \in Nat
  BY LenProperties DEF DeepInd, IInv, TypeOK
<1>2. \A i \in DOMAIN items : items[i] \in Item
  BY <1>1, LoggedItem
<1>3. dying \subseteq {pithos, legacy, alterJob, cassandra}
  BY ObjectFacts DEF DeepInd, IInv, DyingInv, ScriptInv, WorkInv
<1>4. line \in 1 .. 16
  BY ScriptIs DEF DeepInd, HookInd, HookTypeOK
<1> QED
  BY <1>1, <1>2, <1>3, <1>4
     DEF DeepInd, IInv, TypeOK, LogInv, DyingInv, ScriptInv, ItemsInv

\* While the update runs rig, rig does what the line says.
LEMMA Forwards ==
  ASSUME DeepInd, hook = "update", step # "idle"
  PROVE  /\ shell = "waiting" /\ line \in DOMAIN Script /\ line \in (2 .. 6) \cup {8, 9, 11, 13}
         /\ task.kind = Script[line].name /\ task.kind # "revert"
         /\ task.res = Script[line].res /\ task.goal = Script[line].to
         /\ task.res \in Objects
         /\ task.goal = IF line \in 2 .. 6 THEN Nothing ELSE new
<1>1. HookTypeOK /\ ShellInv
  BY DEF DeepInd, HookInd, ScriptInv
<1>2. shell = "waiting"
  BY <1>1 DEF HookTypeOK, ShellInv
<1>3. line \in DOMAIN Script
  BY <1>2 DEF DeepInd, HookInd
<1>4. /\ Script[line].name \in {"delete", "upsert"} /\ task.kind = Script[line].name
      /\ task.res = Script[line].res /\ task.goal = Script[line].to
  BY <1>1, <1>2 DEF ShellInv, Waiting, Current
<1> QED
  BY <1>2, <1>3, <1>4, Lines

\* Whoever runs rig.
LEMMA AtWork ==
  ASSUME DeepInd, step # "idle"
  PROVE  /\ shell = "waiting" /\ hook \in {"update", "rollback"}
         /\ Working => task.res \in Objects /\ task.at \in DOMAIN items
                       /\ task.res = items[task.at].res
         /\ task.kind = "revert" <=> hook = "rollback"
<1>1. shell = "waiting" /\ hook \in {"update", "rollback"}
  BY DEF DeepInd, HookInd, HookTypeOK, ScriptInv, ShellInv
<1>2. Working => task.at \in DOMAIN items /\ task.res = items[task.at].res
  BY DEF DeepInd, IInv, TaskInv
<1> QED
  BY <1>1, <1>2, Facts, Forwards DEF DeepInd, ScriptInv, ShellInv

(***************************************************************************)
(* The shell moves on, and rig does nothing.                               *)
(***************************************************************************)
\* Nothing that the invariant is about changes.
LEMMA SameScript ==
  ASSUME ScriptInv,
         UNCHANGED <<vars, hook, line, shell, updates, wide, miscounted, original>>
  PROVE  ScriptInv'
<1> USE DEF vars, cluster, log, rig
<1>1. (ShellInv /\ WorkInv /\ DoneInv)'
  BY DEF ScriptInv, ShellInv, WorkInv, DoneInv, Waiting, Current, Logged
<1>2. ObjectsInv'
  BY DEF ScriptInv, ObjectsInv, Replaced, Logged
<1>3. (LinesInv /\ ItemsInv)'
  BY DEF ScriptInv, LinesInv, OfLine, ItemsInv, Upserted
<1>4. (BaseInv /\ PithosInv)'
  BY DEF ScriptInv, BaseInv, PithosInv, Logged, Upserted
<1>5. (FirstInv /\ RevertedInv)'
  BY DEF ScriptInv, FirstInv, RevertedInv, Logged, Settled
<1> QED
  BY <1>1, <1>2, <1>3, <1>4, <1>5 DEF ScriptInv

\* Between two commands rig has nothing in hand, whatever the shell does.
LEMMA ShellMoves ==
  ASSUME DeepInd, UNCHANGED <<vars, original>>, step = "idle", shell' = "ready",
         hook \in {"update", "updated", "failed"} \/
             hook' \in {"rollback", "rolledback", "rollback-failed"},
         hook' = "update" => hook = "update"
  PROVE  (ShellInv /\ WorkInv /\ DoneInv /\ ItemsInv /\ BaseInv /\ PithosInv)'
<1> USE DEF vars, cluster, log, rig
<1>1. (ShellInv /\ DoneInv)'
  BY DEF ShellInv, DoneInv, Waiting
<1>2. WorkInv'
  BY DEF DeepInd, ScriptInv, WorkInv
<1>3. (ItemsInv /\ BaseInv /\ PithosInv)'
  BY DEF DeepInd, ScriptInv, ItemsInv, BaseInv, PithosInv, Logged, Upserted
<1> QED
  BY <1>1, <1>2, <1>3

LEMMA NextLineScript ==
  ASSUME DeepInd, hook = "update", line \in 1 .. 15, NextLine, step = "idle",
         UNCHANGED <<vars, original>>, line = 1 => items = <<>>, ObjectsInv'
  PROVE  ScriptInv'
<1> USE DEF NextLine
<1>1. (ShellInv /\ WorkInv /\ DoneInv /\ ItemsInv /\ BaseInv /\ PithosInv)'
  BY ShellMoves
<1> USE DEF vars, cluster, log, rig
<1>2. LinesInv'
  <2>1. ASSUME NEW i \in DOMAIN items
        PROVE  \E k \in 1 .. line : OfLine(i, k)
    <3>1. line > 1
      BY <2>1, EmptySeq
    <3> QED
      BY <2>1, <3>1 DEF DeepInd, ScriptInv, LinesInv
  <2> QED
    BY <2>1 DEF LinesInv, OfLine
<1>3. FirstInv'
  BY DEF DeepInd, ScriptInv, FirstInv, Logged
<1>4. RevertedInv'
  BY DEF DeepInd, ScriptInv, RevertedInv, Settled, Logged
<1> QED
  BY <1>1, <1>2, <1>3, <1>4 DEF ScriptInv

LEMMA ExitScript ==
  ASSUME DeepInd, HookInd', Running, ExitContainer, step = "idle",
         UNCHANGED <<vars, original>>
  PROVE  ScriptInv'
<1> USE DEF ExitContainer, Running
<1>1. hook' \in {"update", "failed", "rollback", "rollback-failed"}
      /\ (hook = "update" <=> hook' \in {"update", "failed"})
  OBVIOUS
<1>2. (ShellInv /\ WorkInv /\ DoneInv /\ ItemsInv /\ BaseInv /\ PithosInv)'
  BY <1>1, ShellMoves
<1> USE DEF vars, cluster, log, rig
<1>3. ObjectsInv' /\ LinesInv'
  BY DEF ObjectsInv, Replaced, LinesInv
<1>4. FirstInv'
  <2>1. updates' = 1 => updates = 1 /\ hook' # "update"
    BY HookAssumption DEF DeepInd, HookInd, HookTypeOK, MayRestart
  <2> QED
    BY <2>1 DEF DeepInd, ScriptInv, FirstInv, Logged
<1>5. RevertedInv'
  BY DEF DeepInd, ScriptInv, RevertedInv, Settled, Logged
<1> QED
  BY <1>2, <1>3, <1>4, <1>5 DEF ScriptInv

\* A command has ended as it should: the objects of its line are done.
LEMMA LineDone ==
  ASSUME DeepInd, hook = "update", line \in 1 .. 15, NextLine, UNCHANGED vars,
         UNCHANGED <<wide, miscounted>>, step = "idle",
         line \notin {7, 10},
         line \in (2 .. 6) \cup {8, 9, 11, 13, 15} => shell = "waiting" /\ Tolerated
  PROVE  ObjectsInv'
<1>1. line \in DOMAIN Script /\ Current = Script[line]
  BY ScriptIs DEF Current
<1>2. /\ line \in 2 .. 6 => content[Script[line].res] = Nothing
      /\ line \in {8, 9, 11, 13} => /\ content[Script[line].res] = new
                                    /\ Script[line].res \notin dying
                                    /\ Logged(Script[line].res)
      /\ line = 15 => status = "committed"
  BY <1>1, Lines DEF DeepInd, ScriptInv, DoneInv, Waiting, Tolerated
<1>3. ObjectsInv
  BY DEF DeepInd, ScriptInv
<1>4. \A r, d, u : d \in 1 .. 15 /\ u \in 1 .. 15 /\ d < u /\ Replaced(r, d, u)
          /\ (line = d => content[r] = Nothing)
          /\ (line = u => content[r] = new /\ r \notin dying)
          => Replaced(r, d, u)'
  BY DEF NextLine, Replaced, vars, cluster
<1>5. Replaced(pithos, 2, 11)' /\ Replaced(cassandraCfg, 4, 9)' /\ Replaced(alterJob, 6, 13)'
  <2>1. /\ line = 2 => content[pithos] = Nothing
        /\ line = 11 => content[pithos] = new /\ pithos \notin dying
    BY <1>1, <1>2, Lines
  <2>2. /\ line = 4 => content[cassandraCfg] = Nothing
        /\ line = 9 => content[cassandraCfg] = new /\ cassandraCfg \notin dying
    BY <1>1, <1>2, Lines
  <2>3. /\ line = 6 => content[alterJob] = Nothing
        /\ line = 13 => content[alterJob] = new /\ alterJob \notin dying
    BY <1>1, <1>2, Lines
  <2> QED
    BY <1>3, <1>4, <2>1, <2>2, <2>3 DEF ObjectsInv
<1>6. /\ line' > 3 => content'[legacy] = Nothing
      /\ line' \in 6 .. 7 => content'[pithosCfg] = Nothing
      /\ line' > 7 => content'[pithosCfg] = new
  <2>1. line = 3 => content[legacy] = Nothing
    BY <1>1, <1>2, Lines
  <2>2. line = 5 => content[pithosCfg] = Nothing
    BY <1>1, <1>2, Lines
  <2> QED
    BY <1>3, <2>1, <2>2 DEF NextLine, ObjectsInv, vars, cluster
<1>7. /\ line' > 8 => cassandra \notin dying' /\ Logged(cassandra)'
      /\ line' \in 9 .. 10 => content'[cassandra] = new
      /\ line' > 10 => content'[cassandra] = (IF wide' /\ ~miscounted' THEN scaled ELSE new)
      /\ line' = 16 => status' = "committed"
  <2>1. line = 8 => content[cassandra] = new /\ cassandra \notin dying /\ Logged(cassandra)
    BY <1>1, <1>2, Lines
  <2> QED
    BY <1>2, <1>3, <2>1 DEF NextLine, ObjectsInv, vars, cluster, log, Logged
<1> QED
  BY <1>5, <1>6, <1>7 DEF ObjectsInv

LEMMA CommandEndsScript == ASSUME DeepInd, HookInd', CommandEnds PROVE ScriptInv'
<1> USE DEF CommandEnds
<1>1. line \in DOMAIN Script
  BY DEF DeepInd, HookInd
<1>2. line \in 1 .. 15 /\ Script[line].name \in {"discard", "delete", "upsert", "freeze"}
  BY <1>1, ScriptIs DEF DeepInd, ScriptInv, ShellInv, Waiting, Current
<1>3. CASE Tolerated
  <2>1. line = 1 => items = <<>>
    <3>1. HAVE line = 1
    <3>2. \A i \in DOMAIN items : \E k \in 1 .. line : OfLine(i, k)
      BY DEF DeepInd, ScriptInv, LinesInv
    <3>3. DOMAIN items = {}
      <4>1. Script[1].name = "discard" /\ \A k \in 1 .. line : k = 1
        BY <3>1, ScriptIs DEF Plain, Cmd
      <4> QED
        BY <3>2, <4>1 DEF OfLine
    <3> QED
      BY <3>3, Facts, EmptySeq
  <2>2. ObjectsInv'
    BY <1>1, <1>2, <1>3, Lines, LineDone
  <2> QED
    BY <1>2, <1>3, <2>1, <2>2, NextLineScript
<1>4. CASE ~Tolerated
  BY <1>4, ExitScript DEF Running
<1> QED
  BY <1>3, <1>4

LEMMA ShellScript ==
  ASSUME DeepInd, HookInd',
         DiscardNothing \/ RigStatus \/ StatusGivesUp \/ CommandEnds \/ UpdateEnds
           \/ RevertEnds \/ OperatorRollsBack \/ ContainerKilled \/ ComesUp
  PROVE  ScriptInv'
<1>1. ASSUME shell = "ready" PROVE step = "idle"
  BY <1>1 DEF DeepInd, ScriptInv, ShellInv
<1>2. CASE DiscardNothing \/ RigStatus
  <2>1. /\ hook = "update" /\ line \in DOMAIN Script /\ step = "idle" /\ NextLine
        /\ UNCHANGED <<vars, original, wide, miscounted>>
        /\ Script[line].name \in {"discard", "status"}
    BY <1>1, <1>2 DEF DiscardNothing, RigStatus, AtCommand, Current
  <2>2. line \in {1, 12, 14} /\ (line = 1 => items = <<>>)
    BY <1>2, <2>1, Facts, Lines DEF DiscardNothing, RigStatus, AtCommand, Current
  <2>3. ObjectsInv'
    BY <2>1, <2>2, LineDone
  <2> QED
    BY <2>1, <2>2, <2>3, NextLineScript
<1>3. CASE StatusGivesUp \/ ContainerKilled
  BY <1>1, <1>3, ExitScript DEF StatusGivesUp, ContainerKilled, AtCommand, Running
<1>4. CASE CommandEnds
  BY <1>4, CommandEndsScript
<1>5. CASE UpdateEnds \/ OperatorRollsBack
  <2>1. /\ UNCHANGED <<vars, original, updates>> /\ hook \in {"update", "updated", "failed"}
        /\ hook' # "update" /\ shell' = "ready" /\ shell = "ready"
        /\ hook' \in {"updated", "rollback"}
    BY <1>5, ScriptIs
       DEF UpdateEnds, OperatorRollsBack, DeepInd, HookInd, HookTypeOK, ScriptInv, ShellInv
  <2>2. (ShellInv /\ WorkInv /\ DoneInv /\ ItemsInv /\ BaseInv /\ PithosInv)'
    BY <1>1, <2>1, ShellMoves
  <2>3. (ObjectsInv /\ LinesInv)'
    BY <2>1 DEF ObjectsInv, LinesInv
  <2>4. (FirstInv /\ RevertedInv)'
    BY <2>1 DEF DeepInd, ScriptInv, FirstInv, RevertedInv, Settled, Logged,
                vars, cluster, log, rig
  <2> QED
    BY <2>2, <2>3, <2>4 DEF ScriptInv
<1>6. CASE RevertEnds
  <2>1. CASE result = "ok"
    <3>1. (ShellInv /\ WorkInv /\ DoneInv /\ ItemsInv /\ BaseInv /\ PithosInv)'
      BY <1>6, <2>1, ShellMoves DEF RevertEnds
    <3>2. (ObjectsInv /\ LinesInv)'
      BY <1>6, <2>1 DEF RevertEnds, ObjectsInv, LinesInv
    <3>3. (FirstInv /\ RevertedInv)'
      BY <1>6, <2>1 DEF RevertEnds, DeepInd, ScriptInv, FirstInv, RevertedInv, Settled,
                        Logged, vars, cluster, log, rig
    <3> QED
      BY <3>1, <3>2, <3>3 DEF ScriptInv
  <2>2. CASE result # "ok"
    BY <1>6, <2>2, ExitScript DEF RevertEnds, Running
  <2> QED
    BY <2>1, <2>2
<1>7. CASE ComesUp
  BY <1>7, SameScript DEF ComesUp, hookOnly, DeepInd
<1> QED
  BY <1>2, <1>3, <1>4, <1>5, <1>6, <1>7

(***************************************************************************)
(* The shell starts rig.                                                   *)
(***************************************************************************)
\* rig starts to work, or ends at once, and neither the objects nor the log change.
LEMMA StartScript ==
  ASSUME DeepInd, hook = "update", shell = "ready", line \in DOMAIN Script, shell' = "waiting",
         UNCHANGED <<cluster, items, base, author, hook, line, updates,
                     wide, miscounted, original>>,
         Script[line].name \in {"delete", "upsert", "freeze"},
         \/ /\ step' = "record" /\ task'.kind = Script[line].name
            /\ task'.res = Script[line].res /\ task'.goal = Script[line].to
            /\ task'.from = content[Script[line].res]
            /\ Script[line].name # "freeze"
            /\ status' = "in-progress"
         \/ /\ step' = "idle" /\ task' = task /\ result' = "notfound"
            /\ Script[line].name = "delete" /\ content[Script[line].res] = Nothing
            /\ status' = "in-progress"
         \/ /\ step' = "idle" /\ task' = task /\ status' = "committed"
            /\ Script[line].name = "freeze"
  PROVE  ScriptInv'
<1> USE DEF cluster
<1>1. ScriptInv /\ step = "idle" /\ line > 1
  BY ScriptIs, Lines DEF DeepInd, ScriptInv, ShellInv
<1>2. ShellInv'
  BY DEF ShellInv, Waiting, Current
<1>3. WorkInv'
  BY <1>1 DEF ScriptInv, WorkInv
<1>4. DoneInv'
  BY DEF DoneInv, Waiting, Current
<1>5. ObjectsInv'
  BY <1>1, ScriptIs DEF ScriptInv, ObjectsInv, Replaced, Logged
<1>6. LinesInv'
  BY <1>1 DEF ScriptInv, LinesInv, OfLine
<1>7. ItemsInv'
  <2>1. step' = "record" /\ task'.res = pithos /\ task'.goal # Nothing => task'.from = Nothing
    <3> SUFFICES ASSUME step' = "record", task'.res = pithos, task'.goal # Nothing
                 PROVE  task'.from = Nothing
      OBVIOUS
    <3>1. line = 11
      BY Lines
    <3> QED
      BY <1>1, <3>1 DEF ScriptInv, ObjectsInv, Replaced
  <2> QED
    BY <1>1, <2>1 DEF ScriptInv, ItemsInv, Upserted
<1>8. BaseInv'
  BY <1>1 DEF ScriptInv, BaseInv, Logged
<1>9. PithosInv'
  <2>1. step' = "record" => task'.kind # "revert"
    OBVIOUS
  <2>2. step' # "record" => task'.kind # "revert"
    BY <1>1 DEF DeepInd, IInv, TaskInv, NoTask
  <2> QED
    BY <1>1, <2>1, <2>2 DEF ScriptInv, PithosInv, Upserted
<1>10. FirstInv'
  BY <1>1 DEF ScriptInv, FirstInv, Logged
<1>11. RevertedInv'
  BY DEF RevertedInv
<1> QED
  BY <1>2, <1>3, <1>4, <1>5, <1>6, <1>7, <1>8, <1>9, <1>10, <1>11 DEF ScriptInv

\* The log is dropped by the first command of a later container.
LEMMA DiscardScript ==
  ASSUME DeepInd, hook = "update", shell = "ready", line = 1, Discard, shell' = "waiting",
         UNCHANGED <<hook, line, updates, wide, miscounted, original>>
  PROVE  ScriptInv'
<1> USE DEF Discard, cluster
<1>1. ScriptInv /\ DOMAIN items' = {}
  BY EmptySeq DEF DeepInd
<1>2. Script[line].name = "discard"
  BY ScriptIs DEF Plain, Cmd
<1>3. \A r \in Resource : author'[r] = "other"
  OBVIOUS
<1>4. ShellInv' /\ DoneInv'
  BY <1>2 DEF ShellInv, DoneInv, Waiting, Current
<1>5. WorkInv'
  BY <1>1, <1>3 DEF ScriptInv, WorkInv
<1>6. ObjectsInv' /\ LinesInv' /\ ItemsInv'
  BY <1>1 DEF ObjectsInv, Replaced, LinesInv, ItemsInv
<1>7. author[pithos] # "lost"
  BY <1>1, ObjectFacts DEF ScriptInv, WorkInv, Objects
<1>8. BaseInv'
  <2>1. pithos \in dying => content[pithos] = Drained
    BY <1>1, <1>7 DEF ScriptInv, BaseInv
  <2>2. Runs(content[pithos]) => pithos \notin dying
    BY <2>1, ObjectFacts DEF Runs
  <2> QED
    BY <1>1, <2>1, <2>2 DEF ScriptInv, BaseInv, PithosInv
<1>9. PithosInv'
  BY <1>1 DEF ScriptInv, PithosInv
<1>10. FirstInv'
  BY <1>1 DEF ScriptInv, FirstInv
<1>11. RevertedInv'
  BY DEF RevertedInv
<1> QED
  BY <1>4, <1>5, <1>6, <1>8, <1>9, <1>10, <1>11 DEF ScriptInv

LEMMA RigCommandScript == ASSUME DeepInd, RigCommand PROVE ScriptInv'
<1>1. /\ hook = "update" /\ shell = "ready" /\ line \in DOMAIN Script /\ shell' = "waiting"
      /\ Current = Script[line]
      /\ UNCHANGED <<hook, line, updates, wide, miscounted, original>>
  BY DEF RigCommand, AtCommand, Current
<1>2. CASE AtCommand("delete") /\ BeginDelete(Current.res)
  BY <1>1, <1>2, Lines, StartScript DEF AtCommand, BeginDelete, Begin, Open
<1>3. CASE AtCommand("delete") /\ DeleteNotFound(Current.res)
  BY <1>1, <1>3, Lines, StartScript DEF AtCommand, DeleteNotFound, Open
<1>4. CASE AtCommand("upsert") /\ BeginUpsert(Current.res, Current.to)
  BY <1>1, <1>4, Lines, StartScript DEF AtCommand, BeginUpsert, Begin, Open
<1>5. CASE AtCommand("freeze") /\ Freeze
  BY <1>1, <1>5, StartScript DEF AtCommand, Freeze
<1>6. CASE AtCommand("discard") /\ Discard
  BY <1>1, <1>6, Lines, DiscardScript DEF AtCommand
<1> QED
  BY <1>2, <1>3, <1>4, <1>5, <1>6 DEF RigCommand

LEMMA RigRevertScript == ASSUME DeepInd, RigRevert PROVE ScriptInv'
<1> USE DEF cluster, log
<1>1. /\ ScriptInv /\ hook = "rollback" /\ shell = "ready" /\ step = "idle" /\ shell' = "waiting"
      /\ UNCHANGED <<cluster, log, base, author>>
      /\ UNCHANGED <<hook, line, updates, wide, miscounted, original>>
  BY DEF RigRevert, BeginRevert, RefuseRevert, DeepInd
<1>2. \/ step' = "idle" /\ task' = task /\ result' = "error" /\ status = status'
      \/ /\ step' \in {"apply", "close"} /\ task'.kind = "revert" /\ task'.at = Len(items)
         /\ status \in {"in-progress", "committed"}
  <2>1. CASE RefuseRevert
    BY <2>1 DEF RefuseRevert
  <2>2. CASE BeginRevert
    <3>1. /\ RevertFrom(Len(items)) /\ status \in {"in-progress", "committed"}
          /\ Len(items) \in 0 .. Len(items) /\ items \in Seq(Item)
      BY <2>2, Facts DEF BeginRevert
    <3> QED
      BY <3>1, RevertFromTask
  <2> QED
    BY <1>1, <2>1, <2>2 DEF RigRevert
<1>3. task.kind # "revert"
  BY <1>1 DEF DeepInd, IInv, TaskInv, NoTask
<1>4. (ShellInv /\ WorkInv /\ DoneInv /\ ObjectsInv /\ LinesInv /\ ItemsInv)'
  BY <1>1, <1>2, <1>3 DEF ScriptInv, ShellInv, WorkInv, DoneInv, Waiting, ObjectsInv,
                          LinesInv, ItemsInv, Upserted
<1>5. BaseInv'
  BY <1>1 DEF ScriptInv, BaseInv, Logged
<1>6. PithosInv'
  BY <1>1, <1>2, <1>3, Facts DEF ScriptInv, PithosInv, Upserted
<1>7. FirstInv'
  BY <1>1 DEF ScriptInv, FirstInv, Logged
<1>8. RevertedInv'
  BY <1>1, <1>2 DEF ScriptInv, RevertedInv, Settled, Logged
<1> QED
  BY <1>4, <1>5, <1>6, <1>7, <1>8 DEF ScriptInv

(***************************************************************************)
(* pithosctl and kubectl write outside the log.                            *)
(***************************************************************************)
LEMMA WriteEffect ==
  ASSUME DeepInd, NEW r \in Objects, NEW c \in Version, ForeignWrite(r, c)
  PROVE  /\ content'[r] = c /\ author'[r] = "other" /\ r \notin dying /\ dying' = dying
         /\ \A q \in Resource \ {r} : content'[q] = content[q] /\ author'[q] = author[q]
                                      /\ base'[q] = base[q]
         /\ base'[r] = IF Logged(r) THEN base[r] ELSE c
         /\ UNCHANGED <<log, rig>> /\ step = "idle"
<1>1. r \in Resource /\ content \in [Resource -> Held] /\ base \in [Resource -> Held]
      /\ author \in [Resource -> {"op", "revert", "other", "lost"}]
  BY Facts, ObjectFacts
<1>2. step = "idle" => (Touched(r) <=> Logged(r))
  BY DEF Touched
<1> QED
  BY <1>1, <1>2 DEF ForeignWrite, By, Untouched

\* The lines of pithosctl and of kubectl when they find something to write.
LEMMA WriteScript ==
  ASSUME DeepInd, hook = "update", shell = "ready", NextLine, UNCHANGED original,
         NEW r, NEW c, ForeignWrite(r, c),
         \/ line = 7 /\ r = pithosCfg /\ c = new
         \/ line = 10 /\ r = cassandra /\ c = scaled /\ wide' /\ ~miscounted'
  PROVE  ScriptInv'
<1> USE DEF NextLine
<1>1. r \in Objects /\ c \in Version /\ r # pithos /\ pithos \in Resource /\ pithosCfg \in Resource
      /\ r \in Resource
  BY HookAssumption, ObjectAssumption DEF Objects
<1>2. /\ content'[r] = c /\ author'[r] = "other" /\ r \notin dying /\ dying' = dying
      /\ \A q \in Resource \ {r} : content'[q] = content[q] /\ author'[q] = author[q]
                                   /\ base'[q] = base[q]
      /\ base'[r] = IF Logged(r) THEN base[r] ELSE c
      /\ UNCHANGED <<status, items, step, task, result>> /\ step = "idle"
  BY <1>1, WriteEffect DEF log, rig
<1>3. ScriptInv /\ Objects \subseteq Resource
  BY ObjectFacts DEF DeepInd
<1>4. task.kind # "revert"
  BY <1>2 DEF DeepInd, IInv, TaskInv, NoTask
<1>5. ShellInv' /\ DoneInv'
  BY <1>2 DEF ShellInv, DoneInv, Waiting
<1>6. WorkInv'
  BY <1>1, <1>2, <1>3 DEF ScriptInv, WorkInv
<1>7. ObjectsInv'
  <2>1. \A q \in {pithos, cassandraCfg, alterJob, legacy} :
            content'[q] = content[q] /\ (q \in dying' <=> q \in dying)
    BY <1>2, <1>3, ObjectAssumption DEF Objects
  <2>2. Replaced(pithos, 2, 11)' /\ Replaced(cassandraCfg, 4, 9)' /\ Replaced(alterJob, 6, 13)'
    BY <1>2, <1>3, <2>1 DEF ScriptInv, ObjectsInv, Replaced
  <2>3. Logged(cassandra)' <=> Logged(cassandra)
    BY <1>2 DEF Logged
  <2>4. CASE line = 7
    BY <1>1, <1>2, <1>3, <2>1, <2>2, <2>4 DEF ScriptInv, ObjectsInv
  <2>5. CASE line = 10
    <3>1. content'[pithosCfg] = content[pithosCfg]
      BY <1>1, <1>2, <2>5, ObjectAssumption
    <3> QED
      BY <1>1, <1>2, <1>3, <2>1, <2>2, <2>3, <2>5, <3>1 DEF ScriptInv, ObjectsInv
  <2> QED
    BY <2>4, <2>5
<1>8. LinesInv'
  BY <1>2, <1>3, Facts DEF ScriptInv, LinesInv, OfLine
<1>9. ItemsInv'
  BY <1>2, <1>3 DEF ScriptInv, ItemsInv, Upserted
<1>10. content[pithos] = Nothing \/ line = 10
  BY <1>3 DEF ScriptInv, ObjectsInv, Replaced
<1>11. BaseInv'
  <2>1. Runs(base[pithos]) => base'[pithosCfg] = base[pithosCfg]
    <3>1. CASE line = 7 /\ ~Logged(pithosCfg)
      <4>1. base[pithosCfg] = Nothing
        BY <1>3, <3>1 DEF ScriptInv, BaseInv, ObjectsInv
      <4> QED
        BY <1>3, <4>1, ObjectFacts DEF ScriptInv, BaseInv, Runs
    <3>2. CASE line = 10 \/ Logged(pithosCfg)
      BY <1>1, <1>2, <3>2, ObjectAssumption
    <3> QED
      BY <1>1, <3>1, <3>2
  <2>2. base'[pithos] = base[pithos] /\ content'[pithos] = content[pithos]
        /\ author'[pithos] = author[pithos]
    BY <1>1, <1>2
  <2>3. ~Logged(pithosCfg)' => content'[pithosCfg] = base'[pithosCfg]
    BY <1>1, <1>2, <1>3 DEF ScriptInv, BaseInv, Logged
  <2> QED
    BY <1>2, <1>3, <2>1, <2>2, <2>3 DEF ScriptInv, BaseInv
<1>12. PithosInv'
  <2>1. base'[pithos] = base[pithos] /\ content'[pithos] = content[pithos]
    BY <1>1, <1>2
  <2>2. line = 10 => content'[pithosCfg] = content[pithosCfg]
    BY <1>1, <1>2, ObjectAssumption
  <2> QED
    BY <1>2, <1>3, <1>4, <1>10, <2>1, <2>2, ObjectFacts DEF ScriptInv, PithosInv, Upserted, Runs
<1>13. FirstInv'
  <2>1. updates = 1 => Logged(r)
    <3> SUFFICES ASSUME updates = 1, ~Logged(r) PROVE FALSE
      OBVIOUS
    <3>1. line = 7
      BY <1>3 DEF ScriptInv, ObjectsInv
    <3>2. content[pithosCfg] = Nothing /\ content[pithosCfg] = base[pithosCfg]
          /\ base[pithosCfg] = original[pithosCfg] /\ r = pithosCfg
      BY <1>1, <1>3, <3>1, ObjectAssumption DEF ScriptInv, ObjectsInv, FirstInv
    <3>3. original[pithosCfg] = old
      BY <1>3, ObjectAssumption DEF ScriptInv, FirstInv, Objects
    <3> QED
      BY <3>2, <3>3, ObjectFacts
  <2>2. updates = 1 => base' = base
    BY <1>2, <2>1, Facts DEF ForeignWrite, Untouched, Touched
  <2> QED
    BY <1>2, <1>3, <2>1, <2>2 DEF ScriptInv, FirstInv, Logged
<1>14. RevertedInv'
  BY <1>2, <1>3 DEF ScriptInv, RevertedInv
<1> QED
  BY <1>5, <1>6, <1>7, <1>8, <1>9, <1>11, <1>12, <1>13, <1>14 DEF ScriptInv

LEMMA OutsideScript ==
  ASSUME DeepInd, HookInd', PithosctlUpdate \/ KubectlScale
  PROVE  ScriptInv'
<1>1. /\ hook = "update" /\ shell = "ready" /\ line \in DOMAIN Script /\ NextLine
      /\ UNCHANGED original /\ step = "idle"
  BY DEF PithosctlUpdate, KubectlScale, AtCommand, DeepInd, ScriptInv, ShellInv
<1>2. CASE PithosctlUpdate
  <2>1. line = 7
    BY <1>1, <1>2, Lines DEF PithosctlUpdate, AtCommand, Current
  <2>2. CASE content[pithosCfg] = new
    <3>1. UNCHANGED vars /\ UNCHANGED <<wide, miscounted>>
      BY <1>2, <2>2 DEF PithosctlUpdate
    <3>2. ObjectsInv'
      BY <1>1, <2>1, <2>2, <3>1
         DEF NextLine, DeepInd, ScriptInv, ObjectsInv, Replaced, vars, cluster, log
    <3> QED
      BY <1>1, <2>1, <3>1, <3>2, NextLineScript
  <2>3. CASE content[pithosCfg] # new
    BY <1>1, <1>2, <2>1, <2>3, WriteScript DEF PithosctlUpdate
  <2> QED
    BY <2>2, <2>3
<1>3. CASE KubectlScale
  <2>1. line = 10 /\ UNCHANGED wide
    BY <1>1, <1>3, Lines DEF KubectlScale, AtCommand, Current
  <2>2. CASE wide /\ ~miscounted' /\ content[cassandra] # scaled
    BY <1>1, <1>3, <2>1, <2>2, WriteScript DEF KubectlScale
  <2>3. CASE ~(wide /\ ~miscounted' /\ content[cassandra] # scaled)
    <3>1. UNCHANGED vars
      BY <1>3, <2>3 DEF KubectlScale
    <3>2. content[cassandra] = new
      BY <1>1, <2>1 DEF DeepInd, ScriptInv, ObjectsInv
    <3>3. content[cassandra] = (IF wide /\ ~miscounted' THEN scaled ELSE new)
      BY <2>3, <3>2
    <3>4. ObjectsInv'
      BY <1>1, <2>1, <3>1, <3>3
         DEF NextLine, DeepInd, ScriptInv, ObjectsInv, Replaced, vars, cluster, log, Logged
    <3> QED
      BY <1>1, <2>1, <3>1, <3>4, NextLineScript
  <2> QED
    BY <2>2, <2>3
<1> QED
  BY <1>2, <1>3

(***************************************************************************)
(* rig works on.                                                           *)
(***************************************************************************)
\* The deletion of Pithos finds an empty log.
LEMMA FirstItem ==
  ASSUME DeepInd, hook = "update", line = 2, step = "record"
  PROVE  DOMAIN items = {}
<1>1. \A i \in DOMAIN items : \E k \in 1 .. line : OfLine(i, k) /\ k # line
  BY DEF DeepInd, ScriptInv, LinesInv
<1>2. Script[1].name = "discard"
  BY ScriptIs DEF Plain, Cmd
<1>3. \A i \in DOMAIN items : OfLine(i, 1)
  BY <1>1
<1> QED
  BY <1>2, <1>3 DEF OfLine

\* The item of a command is the last of the log, and the only one of its line.
LEMMA RecordScript == ASSUME DeepInd, Record, UNCHANGED hookOnly PROVE ScriptInv'
<1> USE DEF hookOnly, cluster
<1>1. /\ ScriptInv /\ step = "record" /\ step' = "apply" /\ hook = "update"
      /\ UNCHANGED <<content, dying, status, result, base, author>>
      /\ task.res \in Resource /\ NewItem \in Item
  <2>1. step = "record" /\ task.kind # "revert" /\ task.res \in Resource
        /\ task.goal \in Version \cup {Nothing} /\ task \in Task
    BY DEF Record, DeepInd, IInv, TaskInv, TypeOK
  <2> QED
    BY <2>1, AtWork DEF Record, DeepInd, NewItem, Item, Task
<1>2. /\ shell = "waiting" /\ line \in DOMAIN Script /\ line \in (2 .. 6) \cup {8, 9, 11, 13}
      /\ task.kind = Script[line].name
      /\ task.res = Script[line].res /\ task.goal = Script[line].to
  BY <1>1, Forwards
<1>3. /\ task'.kind = task.kind /\ task'.res = task.res /\ task'.goal = task.goal
      /\ task'.from = task.from /\ task.kind # "revert"
  BY <1>1 DEF Record, DeepInd, IInv, TaskInv, TypeOK, Task
<1> DEFINE n == Len(items) + 1
<1>4. /\ n \in Nat /\ DOMAIN items = 1 .. Len(items) /\ DOMAIN items' = 1 .. n
      /\ Len(items) \in Nat
      /\ \A i \in 1 .. Len(items) : items'[i] = items[i]
      /\ items'[n].res = Script[line].res /\ items'[n].to = Script[line].to
      /\ items'[n].from = task.from
  <2>1. items' = Append(items, NewItem)
    BY DEF Record
  <2>2. items'[n] = NewItem /\ DOMAIN items' = 1 .. n
        /\ \A i \in 1 .. Len(items) : items'[i] = items[i]
    BY <1>1, <2>1, Facts, AppendProperties, LenProperties
  <2> QED
    BY <1>2, <2>2, Facts DEF NewItem
<1> HIDE DEF n
<1>5. \A i \in DOMAIN items' : i \in DOMAIN items \/ i = n
  BY <1>4 DEF n
<1>6. \A i \in DOMAIN items : \E k \in 1 .. (line - 1) : OfLine(i, k)
  BY <1>1, <1>2, Facts DEF ScriptInv, LinesInv
<1>7. \A i \in DOMAIN items, k \in 1 .. 15 : OfLine(i, k) =>
          /\ items[i].res = Script[k].res /\ items[i].to = Script[k].to
          /\ k \in (2 .. 6) \cup {8, 9, 11, 13}
  BY ScriptIs, Lines DEF OfLine
<1>8. ShellInv'
  BY <1>1, <1>2, <1>3 DEF ScriptInv, ShellInv, Waiting, Current
<1>9. WorkInv' /\ DoneInv'
  BY <1>1 DEF ScriptInv, WorkInv, DoneInv
<1>10. \A r \in Resource : Logged(r)' <=> Logged(r) \/ r = task.res
  BY <1>2, <1>4, <1>5 DEF Logged, n
<1>11. ObjectsInv'
  <2>1. cassandra \in Resource
    BY HookAssumption
  <2> QED
    BY <1>1, <1>10, <2>1 DEF ScriptInv, ObjectsInv, Replaced
<1>12. LinesInv'
  <2>1. ASSUME NEW i \in DOMAIN items' PROVE \E k \in 1 .. line : OfLine(i, k)'
    <3>1. CASE i = n
      <4>1. OfLine(i, line)'
        BY <1>2, <1>4, <3>1, Lines DEF OfLine
      <4> QED
        BY <1>2, <4>1
    <3>2. CASE i \in DOMAIN items
      <4>1. PICK k \in 1 .. (line - 1) : OfLine(i, k)
        BY <1>6, <3>2
      <4>2. OfLine(i, k)'
        BY <1>4, <3>2, <4>1 DEF OfLine
      <4> QED
        BY <1>2, <4>1, <4>2
    <3> QED
      BY <1>5, <2>1, <3>1, <3>2
  <2> QED
    BY <1>1, <1>2, <2>1 DEF LinesInv
<1>13. line = 2 => n = 1
  BY <1>1, <1>4, FirstItem DEF n
<1>14. line = 5 => \A i \in DOMAIN items : items[i].res # pithosCfg /\ ~Upserted(i)
  <2> SUFFICES ASSUME line = 5, NEW i \in DOMAIN items
               PROVE  items[i].res # pithosCfg /\ ~Upserted(i)
    OBVIOUS
  <2>1. PICK k \in 1 .. 4 : OfLine(i, k)
    BY <1>6
  <2>2. k \in DOMAIN Script /\ k \in 2 .. 4
        /\ items[i].res = Script[k].res /\ items[i].to = Script[k].to
    BY <1>7, <2>1, ScriptIs
  <2> QED
    BY <2>2, Lines DEF Upserted
<1>15. ItemsInv'
  <2>1. /\ Script[line].res \in Objects
        /\ Script[line].res = pithos => line = 2 \/ (line = 11 /\ task.goal # Nothing)
        /\ Script[line].res = pithos /\ Script[line].to # Nothing => task.from = Nothing
        /\ Script[line].res = pithosCfg => line = 5
    BY <1>1, <1>2, Lines, ObjectFacts DEF ScriptInv, ItemsInv
  <2>2. ASSUME NEW i \in DOMAIN items'
        PROVE  /\ items'[i].res \in Objects
               /\ items'[i].res = pithos /\ items'[i].to = Nothing => i = 1
    BY <1>1, <1>2, <1>4, <1>5, <1>13, <2>1 DEF ScriptInv, ItemsInv
  <2>3. ASSUME NEW i \in DOMAIN items', Upserted(i)' PROVE items'[i].from = Nothing
    BY <1>1, <1>4, <1>5, <2>1, <2>3 DEF ScriptInv, ItemsInv, Upserted
  <2>4. ASSUME NEW i \in DOMAIN items', Upserted(i)', NEW j \in DOMAIN items',
               items'[j].res = pithosCfg
        PROVE  j < i
    <3>1. CASE i \in DOMAIN items /\ j \in DOMAIN items
      BY <1>1, <1>4, <2>4, <3>1 DEF ScriptInv, ItemsInv, Upserted
    <3>2. CASE i = n /\ j \in DOMAIN items
      BY <1>4, <3>2 DEF n
    <3>3. CASE j = n
      <4>1. line = 5 /\ i # n
        BY <1>4, <2>1, <2>4, <3>3, ObjectAssumption DEF Upserted
      <4> QED
        BY <1>4, <1>5, <1>14, <2>4, <4>1 DEF Upserted
    <3> QED
      BY <1>5, <3>1, <3>2, <3>3
  <2>5. ASSUME NEW i \in DOMAIN items', NEW j \in DOMAIN items',
               items'[i].res = pithosCfg, items'[j].res = pithosCfg
        PROVE  i = j
    BY <1>1, <1>4, <1>5, <1>14, <2>1, <2>5 DEF ScriptInv, ItemsInv
  <2> QED
    BY <1>1, <2>2, <2>3, <2>4, <2>5 DEF ItemsInv
<1>16. BaseInv'
  <2>1. pithosCfg \in Resource
    BY HookAssumption
  <2> QED
    BY <1>1, <1>10, <2>1 DEF ScriptInv, BaseInv
<1>17. PithosInv'
  <2>1. ASSUME NEW i \in DOMAIN items, Upserted(i)
        PROVE  i \in DOMAIN items' /\ Upserted(i)'
    BY <1>4, <2>1 DEF Upserted, n
  <2> QED
    BY <1>1, <1>3, <2>1 DEF ScriptInv, PithosInv
<1>18. FirstInv'
  BY <1>1, <1>10 DEF ScriptInv, FirstInv
<1>19. RevertedInv'
  BY <1>1 DEF ScriptInv, RevertedInv
<1> QED
  BY <1>8, <1>9, <1>11, <1>12, <1>15, <1>16, <1>17, <1>18, <1>19 DEF ScriptInv

\* Marking an item, and going on to the next one or ending.
LEMMA MarkScript ==
  ASSUME DeepInd, UNCHANGED hookOnly, Complete \/ ItemReverted
  PROVE  ScriptInv'
<1> USE DEF hookOnly, cluster
<1>1. /\ ScriptInv /\ step = "log" /\ shell = "waiting" /\ Working
      /\ UNCHANGED <<content, dying, status, base, author>>
      /\ task.at \in DOMAIN items /\ task.res = items[task.at].res /\ task.res \in Objects
  <2>1. step = "log" /\ Working
    BY DEF Complete, ItemReverted, Working
  <2> QED
    BY <2>1, AtWork DEF Complete, ItemReverted, DeepInd
<1>2. /\ DOMAIN items' = DOMAIN items
      /\ \A i \in DOMAIN items : /\ items'[i].res = items[i].res /\ items'[i].to = items[i].to
                                 /\ items'[i].from = items[i].from
  <2>1. PICK st \in {"completed", "reverted"} : items' = [items EXCEPT ![task.at].status = st]
    BY DEF Complete, ItemReverted
  <2> QED
    BY <1>1, <2>1, Facts, MarkItem
<1>3. \/ /\ hook = "update" /\ task.kind # "revert" /\ step' = "idle" /\ task' = NoTask
         /\ result' = "ok"
      \/ /\ hook = "rollback" /\ task.kind = "revert" /\ task'.kind = "revert"
         /\ task'.at = task.at - 1 /\ step' \in {"apply", "close"} /\ result' = result
  <2>1. CASE Complete
    BY <1>1, <2>1, AtWork DEF Complete, End
  <2>2. CASE ItemReverted
    <3>1. task.at - 1 \in 0 .. Len(items) /\ items \in Seq(Item)
      BY <1>1, Facts
    <3>2. RevertFrom(task.at - 1) /\ hook = "rollback" /\ task.kind = "revert"
      BY <1>1, <2>2, AtWork DEF ItemReverted
    <3> QED
      BY <2>2, <3>1, <3>2, RevertFromTask DEF ItemReverted
  <2> QED
    BY <2>1, <2>2
<1>4. /\ \A r : Logged(r)' <=> Logged(r)
      /\ \A i \in DOMAIN items : Upserted(i)' <=> Upserted(i)
      /\ \A i \in DOMAIN items : \A k : OfLine(i, k)' <=> OfLine(i, k)
  BY <1>2 DEF Logged, Upserted, OfLine
<1>5. NoTask.kind # "revert"
  BY DEF NoTask
<1>6. ShellInv'
  BY <1>1, <1>3 DEF ScriptInv, ShellInv, Waiting, Current
<1>7. WorkInv'
  BY <1>1, <1>3 DEF ScriptInv, WorkInv
<1>8. DoneInv'
  <2> SUFFICES ASSUME hook = "update"
               PROVE  /\ content[Current.res] = Current.to /\ Current.res \notin dying
                      /\ Logged(Current.res) /\ Current.name \in {"delete", "upsert"}
    BY <1>1, <1>3, <1>4 DEF DoneInv, Waiting, Current
  <2>1. /\ Current.name \in {"delete", "upsert"} /\ task.res = Current.res
        /\ task.goal = Current.to
    BY <1>1 DEF ScriptInv, ShellInv, Waiting
  <2>2. author[task.res] # "lost"
    BY <1>1, ObjectFacts DEF ScriptInv, WorkInv
  <2>3. content[task.res] = task.goal /\ task.res \notin dying
    BY <1>1, <2>2, Facts DEF ScriptInv, WorkInv
  <2> QED
    BY <1>1, <2>1, <2>3 DEF Logged
<1>9. ObjectsInv'
  BY <1>1, <1>3, <1>4 DEF ScriptInv, ObjectsInv, Replaced
<1>10. LinesInv'
  BY <1>1, <1>2, <1>3, <1>4 DEF ScriptInv, LinesInv
<1>11. ItemsInv'
  BY <1>1, <1>2, <1>3, <1>4 DEF ScriptInv, ItemsInv
<1>12. BaseInv'
  BY <1>1, <1>4 DEF ScriptInv, BaseInv
<1>13. PithosInv'
  <2>1. ASSUME NEW i \in DOMAIN items, Upserted(i), task.kind = "revert", i = task.at
        PROVE  content[pithos] = Nothing
    <3>1. task.goal = Nothing /\ task.res = pithos
      BY <1>1, <2>1 DEF ScriptInv, ItemsInv, Upserted, DeepInd, IInv, TaskInv
    <3> QED
      BY <1>1, <3>1 DEF ScriptInv, WorkInv
  <2>2. ~Runs(Nothing)
    BY ObjectFacts DEF Runs
  <2>3. ASSUME NEW i \in DOMAIN items, i <= task.at, i # task.at PROVE i <= task.at - 1
    BY <1>1, <2>3, Facts
  <2> SUFFICES ASSUME Runs(content[pithos]), pithos \notin dying
               PROVE  /\ content[pithosCfg] = content[pithos]
                      /\ content[pithos] # base[pithos] =>
                           \E i \in DOMAIN items :
                               Upserted(i) /\ (task'.kind = "revert" => i <= task'.at)
    BY <1>1, <1>2, <1>4 DEF PithosInv
  <2>4. /\ content[pithosCfg] = content[pithos]
        /\ content[pithos] # base[pithos] =>
              \E i \in DOMAIN items : Upserted(i) /\ (task.kind = "revert" => i <= task.at)
    BY <1>1 DEF ScriptInv, PithosInv
  <2> QED
    BY <1>3, <1>5, <2>1, <2>2, <2>3, <2>4
<1>14. FirstInv'
  BY <1>1, <1>4 DEF ScriptInv, FirstInv
<1>15. RevertedInv'
  BY <1>1, <1>3, <1>4 DEF ScriptInv, RevertedInv, Settled
<1> QED
  BY <1>6, <1>7, <1>8, <1>9, <1>10, <1>11, <1>12, <1>13, <1>14, <1>15 DEF ScriptInv

\* The reversal is over: every object is back.
LEMMA CloseScript ==
  ASSUME DeepInd, UNCHANGED hookOnly, CloseReverted
  PROVE  ScriptInv'
<1> USE DEF hookOnly, cluster
<1>1. /\ ScriptInv /\ step = "close" /\ shell = "waiting" /\ hook = "rollback"
      /\ UNCHANGED <<content, dying, items, base, author>>
      /\ status' = "reverted" /\ step' = "idle" /\ task' = NoTask /\ result' = "ok"
  <2>1. step = "close" /\ task.kind = "revert"
    BY DEF CloseReverted, DeepInd, IInv, TaskInv
  <2> QED
    BY <2>1, AtWork DEF CloseReverted, End, DeepInd
<1>2. \A r \in Resource : Settled(r)
  BY <1>1 DEF DeepInd, IInv, TaskInv, ReversalInv
<1>3. (ShellInv /\ WorkInv /\ DoneInv /\ ObjectsInv /\ LinesInv /\ ItemsInv)'
  BY <1>1 DEF ScriptInv, ShellInv, WorkInv, DoneInv, Waiting, ObjectsInv, LinesInv,
              ItemsInv, Upserted
<1>4. (BaseInv /\ PithosInv)'
  BY <1>1 DEF ScriptInv, BaseInv, PithosInv, Logged, Upserted, NoTask
<1>5. FirstInv'
  BY <1>1 DEF ScriptInv, FirstInv, Logged
<1>6. RevertedInv'
  BY <1>1, <1>2 DEF RevertedInv, Settled, Logged
<1> QED
  BY <1>3, <1>4, <1>5, <1>6 DEF ScriptInv

(***************************************************************************)
(* The API calls of rig, by what they do to the object in hand.            *)
(***************************************************************************)
Elsewhere ==
    \A r \in Resource \ {task.res} :
        content'[r] = content[r] /\ author'[r] = author[r] /\ (r \in dying' <=> r \in dying)

SameObjects == UNCHANGED <<content, dying, author>>

\* There is nothing to delete.
Missed ==
    /\ step' = "idle" /\ task' = NoTask /\ result' = "notfound" /\ task.kind # "revert"
    /\ content[task.res] = Nothing /\ SameObjects

Gone ==
    /\ step' = "log" /\ task.goal = Nothing
    /\ content'[task.res] = Nothing /\ dying' = dying /\ task.res \notin dying
    /\ author' = author \/ author'[task.res] # "lost"

Drains ==
    /\ step' = "delete" /\ task.goal = Nothing /\ task.res \in Scalable
    /\ content'[task.res] = Drained /\ dying' = dying /\ author'[task.res] # "lost"

Marked ==
    /\ step' = "wait" /\ (step = "delete" \/ task.res \in Recreated)
    /\ content[task.res] # Nothing /\ content' = content
    /\ dying' = dying \cup {task.res} /\ author'[task.res] # "lost"

Awaited == step' = "create" /\ content[task.res] = Nothing /\ SameObjects

Put ==
    /\ step' = "log" /\ content'[task.res] = task.goal /\ dying' = dying
    /\ \/ content[task.res] = Nothing /\ author'[task.res] # "lost"
       \/ /\ step = "apply" /\ task.goal # Nothing /\ task.res \notin Recreated
          /\ author'[task.res] = "lost" <=> task.res \in dying

LEMMA ApplyEffect ==
  ASSUME IInv, Apply
  PROVE  /\ Working /\ Elsewhere /\ UNCHANGED <<status, items, base>>
         /\ Missed \/ (task' = task /\ result' = result /\
                       (Gone \/ Drains \/ Marked \/ Awaited \/ Put))
<1>1. /\ Working /\ UNCHANGED <<status, items, base>>
      /\ content \in [Resource -> Held]
      /\ author \in [Resource -> {"op", "revert", "other", "lost"}]
  BY DEF Apply, RemoveMissing, ScaleDown, RequestDeletion, DeleteAtOnce, AwaitRemoval,
         Create, UpdateInPlace, Working, Unlogged, log, IInv, TypeOK
<1>2. /\ task.res \in Resource /\ Forward \in {"op", "revert"}
      /\ step = "delete" => task.goal = Nothing
      /\ task.res \in dying => content[task.res] # Nothing
                                /\ task.res \in Recreated \cup Scalable
  BY <1>1, TaskType DEF IInv, TaskInv, DyingInv
<1>3. CASE RemoveMissing
  BY <1>1, <1>2, <1>3 DEF RemoveMissing, Present, Removing, Elsewhere, Missed, Gone,
                          SameObjects, cluster
<1>4. CASE ScaleDown
  BY <1>1, <1>2, <1>4 DEF ScaleDown, By, Unlogged, Elsewhere, Drains, Removing
<1>5. CASE RequestDeletion
  BY <1>1, <1>2, <1>5 DEF RequestDeletion, Present, By, Unlogged, Elsewhere, Marked
<1>6. CASE DeleteAtOnce
  BY <1>1, <1>2, <1>6 DEF DeleteAtOnce, Removing, By, Unlogged, Elsewhere, Gone
<1>7. CASE AwaitRemoval
  BY <1>1, <1>2, <1>7 DEF AwaitRemoval, Present, Removing, Unlogged, Elsewhere, Gone, Awaited,
                          SameObjects, cluster
<1>8. CASE Create
  BY <1>1, <1>2, <1>8 DEF Create, Present, By, Unlogged, Elsewhere, Put
<1>9. CASE UpdateInPlace
  BY <1>1, <1>2, <1>9 DEF UpdateInPlace, Removing, By, Unlogged, Elsewhere, Put
<1> QED
  BY <1>1, <1>3, <1>4, <1>5, <1>6, <1>7, <1>8, <1>9 DEF Apply

\* In the update an object that was deleted is gone when it is about to be created.
LEMMA UpsertsAnew ==
  ASSUME DeepInd, hook = "update", step \notin {"idle", "log"},
         line \in {9, 11, 13}
  PROVE  content[task.res] = Nothing
<1>1. task.res = Script[line].res /\ ObjectsInv /\ line \in DOMAIN Script
  BY Forwards DEF DeepInd, ScriptInv
<1>2. /\ line = 9 => content[cassandraCfg] = Nothing
      /\ line = 11 => content[pithos] = Nothing
      /\ line = 13 => content[alterJob] = Nothing
  BY <1>1 DEF ObjectsInv, Replaced
<1> QED
  BY <1>1, <1>2, Lines

LEMMA ApplyWork ==
  ASSUME DeepInd, Apply, UNCHANGED hookOnly
  PROVE  WorkInv'
<1>1. /\ Working /\ Elsewhere /\ UNCHANGED <<status, items, base>>
      /\ Missed \/ (task' = task /\ (Gone \/ Drains \/ Marked \/ Awaited \/ Put))
      /\ UNCHANGED <<hook, line, shell>>
  BY ApplyEffect DEF DeepInd, hookOnly
<1>2. /\ WorkInv /\ step # "idle" /\ task.res \in Objects /\ task.res \in Resource
      /\ hook \in {"update", "rollback"}
  BY <1>1, AtWork, ObjectFacts DEF Working, DeepInd, ScriptInv
<1>3. author'[task.res] = "lost" => task.res = pithos /\ hook = "rollback"
  <2> SUFFICES ASSUME author'[task.res] = "lost" PROVE task.res = pithos /\ hook = "rollback"
    OBVIOUS
  <2>1. CASE author' = author
    BY <1>2, <2>1 DEF WorkInv
  <2>2. CASE author' # author
    <3>1. Put
      BY <1>1, <2>2 DEF Missed, Gone, Drains, Marked, Awaited, SameObjects
    <3>2. /\ content[task.res] # Nothing /\ step = "apply" /\ task.goal # Nothing
          /\ task.res \notin Recreated /\ task.res \in dying
      BY <3>1, Facts DEF Put
    <3>3. task.res = pithos
      BY <1>2, <3>2, Facts, ObjectFacts
    <3>4. hook # "update"
      <4> SUFFICES ASSUME hook = "update" PROVE FALSE
        OBVIOUS
      <4>1. line \in {8, 9, 11, 13} /\ line \in DOMAIN Script /\ task.res = Script[line].res
        BY <1>2, <3>2, Forwards
      <4>2. line = 11
        BY <3>3, <4>1, Lines
      <4> QED
        BY <1>2, <3>2, <4>2, UpsertsAnew
    <3> QED
      BY <1>2, <3>3, <3>4
  <2> QED
    BY <2>1, <2>2
<1>4. \A r \in Resource : author'[r] = "lost" =>
          r = pithos /\ hook' \in {"rollback", "rolledback", "rollback-failed"}
  BY <1>1, <1>2, <1>3 DEF Elsewhere, WorkInv
<1>5. dying' \subseteq Objects
  BY <1>1, <1>2 DEF WorkInv, Missed, Gone, Drains, Marked, Awaited, Put, SameObjects
<1>6. CASE Missed
  BY <1>4, <1>5, <1>6 DEF WorkInv, Missed
<1>7. CASE task' = task /\ (Gone \/ Drains \/ Marked \/ Awaited)
  BY <1>4, <1>5, <1>7 DEF WorkInv, Gone, Drains, Marked, Awaited, SameObjects
<1>8. CASE task' = task /\ Put
  <2>1. content[task.res] = Nothing => task.res \notin dying
    BY Facts
  <2> QED
    BY <1>4, <1>5, <1>8, <2>1 DEF WorkInv, Put
<1> QED
  BY <1>1, <1>6, <1>7, <1>8

LEMMA ApplyObjects ==
  ASSUME DeepInd, Apply, UNCHANGED hookOnly
  PROVE  (ShellInv /\ DoneInv /\ ObjectsInv /\ LinesInv /\ ItemsInv /\ RevertedInv)'
<1>1. /\ Working /\ Elsewhere /\ UNCHANGED <<status, items, base>>
      /\ Missed \/ (task' = task /\ (Gone \/ Drains \/ Marked \/ Awaited \/ Put))
      /\ UNCHANGED <<hook, line, shell, updates, wide, miscounted, original>>
  BY ApplyEffect DEF DeepInd, hookOnly
<1>2. /\ ScriptInv /\ step # "idle" /\ task.res \in Objects /\ task.res \in Resource
      /\ hook \in {"update", "rollback"} /\ shell = "waiting"
      /\ step \notin {"record", "idle", "log"} \/ ~Put
      /\ step' # "record" /\ status # "reverted"
  <2>1. step' # "record" /\ step \in Steps
    BY <1>1 DEF Missed, Gone, Drains, Marked, Awaited, Put, DeepInd, IInv, TypeOK
  <2>2. step # "log"
    BY DEF Apply, RemoveMissing, ScaleDown, RequestDeletion, DeleteAtOnce, AwaitRemoval,
           Create, UpdateInPlace
  <2> QED
    BY <1>1, <2>1, <2>2, AtWork, ObjectFacts DEF Working, DeepInd, IInv, TaskInv
<1>3. step # "log"
  BY DEF Apply, RemoveMissing, ScaleDown, RequestDeletion, DeleteAtOnce, AwaitRemoval,
         Create, UpdateInPlace
<1>4. ShellInv'
  <2>1. CASE Missed
    BY <1>1, <1>2, <2>1 DEF ScriptInv, ShellInv, Waiting, Current, Missed
  <2>2. CASE task' = task /\ ~Missed
    BY <1>1, <1>2, <2>2 DEF ScriptInv, ShellInv, Waiting, Current
  <2> QED
    BY <1>1, <2>1, <2>2
<1>5. DoneInv'
  <2>1. CASE Missed
    BY <1>1, <1>2, <2>1 DEF ScriptInv, ShellInv, DoneInv, Waiting, Current, Missed, SameObjects
  <2>2. CASE ~Missed
    BY <1>1, <2>2 DEF DoneInv, Gone, Drains, Marked, Awaited, Put
  <2> QED
    BY <2>1, <2>2
<1>6. LinesInv' /\ ItemsInv'
  BY <1>1, <1>2 DEF ScriptInv, LinesInv, OfLine, ItemsInv, Upserted
<1>7. RevertedInv'
  <2>1. hook = "rollback" => ~Missed
    BY <1>2, AtWork DEF Missed
  <2>2. ~Missed => step' # "idle"
    BY <1>1 DEF Gone, Drains, Marked, Awaited, Put
  <2> QED
    BY <1>1, <1>2, <2>1, <2>2 DEF RevertedInv
<1>8. ObjectsInv'
  <2> SUFFICES ASSUME hook = "update" PROVE ObjectsInv'
    BY <1>1 DEF ObjectsInv
  <2>1. /\ line \in DOMAIN Script /\ line \in (2 .. 6) \cup {8, 9, 11, 13}
        /\ task.res = Script[line].res
        /\ task.goal = IF line \in 2 .. 6 THEN Nothing ELSE new
    BY <1>2, Forwards
  <2>2. /\ task.res = pithos <=> line \in {2, 11}
        /\ task.res = legacy <=> line = 3
        /\ task.res = cassandraCfg <=> line \in {4, 9}
        /\ task.res = pithosCfg <=> line = 5
        /\ task.res = alterJob <=> line \in {6, 13}
        /\ task.res = cassandra <=> line = 8
    BY <2>1, Lines
  <2>3. \A r \in Objects : r # task.res =>
            content'[r] = content[r] /\ (r \in dying' <=> r \in dying)
    BY <1>1, ObjectFacts DEF Elsewhere
  <2>4. ASSUME NEW r \in Objects, NEW d \in 2 .. 6, NEW u \in {9, 11, 13},
               Replaced(r, d, u), task.res = r <=> line \in {d, u}
        PROVE  Replaced(r, d, u)'
    <3>1. CASE task.res # r
      BY <1>1, <2>3, <2>4, <3>1 DEF Replaced
    <3>2. CASE line = d
      BY <1>1, <2>4, <3>2 DEF Replaced
    <3>3. CASE line = u
      <4>1. content[r] = Nothing /\ task.res = r /\ task.goal = new /\ task.goal # Nothing
            /\ r \notin dying
        BY <1>2, <1>3, <2>1, <2>4, <3>3, UpsertsAnew, Facts, ObjectFacts
      <4>2. \/ content'[r] = Nothing
            \/ step' = "log" /\ content'[r] = new /\ r \notin dying'
        BY <1>1, <4>1 DEF Missed, Gone, Drains, Marked, Awaited, Put, SameObjects
      <4> QED
        BY <1>1, <1>2, <2>4, <3>3, <4>2 DEF Replaced
    <3> QED
      BY <2>4, <3>1, <3>2, <3>3
  <2>5. Replaced(pithos, 2, 11)' /\ Replaced(cassandraCfg, 4, 9)' /\ Replaced(alterJob, 6, 13)'
    <3>1. /\ Replaced(pithos, 2, 11) /\ Replaced(cassandraCfg, 4, 9) /\ Replaced(alterJob, 6, 13)
          /\ {pithos, cassandraCfg, alterJob} \subseteq Objects
      BY <1>2 DEF ScriptInv, ObjectsInv, Objects
    <3> QED
      BY <2>2, <2>4, <3>1
  <2>6. /\ line > 3 => content'[legacy] = content[legacy]
        /\ line > 5 => content'[pithosCfg] = content[pithosCfg]
        /\ line > 8 => content'[cassandra] = content[cassandra]
                       /\ (cassandra \in dying' <=> cassandra \in dying)
    BY <2>1, <2>2, <2>3 DEF Objects
  <2> QED
    BY <1>1, <1>2, <2>1, <2>5, <2>6 DEF ScriptInv, ObjectsInv, Logged
<1> QED
  BY <1>4, <1>5, <1>6, <1>7, <1>8

\* Undoing the only item of pithos-cfg, when Pithos is there it is the one it was.
LEMMA ConfigBack ==
  ASSUME DeepInd, Working, task.kind = "revert", task.res = pithosCfg,
         Runs(content[pithos]), pithos \notin dying
  PROVE  task.goal = content[pithos] /\ content[pithos] = base[pithos]
<1>1. /\ ScriptInv /\ task.at \in DOMAIN items /\ items[task.at].res = pithosCfg
      /\ task.goal = items[task.at].from
  BY DEF DeepInd, IInv, TaskInv
<1>2. DOMAIN items = 1 .. Len(items) /\ Len(items) \in Nat
  BY Facts
<1>3. First(task.at)
  <2>1. ASSUME NEW j \in 1 .. (task.at - 1) PROVE items[j].res # pithosCfg
    <3>1. j \in DOMAIN items /\ j # task.at
      BY <1>1, <1>2
    <3> QED
      BY <1>1, <3>1 DEF ScriptInv, ItemsInv
  <2> QED
    BY <1>1, <2>1 DEF First
<1>4. task.goal = base[pithosCfg]
  BY <1>1, <1>3 DEF DeepInd, IInv, Restorable
<1>5. ASSUME NEW i \in DOMAIN items, Upserted(i) PROVE ~(i <= task.at)
  <2>1. task.at < i
    BY <1>1, <1>5 DEF ScriptInv, ItemsInv
  <2> QED
    BY <1>1, <1>2, <2>1
<1>6. content[pithos] = base[pithos]
  BY <1>1, <1>5 DEF ScriptInv, PithosInv
<1> QED
  BY <1>1, <1>4, <1>6 DEF ScriptInv, BaseInv

\* Undoing the deletion of Pithos, which is the first item: all else is back.
LEMMA PithosBack ==
  ASSUME DeepInd, Working, task.kind = "revert", task.res = pithos, Runs(task.goal)
  PROVE  task.goal = base[pithos] /\ content[pithosCfg] = base[pithos]
<1>1. /\ ScriptInv /\ task.at \in DOMAIN items /\ items[task.at].res = pithos
      /\ task.goal = items[task.at].from
  BY DEF DeepInd, IInv, TaskInv
<1>2. DOMAIN items = 1 .. Len(items) /\ Len(items) \in Nat
  BY Facts
<1>3. ~Upserted(task.at)
  BY <1>1, ObjectFacts DEF ScriptInv, ItemsInv, Runs
<1>4. task.at = 1
  BY <1>1, <1>3 DEF ScriptInv, ItemsInv, Upserted
<1>5. First(task.at)
  BY <1>4 DEF First
<1>6. task.goal = base[pithos]
  BY <1>1, <1>5 DEF DeepInd, IInv, Restorable
<1>7. \A i \in 1 .. task.at : items[i].res # pithosCfg
  BY <1>1, <1>4, ObjectAssumption
<1>8. Settled(pithosCfg)
  BY <1>7, HookAssumption DEF DeepInd, IInv, ReversalInv
<1>9. content[pithosCfg] = base[pithosCfg]
  BY <1>1, <1>8, HookAssumption, ObjectAssumption DEF Settled, ScriptInv, WorkInv
<1> QED
  BY <1>1, <1>6, <1>9 DEF ScriptInv, BaseInv

LEMMA ApplyPithos ==
  ASSUME DeepInd, Apply, UNCHANGED hookOnly
  PROVE  PithosInv'
<1>1. /\ Working /\ Elsewhere /\ UNCHANGED <<status, items, base>>
      /\ Missed \/ (task' = task /\ (Gone \/ Drains \/ Marked \/ Awaited \/ Put))
      /\ UNCHANGED <<hook, line, shell>>
  BY ApplyEffect DEF DeepInd, hookOnly
<1>2. /\ ScriptInv /\ step # "idle" /\ task.res \in Objects /\ task.res \in Resource
      /\ hook \in {"update", "rollback"}
      /\ task.kind = "revert" <=> hook = "rollback"
      /\ task.at \in DOMAIN items /\ items[task.at].res = task.res
      /\ pithos \in Resource /\ pithosCfg \in Resource /\ pithos # pithosCfg
  BY <1>1, AtWork, ObjectFacts, ObjectAssumption, HookAssumption DEF Working, DeepInd
<1>3. task'.kind = "revert" => task' = task
  BY <1>1 DEF Missed, NoTask
<1>4. ~Runs(Nothing) /\ ~Runs(Drained)
  BY ObjectFacts DEF Runs
<1> SUFFICES ASSUME Runs(content'[pithos]), pithos \notin dying'
             PROVE  /\ content'[pithosCfg] = content'[pithos]
                    /\ content'[pithos] # base[pithos] =>
                         \E i \in DOMAIN items :
                             Upserted(i) /\ (task.kind = "revert" => i <= task.at)
  BY <1>1, <1>3 DEF PithosInv, Upserted, Runs
<1>5. CASE content'[pithos] = content[pithos] /\ content'[pithosCfg] = content[pithosCfg]
           /\ pithos \notin dying
  BY <1>2, <1>5 DEF ScriptInv, PithosInv
<1>6. CASE task.res = pithosCfg /\ content'[pithosCfg] # content[pithosCfg]
  <2>1. content'[pithos] = content[pithos] /\ pithos \notin dying
    BY <1>1, <1>2, <1>6 DEF Elsewhere
  <2>2. hook # "update"
    <3> SUFFICES ASSUME hook = "update" PROVE FALSE
      OBVIOUS
    <3>1. line = 5
      BY <1>2, <1>6, Forwards, Lines
    <3>2. content[pithos] = Nothing
      BY <1>2, <3>1 DEF ScriptInv, ObjectsInv, Replaced
    <3> QED
      BY <1>4, <2>1, <3>2
  <2>3. task.goal = content[pithos] /\ content[pithos] = base[pithos]
    BY <1>1, <1>2, <1>6, <2>1, <2>2, ConfigBack
  <2>4. content'[pithosCfg] = task.goal
    BY <1>1, <1>6, ObjectAssumption
       DEF Missed, Gone, Drains, Marked, Awaited, Put, SameObjects
  <2> QED
    BY <2>1, <2>3, <2>4
<1>7. CASE task.res = pithos /\ ~(content'[pithos] = content[pithos] /\ pithos \notin dying)
  <2>1. content'[pithosCfg] = content[pithosCfg]
    BY <1>1, <1>2, <1>7 DEF Elsewhere
  <2>2. content'[pithos] = task.goal /\ (content[pithos] = Nothing \/ task.goal # Nothing)
    BY <1>1, <1>4, <1>7 DEF Missed, Gone, Drains, Marked, Awaited, Put, SameObjects
  <2>3. Runs(task.goal)
    BY <2>2
  <2>4. CASE hook = "rollback"
    BY <1>1, <1>2, <1>7, <2>1, <2>2, <2>3, <2>4, PithosBack
  <2>5. CASE hook = "update"
    <3>1. line = 11 /\ task.goal = new /\ task.goal # Nothing
      BY <1>2, <1>4, <1>7, <2>3, <2>5, Forwards, Lines
    <3>2. content[pithosCfg] = new
      BY <1>2, <2>5, <3>1 DEF ScriptInv, ObjectsInv
    <3>3. items[task.at].to = task.goal
      BY <1>1, <1>2, <2>5 DEF DeepInd, OpInv, OpWorking
    <3>4. Upserted(task.at)
      BY <1>2, <1>7, <3>1, <3>3 DEF Upserted
    <3> QED
      BY <1>2, <2>1, <2>2, <2>5, <3>1, <3>2, <3>4
  <2> QED
    BY <1>2, <2>4, <2>5
<1> QED
  BY <1>1, <1>2, <1>5, <1>6, <1>7 DEF Elsewhere

LEMMA ApplyScript ==
  ASSUME DeepInd, Apply, UNCHANGED hookOnly
  PROVE  ScriptInv'
<1>1. /\ Working /\ Elsewhere /\ UNCHANGED <<status, items, base>>
      /\ Missed \/ (task' = task /\ (Gone \/ Drains \/ Marked \/ Awaited \/ Put))
      /\ UNCHANGED <<hook, line, shell, updates, original>>
  BY ApplyEffect DEF DeepInd, hookOnly
<1>2. /\ ScriptInv /\ step # "idle" /\ task.res \in Objects /\ task.res \in Resource
      /\ pithos \in Resource /\ pithosCfg \in Resource /\ Logged(task.res)
  BY <1>1, AtWork, ObjectFacts, HookAssumption DEF Working, DeepInd, Logged
<1>3. \A r : Logged(r)' <=> Logged(r)
  BY <1>1 DEF Logged
<1>4. BaseInv'
  <2>1. ~Logged(pithosCfg) => content'[pithosCfg] = content[pithosCfg]
    BY <1>1, <1>2 DEF Elsewhere
  <2>2. pithos \in dying' => content'[pithos] = Drained \/ author'[pithos] = "lost"
    <3> SUFFICES ASSUME pithos \in dying' PROVE content'[pithos] = Drained \/ author'[pithos] = "lost"
      OBVIOUS
    <3>0. pithos \in dying => content[pithos] = Drained \/ author[pithos] = "lost"
      BY <1>2 DEF ScriptInv, BaseInv
    <3>1. CASE task.res # pithos
      BY <1>1, <1>2, <3>0, <3>1 DEF Elsewhere
    <3>2. CASE task.res = pithos /\ pithos \in dying /\ ~Marked
      <4>1. content[pithos] # Nothing
        BY <3>2, Facts
      <4> QED
        BY <1>1, <3>0, <3>2, <4>1 DEF Missed, Gone, Drains, Awaited, Put, SameObjects
    <3>3. CASE task.res = pithos /\ Marked
      BY <1>2, <3>3, ObjectAssumption, KindAssumption DEF Marked, ScriptInv, WorkInv
    <3> QED
      BY <1>1, <3>1, <3>2, <3>3 DEF Missed, Gone, Drains, Awaited, Put, SameObjects
  <2> QED
    BY <1>1, <1>2, <1>3, <2>1, <2>2 DEF ScriptInv, BaseInv
<1>5. FirstInv'
  BY <1>1, <1>2, <1>3 DEF Elsewhere, ScriptInv, FirstInv
<1> QED
  BY <1>4, <1>5, ApplyWork, ApplyObjects, ApplyPithos DEF ScriptInv

(***************************************************************************)
(* The API server removes an object, and rig stops half-way.               *)
(***************************************************************************)
LEMMA FinaliseScript == ASSUME DeepInd, Finalises PROVE ScriptInv'
<1> USE DEF hookOnly, log, rig
<1>1. PICK r \in Resource : Finalise(r)
  BY DEF Finalises
<1>2. /\ UNCHANGED <<hook, line, shell, updates, wide, miscounted, original>>
      /\ UNCHANGED <<status, items, step, task, result, author>>
      /\ ScriptInv /\ r \in dying /\ dying' = dying \ {r}
  BY <1>1 DEF Finalises, Finalise, DeepInd
<1>3. /\ content'[r] = Nothing
      /\ \A q \in Resource \ {r} : content'[q] = content[q] /\ base'[q] = base[q]
      /\ base'[r] = IF Touched(r) THEN base[r] ELSE Nothing
      /\ Touched(r) => base' = base
  BY <1>1, Facts DEF Finalise, Untouched
<1>4. /\ pithos \in Resource /\ pithosCfg \in Resource /\ Objects \subseteq Resource
      /\ r # pithosCfg /\ r # cassandraCfg
  BY <1>2, Facts, ObjectFacts, HookAssumption, ObjectAssumption
<1>5. \A q : Logged(q)' <=> Logged(q)
  BY <1>2 DEF Logged
<1>6. \A q \in Resource : content'[q] = IF q = r THEN Nothing ELSE content[q]
  BY <1>3
<1>7. ShellInv' /\ LinesInv' /\ ItemsInv'
  BY <1>2 DEF ScriptInv, ShellInv, Waiting, Current, LinesInv, OfLine, ItemsInv, Upserted
<1>8. WorkInv'
  <2>1. step \in {"delete", "create", "log"} => task.res \in Resource
    BY TaskType DEF DeepInd, Working
  <2> QED
    BY <1>2, <1>6, <2>1 DEF ScriptInv, WorkInv
<1>9. DoneInv'
  <2> SUFFICES ASSUME Waiting, step = "idle", Current.name \in {"delete", "upsert"}
               PROVE  /\ Current.res \in Resource
                      /\ result = "ok" => Current.res # r
    BY <1>2, <1>5, <1>6 DEF ScriptInv, DoneInv, Waiting, Current
  <2>1. line \in DOMAIN Script /\ Current = Script[line]
    BY DEF Waiting, DeepInd, HookInd, Current
  <2> QED
    BY <1>2, <1>4, <2>1, Lines DEF ScriptInv, DoneInv
<1>10. ObjectsInv'
  <2>1. {pithos, legacy, cassandraCfg, pithosCfg, alterJob, cassandra} \subseteq Resource
    BY HookAssumption
  <2>2. ASSUME NEW q \in Resource, NEW d, NEW u, Replaced(q, d, u)
        PROVE  Replaced(q, d, u)'
    BY <1>2, <1>6, <2>2 DEF Replaced
  <2>3. hook = "update" =>
            Replaced(pithos, 2, 11)' /\ Replaced(cassandraCfg, 4, 9)' /\ Replaced(alterJob, 6, 13)'
    BY <1>2, <2>1, <2>2 DEF ScriptInv, ObjectsInv
  <2>4. content'[pithosCfg] = content[pithosCfg]
        /\ (content[legacy] = Nothing => content'[legacy] = Nothing)
    BY <1>4, <1>6, <2>1
  <2>5. hook = "update" /\ line > 8 => cassandra \notin dying' /\ Logged(cassandra)'
                                     /\ content'[cassandra] = content[cassandra]
    BY <1>2, <1>5, <1>6, <2>1 DEF ScriptInv, ObjectsInv
  <2>6. line \in 1 .. 16
    BY Facts
  <2> QED
    BY <1>2, <2>3, <2>4, <2>5, <2>6 DEF ScriptInv, ObjectsInv
<1>11. BaseInv'
  BY <1>2, <1>3, <1>4, <1>5, ObjectFacts DEF ScriptInv, BaseInv, Runs
<1>12. PithosInv'
  <2>1. CASE r = pithos
    BY <1>3, <2>1, ObjectFacts DEF PithosInv, Runs
  <2>2. CASE r # pithos
    BY <1>2, <1>3, <1>4, <2>2 DEF ScriptInv, PithosInv, Upserted
  <2> QED
    BY <2>1, <2>2
<1>13. FirstInv'
  <2>1. updates = 1 => Touched(r)
    BY <1>2 DEF ScriptInv, FirstInv, Touched
  <2> QED
    BY <1>2, <1>3, <1>5, <2>1 DEF ScriptInv, FirstInv
<1>14. RevertedInv'
  <2>1. ASSUME status = "reverted", NEW q \in Resource PROVE Settled(q)'
    <3>1. step # "record" /\ Settled(q)
      BY <1>2, <2>1 DEF DeepInd, IInv, TaskInv, ScriptInv, RevertedInv
    <3> QED
      BY <1>2, <1>3, <1>5, <3>1 DEF Settled, Touched
  <2> QED
    BY <1>2, <2>1 DEF ScriptInv, RevertedInv
<1> QED
  BY <1>7, <1>8, <1>9, <1>10, <1>11, <1>12, <1>13, <1>14 DEF ScriptInv

\* A command that stops before it has logged anything saw Pithos with its configuration.
LEMMA AbortScript == ASSUME DeepInd, Abort, UNCHANGED hookOnly PROVE ScriptInv'
<1> USE DEF hookOnly, cluster, log
<1>1. /\ UNCHANGED <<hook, line, shell, updates, wide, miscounted, original>>
      /\ UNCHANGED <<content, dying, status, items, author>>
      /\ ScriptInv /\ step # "idle" /\ step' = "idle" /\ task' = NoTask /\ result' = "error"
      /\ hook \in {"update", "rollback"} /\ status # "reverted" /\ NoTask.kind # "revert"
  BY AtWork DEF Abort, End, DeepInd, IInv, TaskInv, NoTask
<1>2. \/ base' = base
      \/ /\ step = "record" /\ ~Logged(task.res) /\ task.res \in Resource
         /\ base' = [base EXCEPT ![task.res] = content[task.res]]
         /\ hook = "update"
  <2>1. CASE step # "record" \/ Logged(task.res)
    BY <2>1, Facts DEF Abort
  <2>2. CASE step = "record" /\ ~Logged(task.res)
    BY <2>2, AtWork DEF Abort, DeepInd, IInv, TaskInv
  <2> QED
    BY <2>1, <2>2
<1>3. \A q : Logged(q)' <=> Logged(q)
  BY <1>1 DEF Logged
<1>4. (ShellInv /\ WorkInv /\ DoneInv)'
  BY <1>1 DEF ScriptInv, ShellInv, WorkInv, DoneInv, Waiting, Current
<1>5. (ObjectsInv /\ LinesInv /\ ItemsInv)'
  BY <1>1, <1>3 DEF ScriptInv, ObjectsInv, Replaced, LinesInv, OfLine, ItemsInv, Upserted
<1>6. pithos \in Resource /\ pithosCfg \in Resource /\ pithos # pithosCfg
  BY HookAssumption, ObjectAssumption
<1>7. ASSUME base' # base
      PROVE  /\ base'[pithosCfg] = base[pithosCfg]
             /\ base'[pithos] = base[pithos] \/ base'[pithos] = content[pithos]
             /\ Runs(base'[pithos]) => base'[pithosCfg] = base'[pithos]
  <2>1. /\ hook = "update" /\ step = "record" /\ ~Logged(task.res) /\ task.res \in Resource
        /\ base' = [base EXCEPT ![task.res] = content[task.res]]
        /\ base \in [Resource -> Held]
    BY <1>2, <1>7, Facts
  <2>2. base'[pithosCfg] = base[pithosCfg]
    BY <1>1, <1>6, <2>1 DEF ScriptInv, BaseInv
  <2>3. CASE task.res # pithos
    BY <1>1, <1>6, <2>1, <2>2, <2>3 DEF ScriptInv, BaseInv
  <2>4. CASE task.res = pithos
    <3>1. line \in {2, 11} /\ base'[pithos] = content[pithos]
      BY <1>1, <1>6, <2>1, <2>4, Forwards, Lines
    <3>2. CASE line = 11
      <4>1. content[pithos] = Nothing
        BY <1>1, <2>1, <3>2 DEF ScriptInv, ObjectsInv, Replaced
      <4> QED
        BY <2>2, <3>1, <4>1, ObjectFacts DEF Runs
    <3>3. CASE line = 2
      <4>1. content[pithosCfg] = base[pithosCfg]
        BY <1>1, <2>1, <3>3, FirstItem DEF ScriptInv, BaseInv, Logged
      <4>2. author[pithos] # "lost"
        BY <1>1, <1>6, <2>1 DEF ScriptInv, WorkInv
      <4>3. Runs(content[pithos]) => pithos \notin dying
        BY <1>1, <4>2, ObjectFacts DEF ScriptInv, BaseInv, Runs
      <4>4. Runs(content[pithos]) => content[pithosCfg] = content[pithos]
        BY <1>1, <4>3 DEF ScriptInv, PithosInv
      <4> QED
        BY <2>2, <3>1, <4>1, <4>4
    <3> QED
      BY <3>1, <3>2, <3>3
  <2> QED
    BY <2>1, <2>2, <2>3, <2>4, <1>6
<1>8. BaseInv'
  BY <1>1, <1>3, <1>7 DEF ScriptInv, BaseInv
<1>9. PithosInv'
  BY <1>1, <1>7 DEF ScriptInv, PithosInv, Upserted
<1>10. FirstInv'
  <2>1. updates = 1 => base' = base
    <3> SUFFICES ASSUME updates = 1, base' # base PROVE FALSE
      OBVIOUS
    <3>1. /\ ~Logged(task.res) /\ task.res \in Resource
          /\ base' = [base EXCEPT ![task.res] = content[task.res]]
          /\ base \in [Resource -> Held]
      BY <1>2, Facts
    <3>2. content[task.res] = base[task.res]
      BY <1>1, <3>1 DEF ScriptInv, FirstInv
    <3> QED
      BY <3>1, <3>2
  <2> QED
    BY <1>1, <1>3, <2>1 DEF ScriptInv, FirstInv
<1>11. RevertedInv'
  BY <1>1 DEF RevertedInv
<1> QED
  BY <1>4, <1>5, <1>8, <1>9, <1>10, <1>11 DEF ScriptInv

(***************************************************************************)
(* The invariant.                                                          *)
(***************************************************************************)
LEMMA DeepInit == HookInit => DeepInd
<1> SUFFICES ASSUME HookInit PROVE DeepInd
  OBVIOUS
<1>1. /\ IInv /\ HookInd /\ DOMAIN items = {} /\ items = <<>>
      /\ step = "idle" /\ status = "absent" /\ dying = {} /\ task = NoTask
      /\ \A r \in Resource : author[r] = "other"
      /\ base = content /\ original = content
      /\ hook = "update" /\ line = 1 /\ shell = "ready" /\ updates = 1
  BY InitInv, HookInitInd, EmptySeq DEF HookInit, Init
<1>2. \A r \in Objects \ {legacy, alterJob} : content[r] = old
  BY ObjectFacts DEF HookInit
<1>3. OpInv /\ CompletedInv
  BY <1>1 DEF OpInv, OpWorking, Working, CompletedInv
<1>4. (ShellInv /\ WorkInv /\ DoneInv /\ ObjectsInv /\ LinesInv /\ ItemsInv)
  BY <1>1 DEF ShellInv, WorkInv, DoneInv, Waiting, ObjectsInv, Replaced, LinesInv, ItemsInv
<1>5. content[pithos] = old /\ content[pithosCfg] = old
  BY <1>2, ObjectAssumption DEF Objects
<1>6. BaseInv /\ PithosInv
  BY <1>1, <1>5 DEF BaseInv, PithosInv, Logged
<1>7. FirstInv /\ RevertedInv
  BY <1>1, <1>2 DEF FirstInv, RevertedInv
<1> QED
  BY <1>1, <1>3, <1>4, <1>6, <1>7 DEF DeepInd, ScriptInv

LEMMA DeepNext == DeepInd /\ [HookNext]_hookVars => DeepInd'
<1> SUFFICES ASSUME DeepInd, [HookNext]_hookVars PROVE DeepInd'
  OBVIOUS
<1>1. [Next]_vars
  BY HookStep
<1>2. IInv'
  BY <1>1, NextInv DEF DeepInd
<1>3. (OpInv /\ CompletedInv)'
  BY <1>1, FreezeStep DEF DeepInd
<1>4. HookInd'
  BY HookNextInd DEF DeepInd
<1>5. ScriptInv'
  <2>1. CASE UNCHANGED hookVars
    BY <2>1, SameScript DEF hookVars, hookOnly, DeepInd
  <2>2. CASE DiscardNothing \/ RigStatus \/ StatusGivesUp \/ CommandEnds \/ UpdateEnds
             \/ RevertEnds \/ OperatorRollsBack \/ ContainerKilled \/ ComesUp
    BY <1>4, <2>2, ShellScript
  <2>3. CASE RigCommand
    BY <2>3, RigCommandScript
  <2>4. CASE PithosctlUpdate \/ KubectlScale
    BY <1>4, <2>4, OutsideScript
  <2>5. CASE RigRevert
    BY <2>5, RigRevertScript
  <2>6. CASE RigWorks
    <3>1. UNCHANGED hookOnly /\ Continue
      BY <2>6 DEF RigWorks
    <3> QED
      BY <3>1, RecordScript, ApplyScript, MarkScript, CloseScript DEF Continue
  <2>7. CASE Finalises
    BY <2>7, FinaliseScript
  <2>8. CASE RigStops
    BY <2>8, AbortScript DEF RigStops
  <2> QED
    BY <2>1, <2>2, <2>3, <2>4, <2>5, <2>6, <2>7, <2>8 DEF HookNext, Shell
<1> QED
  BY <1>2, <1>3, <1>4, <1>5 DEF DeepInd

LEMMA DeepAlways == HookSpec => []DeepInd
<1> QED
  BY DeepInit, DeepNext, PTL DEF HookSpec

\* Pithos never runs on the configuration of another release, nor without one: the
\* order of the deletes and upserts of entrypoint.sh, which the reversal turns round,
\* is enough, wherever containers stop and however often they start again.
THEOREM PithosAlwaysOnItsConfig == HookSpec => []PithosOnItsConfig
<1>1. DeepInd => PithosOnItsConfig
  BY DEF DeepInd, ScriptInv, PithosInv, Runs, PithosOnItsConfig
<1> QED
  BY <1>1, DeepAlways, PTL

\* A rollback of an update whose container was never restarted brings every object
\* of the old release back, pithos-cfg and the scaled StatefulSet included, which were
\* written outside the log.
THEOREM RollbackCorrect == HookSpec => []RolledBackMeansOld
<1>1. DeepInd => RolledBackMeansOld
  BY DEF DeepInd, ScriptInv, FirstInv, RevertedInv, Settled, RolledBackMeansOld
<1> QED
  BY <1>1, DeepAlways, PTL

\* The update Job succeeds only over the whole new release, however often its script
\* was started.
THEOREM UpdateCorrect == HookSpec => UpdatedMeansNew
<1> DEFINE Whole ==
        hook = "update" /\ hook' = "updated"
         => /\ status = "committed"
            /\ \A r \in {pithos, pithosCfg, cassandraCfg, alterJob} : content[r] = new
            /\ content[cassandra] = (IF wide /\ ~miscounted THEN scaled ELSE new)
            /\ content[legacy] = Nothing /\ dying = {}
<1>1. DeepInd /\ [HookNext]_hookVars => [Whole]_hookVars
  <2> SUFFICES ASSUME DeepInd, [HookNext]_hookVars, hook = "update", hook' = "updated"
               PROVE  Whole
    OBVIOUS
  <2>1. UpdateEnds
    BY DEF HookNext, Shell, RigCommand, DiscardNothing, PithosctlUpdate, KubectlScale,
           RigStatus, StatusGivesUp, CommandEnds, RigRevert, RevertEnds, RigWorks, Finalises,
           ComesUp, RigStops, ContainerKilled, OperatorRollsBack, NextLine, ExitContainer,
           hookVars, hookOnly
  <2>2. line = 16 /\ ObjectsInv
    BY <2>1, ScriptIs DEF UpdateEnds, DeepInd, ScriptInv
  <2>3. /\ content[pithos] = new /\ content[pithosCfg] = new /\ content[cassandraCfg] = new
        /\ content[alterJob] = new /\ content[legacy] = Nothing /\ status = "committed"
        /\ content[cassandra] = (IF wide /\ ~miscounted THEN scaled ELSE new)
        /\ pithos \notin dying /\ alterJob \notin dying /\ cassandra \notin dying
    BY <2>2 DEF ObjectsInv, Replaced
  <2>4. dying = {}
    BY <2>3, Facts
  <2> QED
    BY <2>3, <2>4
<1> QED
  BY <1>1, DeepAlways, PTL DEF HookSpec, UpdatedMeansNew
=============================================================================
