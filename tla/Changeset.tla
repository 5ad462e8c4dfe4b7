----------------------------- MODULE Changeset -----------------------------
(***************************************************************************)
(* A rig changeset: a log, kept in the Kubernetes API server, of what one  *)
(* rig command after another did to the objects of the cluster, so that    *)
(* the change can be rolled back.                                          *)
(*                                                                         *)
(* A rig command is a process of its own: it reads the log, appends an     *)
(* item "created", changes the object (several API calls for some kinds),  *)
(* and marks the item "completed".  It may stop after any API call, by a   *)
(* crash, an API error or a timeout; everything but its log and the        *)
(* objects is lost then.  Commands run one at a time, as the hook scripts  *)
(* run them; the API server removes objects on its own pace, and somebody  *)
(* else (kubectl, pithosctl) may write objects between two commands.       *)
(***************************************************************************)
EXTENDS Naturals, Sequences

CONSTANTS
    Resource,    \* names of Kubernetes objects
    Version,     \* what the content of an object can be
    Nothing,     \* in place of a content: the object does not exist
    Drained,     \* content of a Deployment scaled down to 0 replicas
    Recreated,   \* Jobs, StatefulSets, ...: upserting deletes and creates
    Scalable,    \* Deployments: deleting scales down first
    MaxItems,    \* bound: items of one changeset
    MaxAborts,   \* bound: rig commands that stop half-way
    MaxForeign   \* bound: writes by somebody else

ASSUME ContentAssumption ==
    /\ Nothing \notin Version /\ Drained \notin Version /\ Nothing # Drained
    /\ Nothing \notin Resource
ASSUME KindAssumption ==
    Recreated \subseteq Resource /\ Scalable \subseteq Resource \ Recreated
ASSUME BoundAssumption ==
    MaxItems \in Nat /\ MaxAborts \in Nat /\ MaxForeign \in Nat

VARIABLES
    content,     \* the cluster: what each object holds
    dying,       \* objects under foreground deletion, not yet removed
    status,      \* status of the changeset, "absent" if there is none
    items,       \* its log
    step, task,  \* the API call the running rig command makes next, and for what
    result,      \* how the last rig command ended
    base,        \* history: each object before the changeset first looked at it
    author,      \* history: who brought the object to its present content
    aborts, foreign

cluster == <<content, dying>>
log     == <<status, items>>
rig     == <<step, task, result>>
vars    == <<cluster, log, rig, base, author, aborts, foreign>>

Stored == Version \cup {Drained}
Held   == Stored \cup {Nothing}

Item == [res: Resource, from: Held, to: Version \cup {Nothing},
         status: {"created", "completed", "reverted"}]

Steps == {"idle", "record", "apply", "delete", "wait", "create", "log", "close"}

Task == [kind: {"none", "delete", "upsert", "revert"},
         res: Resource \cup {Nothing}, goal: Held, from: Held, at: Nat]

NoTask == [kind |-> "none", res |-> Nothing, goal |-> Nothing,
           from |-> Nothing, at |-> 0]

TypeOK ==
    /\ content \in [Resource -> Held]
    /\ dying \subseteq Resource
    /\ status \in {"absent", "in-progress", "committed", "reverted"}
    /\ items \in Seq(Item)
    /\ step \in Steps
    /\ task \in Task
    /\ result \in {"ok", "notfound", "error", "running"}
    /\ base \in [Resource -> Held]
    /\ author \in [Resource -> {"op", "revert", "other", "lost"}]
    /\ aborts \in Nat /\ foreign \in Nat

Logged(r) == \E i \in DOMAIN items : items[i].res = r

\* The changeset has looked at r, or is about to log what it saw.
Touched(r) == Logged(r) \/ (step = "record" /\ task.res = r)

----------------------------------------------------------------------------
(***************************************************************************)
(* Starting a command.                                                     *)
(***************************************************************************)
\* createOrRead followed by the status check.
Open ==
    /\ step = "idle"
    /\ status \in {"absent", "in-progress"}
    /\ Len(items) < MaxItems
    /\ status' = "in-progress"

Begin(kind, r, goal) ==
    /\ task' = [kind |-> kind, res |-> r, goal |-> goal, from |-> content[r],
                at |-> 0]
    /\ step' = "record"
    /\ result' = "running"

BeginDelete(r) ==
    /\ Open
    /\ content[r] # Nothing
    /\ Begin("delete", r, Nothing)
    /\ UNCHANGED <<cluster, items, base, author, aborts, foreign>>

\* The object is read before the item is logged: nothing is logged here.
DeleteNotFound(r) ==
    /\ Open
    /\ content[r] = Nothing
    /\ result' = "notfound"
    /\ UNCHANGED <<cluster, items, step, task, base, author, aborts, foreign>>

BeginUpsert(r, v) ==
    /\ Open
    /\ Begin("upsert", r, v)
    /\ UNCHANGED <<cluster, items, base, author, aborts, foreign>>

\* A delete or an upsert on a changeset that is frozen or reverted.
RefuseChange ==
    /\ step = "idle"
    /\ status \in {"committed", "reverted"}
    /\ result' = "error"
    /\ UNCHANGED <<cluster, log, step, task, base, author, aborts, foreign>>

\* Faulty: the two states of the object are swapped.
SwappedItem == [res |-> task.res, from |-> task.goal, to |-> task.from,
                status |-> "created"]

\* Faulty: an upsert that logs no previous state.
ItemWithoutFrom == [res |-> task.res, from |-> Nothing, to |-> task.goal,
                    status |-> "created"]

NewItem == [res |-> task.res, from |-> task.from, to |-> task.goal,
            status |-> "created"]

Record ==
    /\ step = "record"
    /\ items' = Append(items, NewItem)
    /\ task' = [task EXCEPT !.at = Len(items) + 1]
    /\ step' = "apply"
    /\ UNCHANGED <<cluster, status, result, base, author, aborts, foreign>>

----------------------------------------------------------------------------
(***************************************************************************)
(* What a command, or the reversal of an item, does to task.res: remove it *)
(* when task.goal is Nothing, otherwise put task.goal in its place.        *)
(***************************************************************************)
Removing == task.goal = Nothing

Present == content[task.res] # Nothing

Unlogged == UNCHANGED <<log, task, base, aborts, foreign>>

\* Reverting suppresses the NotFound error of a delete, a command fails.
RemoveMissing ==
    /\ \/ step = "apply" /\ Removing
       \/ step = "delete"
    /\ ~Present
    /\ IF task.kind = "revert"
       THEN /\ step' = "log"
            /\ author' = [author EXCEPT ![task.res] = "revert"]
            /\ UNCHANGED <<task, result>>
       ELSE /\ step' = "idle" /\ task' = NoTask /\ result' = "notfound"
            /\ UNCHANGED author
    /\ UNCHANGED <<cluster, log, base, aborts, foreign>>

By(r, kind) == author' = [author EXCEPT ![r] = kind]
Forward == IF task.kind = "revert" THEN "revert" ELSE "op"

ScaleDown ==
    /\ step = "apply" /\ Removing /\ Present
    /\ task.res \in Scalable
    /\ content' = [content EXCEPT ![task.res] = Drained]
    /\ By(task.res, Forward)
    /\ step' = "delete"
    /\ Unlogged /\ UNCHANGED <<dying, result>>

\* Foreground deletion: accepted now, carried out by the API server later.
RequestDeletion ==
    /\ \/ step = "delete"
       \/ step = "apply" /\ task.res \in Recreated
    /\ Present
    /\ dying' = dying \cup {task.res}
    /\ By(task.res, Forward)
    /\ step' = "wait"
    /\ Unlogged /\ UNCHANGED <<content, result>>

DeleteAtOnce ==
    /\ step = "apply" /\ Removing /\ Present
    /\ task.res \notin Recreated \cup Scalable
    /\ content' = [content EXCEPT ![task.res] = Nothing]
    /\ By(task.res, Forward)
    /\ step' = "log"
    /\ Unlogged /\ UNCHANGED <<dying, result>>

AwaitRemoval ==
    /\ step = "wait" /\ ~Present
    /\ step' = IF Removing THEN "log" ELSE "create"
    /\ Unlogged /\ UNCHANGED <<cluster, author, result>>

Create ==
    /\ \/ step = "create"
       \/ step = "apply" /\ ~Removing
    /\ ~Present
    /\ content' = [content EXCEPT ![task.res] = task.goal]
    /\ By(task.res, Forward)
    /\ step' = "log"
    /\ Unlogged /\ UNCHANGED <<dying, result>>

\* The API server accepts an update of an object that it is about to remove.
UpdateInPlace ==
    /\ step = "apply" /\ ~Removing /\ Present
    /\ task.res \notin Recreated
    /\ content' = [content EXCEPT ![task.res] = task.goal]
    /\ By(task.res, IF task.res \in dying THEN "lost" ELSE Forward)
    /\ step' = "log"
    /\ Unlogged /\ UNCHANGED <<dying, result>>

Apply ==
    \/ RemoveMissing \/ ScaleDown \/ RequestDeletion \/ DeleteAtOnce
    \/ AwaitRemoval \/ Create \/ UpdateInPlace

End(how) == step' = "idle" /\ task' = NoTask /\ result' = how

Complete ==
    /\ step = "log" /\ task.kind # "revert"
    /\ items' = [items EXCEPT ![task.at].status = "completed"]
    /\ End("ok")
    /\ UNCHANGED <<cluster, status, base, author, aborts, foreign>>

----------------------------------------------------------------------------
(***************************************************************************)
(* Reverting, freezing and deleting the changeset.                         *)
(***************************************************************************)
\* Faulty: items that did not complete are skipped, as the log line says.
SkippingRevertFrom(n) ==
    LET done == {i \in 1 .. n : items[i].status = "completed"}
        k == IF done = {} THEN 0 ELSE CHOOSE i \in done : \A j \in done : j <= i
    IN  IF k = 0
        THEN step' = "close" /\ task' = [NoTask EXCEPT !.kind = "revert"]
        ELSE /\ step' = "apply"
             /\ task' = [kind |-> "revert", res |-> items[k].res,
                         goal |-> items[k].from, from |-> items[k].from,
                         at |-> k]

\* Item n is next: it is brought back to what it was before, whatever its status.
RevertFrom(n) ==
    IF n = 0
    THEN step' = "close" /\ task' = [NoTask EXCEPT !.kind = "revert"]
    ELSE /\ step' = "apply"
         /\ task' = [kind |-> "revert", res |-> items[n].res,
                     goal |-> items[n].from, from |-> items[n].from,
                     at |-> n]

\* Faulty: a changeset that was frozen can not be reverted.
BeginRevertOpen ==
    /\ step = "idle"
    /\ status = "in-progress"
    /\ RevertFrom(Len(items))
    /\ result' = "running"
    /\ UNCHANGED <<cluster, log, base, author, aborts, foreign>>

BeginRevert ==
    /\ step = "idle"
    /\ status \in {"in-progress", "committed"}
    /\ RevertFrom(Len(items))
    /\ result' = "running"
    /\ UNCHANGED <<cluster, log, base, author, aborts, foreign>>

\* There is no changeset, or it has been reverted before.
RefuseRevert ==
    /\ step = "idle"
    /\ status \in {"absent", "reverted"}
    /\ result' = "error"
    /\ UNCHANGED <<cluster, log, step, task, base, author, aborts, foreign>>

ItemReverted ==
    /\ step = "log" /\ task.kind = "revert"
    /\ items' = [items EXCEPT ![task.at].status = "reverted"]
    /\ RevertFrom(task.at - 1)
    /\ UNCHANGED <<cluster, status, result, base, author, aborts, foreign>>

CloseReverted ==
    /\ step = "close"
    /\ status' = "reverted"
    /\ End("ok")
    /\ UNCHANGED <<cluster, items, base, author, aborts, foreign>>

\* Faulty: only the last item is looked at.
LastCompleted == items # <<>> => items[Len(items)].status = "completed"

AllCompleted == \A i \in DOMAIN items : items[i].status = "completed"

Freeze ==
    /\ step = "idle"
    /\ status = "in-progress" /\ AllCompleted
    /\ status' = "committed"
    /\ result' = "ok"
    /\ UNCHANGED <<cluster, items, step, task, base, author, aborts, foreign>>

RefuseFreeze ==
    /\ step = "idle"
    /\ status # "in-progress" \/ ~AllCompleted
    /\ result' = "error"
    /\ UNCHANGED <<cluster, log, step, task, base, author, aborts, foreign>>

\* Deleting the changeset forgets the log and leaves the objects as they are.
Discard ==
    /\ step = "idle"
    /\ status # "absent"
    /\ status' = "absent" /\ items' = <<>>
    /\ base' = content
    /\ author' = [r \in Resource |-> "other"]
    /\ result' = "ok"
    /\ UNCHANGED <<cluster, step, task, aborts, foreign>>

----------------------------------------------------------------------------
(***************************************************************************)
(* The surroundings.                                                       *)
(***************************************************************************)
Untouched(r, c) == base' = IF Touched(r) THEN base ELSE [base EXCEPT ![r] = c]

Finalise(r) ==
    /\ r \in dying
    /\ content' = [content EXCEPT ![r] = Nothing]
    /\ dying' = dying \ {r}
    /\ Untouched(r, Nothing)
    /\ UNCHANGED <<log, rig, author, aborts, foreign>>

ForeignWrite(r, c) ==
    /\ step = "idle" /\ foreign < MaxForeign
    /\ r \notin dying /\ c # content[r]
    /\ content' = [content EXCEPT ![r] = c]
    /\ Untouched(r, c)
    /\ By(r, "other")
    /\ foreign' = foreign + 1
    /\ UNCHANGED <<dying, log, rig, aborts>>

\* The command stops here: killed, an API call failed, or a wait timed out.
Abort ==
    /\ step # "idle" /\ aborts < MaxAborts
    /\ End("error")
    /\ aborts' = aborts + 1
    /\ base' = IF step = "record"
               THEN [base EXCEPT ![task.res] =
                        IF Logged(task.res) THEN @ ELSE content[task.res]]
               ELSE base
    /\ UNCHANGED <<cluster, log, author, foreign>>

----------------------------------------------------------------------------
Init ==
    /\ content \in [Resource -> Version \cup {Nothing}]
    /\ dying = {}
    /\ status = "absent" /\ items = <<>>
    /\ step = "idle" /\ task = NoTask /\ result = "ok"
    /\ base = content
    /\ author = [r \in Resource |-> "other"]
    /\ aborts = 0 /\ foreign = 0

Start ==
    \/ \E r \in Resource : BeginDelete(r) \/ DeleteNotFound(r)
    \/ \E r \in Resource, v \in Version : BeginUpsert(r, v)
    \/ RefuseChange \/ BeginRevert \/ RefuseRevert
    \/ Freeze \/ RefuseFreeze \/ Discard

Continue == Record \/ Apply \/ Complete \/ ItemReverted \/ CloseReverted

Surroundings ==
    \/ \E r \in Resource : Finalise(r)
    \/ \E r \in Resource, c \in Version \cup {Nothing} : ForeignWrite(r, c)
    \/ Abort

Next == Start \/ Continue \/ Surroundings

Spec == Init /\ [][Next]_vars

----------------------------------------------------------------------------
(***************************************************************************)
(* What a changeset is for.                                                *)
(***************************************************************************)
First(i) == \A j \in 1 .. (i - 1) : items[j].res # items[i].res
Last(i)  == \A j \in (i + 1) .. Len(items) : items[j].res # items[i].res

\* At every moment, whatever stopped half-way, the log can bring the cluster
\* back: the first item of an object holds what the object was before the
\* changeset, and an object without an item is still what it was
\* (withDeleteOp and withUpsertOp save the item before they touch the object).
Restorable ==
    /\ \A i \in DOMAIN items : First(i) => items[i].from = base[items[i].res]
    /\ \A r \in Resource : ~Touched(r) => content[r] = base[r]

\* When Revert marks the changeset reverted, every object is back to what it
\* was before the changeset, even after reversals that stopped half-way and
\* after commands that did not complete.  The exception is an update that the
\* API server took on an object it was about to remove.
RevertRestores ==
    [][status # "reverted" /\ status' = "reverted"
         => \A r \in Resource : author[r] = "lost" \/ content[r] = base[r]]_vars

\* When Freeze commits the changeset, each object that a command wrote last
\* holds what the last item about it says: no commit over a half-made change.
FreezeMatchesCluster ==
    [][status # "committed" /\ status' = "committed"
         => \A i \in DOMAIN items :
                Last(i) /\ author[items[i].res] = "op"
                  => content[items[i].res] = items[i].to]_vars

\* "Revert rolls back all the operations in reverse order they were applied"
\* (changeset.go:287): the same as RevertRestores, without the exception.
RevertRollsBackAll ==
    [][status # "reverted" /\ status' = "reverted"
         => \A r \in Resource :
                Logged(r) => r \notin dying /\ content[r] = base[r]]_vars

\* "skipping changeset item ..., status: ... is not the expected completed"
\* (changeset.go:306): an item that did not complete is not reverted.
IncompleteItemsSkipped ==
    [][\A i \in DOMAIN items \cap DOMAIN items' :
           items[i].status = "created" => items'[i].status # "reverted"]_vars

----------------------------------------------------------------------------
(***************************************************************************)
(* The inductive invariant behind Restorable and RevertRestores.           *)
(***************************************************************************)
Working == step \in {"apply", "delete", "wait", "create", "log"}

\* What the running command holds in memory agrees with the log.
TaskInv ==
    /\ step = "idle" => task = NoTask
    /\ step # "idle" => status \in {"in-progress", "committed"}
    /\ step = "record" =>
           /\ task.kind # "revert" /\ task.res \in Resource
           /\ task.goal \in Version \cup {Nothing}
           /\ ~Logged(task.res) => task.from = base[task.res]
    /\ Working =>
           /\ task.at \in DOMAIN items /\ task.res = items[task.at].res
           /\ task.kind = "revert" => task.goal = items[task.at].from
    /\ step = "delete" => task.res \in Scalable /\ task.goal = Nothing
    /\ step = "close" => task.kind = "revert" /\ task.at = 0

LogInv == status = "absent" => items = <<>>

\* Only kinds deleted in the foreground are ever marked, and only while there.
DyingInv ==
    dying \subseteq {r \in Recreated \cup Scalable : content[r] # Nothing}

Settled(r) ==
    \/ author[r] = "lost"
    \/ content[r] = base[r] /\ (Logged(r) => r \notin dying)

\* An object all of whose items the running reversal has dealt with is back.
ReversalInv ==
    task.kind = "revert" =>
        /\ \A r \in Resource :
               (\A i \in 1 .. task.at : items[i].res # r) => Settled(r)
        /\ step = "log" =>
               \/ author[task.res] = "lost"
               \/ content[task.res] = task.goal /\ task.res \notin dying

IInv == TypeOK /\ TaskInv /\ LogInv /\ DyingInv /\ Restorable /\ ReversalInv
=============================================================================
