-------------------------- MODULE ChangesetProofs --------------------------
(***************************************************************************)
(* Type correctness, Restorable, RevertRestores and FreezeMatchesCluster   *)
(* for every set of objects, every log length and any number of commands   *)
(* that stop half-way.  The first three follow from the inductive          *)
(* invariant IInv of module Changeset, the last also needs what the log    *)
(* says of completed changes.                                              *)
(***************************************************************************)
EXTENDS ChangesetRefinement, SequenceTheorems, WellFoundedInduction, TLAPS

(***************************************************************************)
(* Sequences of items.                                                     *)
(***************************************************************************)
\* Marking an item changes neither the length of the log nor what any item
\* says of its object (the update of op.Status in Revert and in withDeleteOp).
LEMMA MarkItem ==
  ASSUME NEW s \in Seq(Item), NEW k \in DOMAIN s,
         NEW st \in {"created", "completed", "reverted"},
         NEW t, t = [s EXCEPT ![k].status = st]
  PROVE  /\ t \in Seq(Item)
         /\ Len(t) = Len(s) /\ DOMAIN t = DOMAIN s
         /\ \A i \in DOMAIN s : /\ t[i].res = s[i].res /\ t[i].from = s[i].from
                               /\ t[i].to = s[i].to
<1> DEFINE e == [s[k] EXCEPT !.status = st]
<1>1. k \in 1 .. Len(s) /\ DOMAIN s = 1 .. Len(s)
  BY LenProperties
<1>2. s[k] \in Item
  BY <1>1, ElementOfSeq
<1>3. e \in Item /\ e.res = s[k].res /\ e.from = s[k].from /\ e.to = s[k].to
  BY <1>2 DEF Item
<1> DEFINE u == [s EXCEPT ![k] = e]
<1>4. u \in Seq(Item) /\ Len(u) = Len(s)
      /\ \A j \in 1 .. Len(s) : u[j] = IF j = k THEN e ELSE s[j]
  BY <1>1, <1>3, ExceptSeq
<1>5. \A i \in DOMAIN s : /\ u[i].res = s[i].res /\ u[i].from = s[i].from
                          /\ u[i].to = s[i].to
  BY <1>1, <1>3, <1>4
<1>6. t = u
  OBVIOUS
<1>7. DOMAIN u = DOMAIN s
  BY <1>1, <1>4, LenProperties
<1> QED
  BY <1>4, <1>5, <1>6, <1>7

(***************************************************************************)
(* The initial states.                                                     *)
(***************************************************************************)
LEMMA InitInv == Init => IInv
<1> SUFFICES ASSUME Init PROVE IInv
  OBVIOUS
<1> USE DEF Init
<1>1. items \in Seq(Item) /\ DOMAIN items = {}
  BY EmptySeq
<1>2. TypeOK
  <2>1. NoTask \in Task
    BY DEF NoTask, Task, Held
  <2> QED
    BY <1>1, <2>1, BoundAssumption DEF TypeOK, Steps, Held, Stored
<1>3. TaskInv
  BY DEF TaskInv, Working
<1>4. Restorable
  BY <1>1 DEF Restorable
<1>5. ReversalInv
  BY DEF ReversalInv, NoTask
<1> QED
  BY <1>2, <1>3, <1>4, <1>5 DEF IInv, LogInv, DyingInv

(***************************************************************************)
(* Starting a command.                                                     *)
(***************************************************************************)
\* BeginDelete and BeginUpsert remember what the object is before it is logged.
LEMMA BeginInv ==
  ASSUME IInv, NEW r \in Resource, NEW goal \in Version \cup {Nothing},
         NEW kind \in {"delete", "upsert"},
         Open, Begin(kind, r, goal),
         UNCHANGED <<cluster, items, base, author, aborts, foreign>>
  PROVE  IInv'
<1> USE DEF cluster, Open, Begin
<1>1. TypeOK /\ TaskInv /\ LogInv /\ DyingInv /\ Restorable /\ ReversalInv
  BY DEF IInv
<1>2. TypeOK'
  <2>1. content[r] \in Held
    BY <1>1 DEF TypeOK
  <2>2. goal \in Held
    BY DEF Held, Stored
  <2>3. task' \in Task
    BY <2>1, <2>2 DEF Task
  <2> QED
    BY <1>1, <2>3 DEF TypeOK, Steps
<1>3. ~Logged(r) => content[r] = base[r]
  BY <1>1 DEF Restorable, Touched
<1>4. TaskInv'
  BY <1>3 DEF TaskInv, Working, Logged
<1>5. Restorable'
  BY <1>1 DEF Restorable, Touched, Logged, First
<1>6. ReversalInv'
  BY DEF ReversalInv
<1> QED
  BY <1>1, <1>2, <1>4, <1>5, <1>6 DEF IInv, LogInv, DyingInv

\* Commands that end at once: nothing but the changeset's status and the exit
\* status of the command may change.
LEMMA IdleInv ==
  ASSUME IInv, step = "idle",
         status' \in {"in-progress", "committed", "reverted"} \/ status' = status,
         result' \in {"ok", "notfound", "error", "running"},
         UNCHANGED <<cluster, items, step, task, base, author, aborts, foreign>>
  PROVE  IInv'
<1> USE DEF cluster
<1>1. TypeOK /\ TaskInv /\ LogInv /\ DyingInv /\ Restorable /\ ReversalInv
  BY DEF IInv
<1>2. TypeOK'
  BY <1>1 DEF TypeOK
<1>3. TaskInv'
  BY <1>1 DEF TaskInv, Working
<1>4. Restorable'
  BY <1>1 DEF Restorable, Touched, Logged, First
<1>5. ReversalInv'
  BY <1>1 DEF ReversalInv, TaskInv, NoTask
<1>6. LogInv'
  BY <1>1 DEF LogInv, TypeOK
<1> QED
  BY <1>1, <1>2, <1>3, <1>4, <1>5, <1>6 DEF IInv, DyingInv

\* Record: the item saves what the object was when the command read it.
LEMMA RecordInv == IInv /\ Record => IInv'
<1> SUFFICES ASSUME IInv, Record PROVE IInv'
  OBVIOUS
<1> USE DEF cluster, Record
<1>1. TypeOK /\ TaskInv /\ LogInv /\ DyingInv /\ Restorable /\ ReversalInv
  BY DEF IInv
<1>2. /\ task.kind # "revert" /\ task.res \in Resource /\ task.from \in Held
      /\ task.goal \in Version \cup {Nothing}
      /\ ~Logged(task.res) => task.from = base[task.res]
  BY <1>1 DEF TaskInv, TypeOK, Task
<1>3. NewItem \in Item
  BY <1>2 DEF NewItem, Item
<1>4. /\ items' \in Seq(Item) /\ Len(items') = Len(items) + 1
      /\ \A i \in 1 .. Len(items) : items'[i] = items[i]
      /\ items'[Len(items) + 1] = NewItem
  BY <1>1, <1>3, AppendProperties DEF TypeOK
<1>5. DOMAIN items = 1 .. Len(items) /\ DOMAIN items' = 1 .. (Len(items) + 1)
      /\ Len(items) \in Nat
  BY <1>1, <1>4, LenProperties DEF TypeOK
<1>6. task' \in Task /\ task'.kind = task.kind /\ task'.res = task.res
      /\ task'.at = Len(items) + 1 /\ task'.goal = task.goal
  BY <1>1, <1>5 DEF TypeOK, Task
<1>7. TypeOK'
  BY <1>1, <1>4, <1>6 DEF TypeOK, Steps
<1>8. TaskInv'
  BY <1>1, <1>2, <1>4, <1>5, <1>6 DEF TaskInv, Working, NewItem
<1>9. \A i \in DOMAIN items : First(i)' <=> First(i)
  BY <1>4, <1>5 DEF First
<1>10. ASSUME NEW n \in Nat, n = Len(items) + 1, First(n)'
       PROVE  ~Logged(task.res)
  <2>1. \A j \in DOMAIN items : items[j].res # items'[n].res
    BY <1>10, <1>4, <1>5 DEF First
  <2>2. items'[n].res = task.res
    BY <1>10, <1>4 DEF NewItem
  <2> QED
    BY <2>1, <2>2 DEF Logged
<1>11. \A q \in Resource : Touched(q)' <=> Touched(q)
  BY <1>4, <1>5 DEF Touched, Logged, NewItem
<1>12. ASSUME NEW i \in DOMAIN items', First(i)'
       PROVE  items'[i].from = base'[items'[i].res]
  <2>1. CASE i \in DOMAIN items
    BY <2>1, <1>1, <1>4, <1>5, <1>9, <1>12 DEF Restorable
  <2>2. CASE i = Len(items) + 1
    <3>1. items'[i] = NewItem
      BY <2>2, <1>4
    <3>2. ~Logged(task.res)
      BY <2>2, <1>5, <1>10, <1>12
    <3> QED
      BY <3>1, <3>2, <1>2 DEF NewItem
  <2> QED
    BY <2>1, <2>2, <1>5
<1>13. Restorable'
  BY <1>1, <1>11, <1>12 DEF Restorable
<1>14. ReversalInv'
  BY <1>2, <1>6 DEF ReversalInv
<1>15. LogInv'
  BY <1>1 DEF LogInv, TaskInv
<1> QED
  BY <1>1, <1>7, <1>8, <1>13, <1>14, <1>15 DEF IInv, DyingInv

(***************************************************************************)
(* Changing the object.                                                    *)
(***************************************************************************)
\* What the API calls on task.res have in common: the log and every other
\* object stay as they are, and a call that ends the reversal of an item
\* leaves the object as the item says, or is an update that is lost.
LEMMA ObjectInv ==
  ASSUME IInv, Working, Unlogged, result' = result, status' = status,
         step' \in {"delete", "wait", "create", "log"},
         step' = "delete" => task.res \in Scalable /\ task.goal = Nothing,
         content' \in [Resource -> Held],
         author' \in [Resource -> {"op", "revert", "other", "lost"}],
         dying' \subseteq {r \in Recreated \cup Scalable : content'[r] # Nothing},
         \A r \in Resource \ {task.res} :
             /\ content'[r] = content[r] /\ author'[r] = author[r]
             /\ r \in dying' <=> r \in dying,
         task.kind = "revert" /\ step' = "log" =>
             \/ author'[task.res] = "lost"
             \/ content'[task.res] = task.goal /\ task.res \notin dying'
  PROVE  IInv'
<1> USE DEF Unlogged, log
<1>1. TypeOK /\ TaskInv /\ LogInv /\ DyingInv /\ Restorable /\ ReversalInv
  BY DEF IInv
<1>2. step # "record" /\ step # "idle"
  BY DEF Working
<1>3. task.at \in DOMAIN items /\ task.res = items[task.at].res
      /\ (task.kind = "revert" => task.goal = items[task.at].from)
  BY <1>1 DEF TaskInv
<1>4. DyingInv'
  BY DEF DyingInv
<1>5. TypeOK'
  BY <1>1, <1>4, KindAssumption DEF TypeOK, Steps, DyingInv
<1>6. TaskInv'
  BY <1>1, <1>2 DEF TaskInv, Working
<1>7. Logged(task.res)
  BY <1>3 DEF Logged
<1>8. \A r \in Resource : Touched(r)' <=> Touched(r)
  BY <1>2 DEF Touched, Logged
<1>9. Restorable'
  BY <1>1, <1>7, <1>8 DEF Restorable, Touched, First
<1>10. ASSUME task.kind = "revert", NEW r \in Resource,
              \A j \in 1 .. task.at : items[j].res # r
       PROVE  Settled(r)'
  <2>1. task.at \in 1 .. task.at
    BY <1>1, <1>3, LenProperties DEF TypeOK
  <2>2. r # task.res
    BY <2>1, <1>3, <1>10
  <2>3. Settled(r)
    BY <1>1, <1>10 DEF ReversalInv
  <2> QED
    BY <2>2, <2>3 DEF Settled, Logged
<1>11. ReversalInv'
  BY <1>10 DEF ReversalInv
<1> QED
  BY <1>1, <1>4, <1>5, <1>6, <1>9, <1>11 DEF IInv, LogInv

\* The object named by a running command is one of the cluster's, and what the
\* command wants it to hold is a content the API server can store.
LEMMA TaskType ==
  ASSUME IInv, Working
  PROVE  task.res \in Resource /\ task.goal \in Held
         /\ Forward \in {"op", "revert"}
<1>1. TypeOK /\ TaskInv
  BY DEF IInv
<1>2. task.at \in 1 .. Len(items) /\ task.res = items[task.at].res
  BY <1>1, LenProperties DEF TypeOK, TaskInv
<1>3. items[task.at] \in Item
  BY <1>1, <1>2, ElementOfSeq DEF TypeOK
<1> QED
  BY <1>1, <1>2, <1>3 DEF Item, TypeOK, Task, Forward

LEMMA ScaleDownInv == IInv /\ ScaleDown => IInv'
<1> SUFFICES ASSUME IInv, ScaleDown PROVE IInv'
  OBVIOUS
<1>1. Working /\ TypeOK /\ DyingInv
  BY DEF Working, ScaleDown, IInv
<1>2. task.res \in Resource /\ Forward \in {"op", "revert"}
  BY <1>1, TaskType
<1>3. Drained \in Held /\ Drained # Nothing
  BY ContentAssumption DEF Held, Stored
<1>4. content' \in [Resource -> Held] /\ content'[task.res] # Nothing
      /\ \A r \in Resource \ {task.res} : content'[r] = content[r]
  BY <1>1, <1>2, <1>3 DEF ScaleDown, TypeOK
<1>5. author' \in [Resource -> {"op", "revert", "other", "lost"}]
      /\ \A r \in Resource \ {task.res} : author'[r] = author[r]
  BY <1>1, <1>2 DEF ScaleDown, By, TypeOK
<1>6. dying' \subseteq {r \in Recreated \cup Scalable : content'[r] # Nothing}
  BY <1>1, <1>4, KindAssumption DEF ScaleDown, DyingInv
<1> QED
  BY <1>1, <1>4, <1>5, <1>6, ObjectInv DEF ScaleDown, Removing, Unlogged, log

LEMMA RequestDeletionInv == IInv /\ RequestDeletion => IInv'
<1> SUFFICES ASSUME IInv, RequestDeletion PROVE IInv'
  OBVIOUS
<1>1. Working /\ TypeOK /\ DyingInv
  BY DEF Working, RequestDeletion, IInv
<1>2. task.res \in Resource /\ Forward \in {"op", "revert"}
  BY <1>1, TaskType
<1>3. author' \in [Resource -> {"op", "revert", "other", "lost"}]
      /\ \A r \in Resource \ {task.res} : author'[r] = author[r]
  BY <1>1, <1>2 DEF RequestDeletion, By, TypeOK
<1>4. dying' \subseteq {r \in Recreated \cup Scalable : content'[r] # Nothing}
  <2>1. task.res \in Recreated \cup Scalable
    BY DEF RequestDeletion, IInv, TaskInv
  <2> QED
    BY <1>1, <2>1 DEF RequestDeletion, Present, DyingInv
<1> QED
  BY <1>1, <1>3, <1>4, ObjectInv DEF RequestDeletion, Unlogged, log, TypeOK

LEMMA DeleteAtOnceInv == IInv /\ DeleteAtOnce => IInv'
<1> SUFFICES ASSUME IInv, DeleteAtOnce PROVE IInv'
  OBVIOUS
<1>1. Working /\ TypeOK /\ DyingInv
  BY DEF Working, DeleteAtOnce, IInv
<1>2. task.res \in Resource /\ Forward \in {"op", "revert"}
  BY <1>1, TaskType
<1>3. content' \in [Resource -> Held] /\ content'[task.res] = Nothing
      /\ \A r \in Resource \ {task.res} : content'[r] = content[r]
  BY <1>1, <1>2 DEF DeleteAtOnce, TypeOK, Held
<1>4. author' \in [Resource -> {"op", "revert", "other", "lost"}]
      /\ \A r \in Resource \ {task.res} : author'[r] = author[r]
  BY <1>1, <1>2 DEF DeleteAtOnce, By, TypeOK
<1>5. task.res \notin dying /\ dying' = dying
  BY <1>1 DEF DeleteAtOnce, DyingInv
<1>6. dying' \subseteq {r \in Recreated \cup Scalable : content'[r] # Nothing}
  BY <1>1, <1>3, <1>5, KindAssumption DEF DyingInv
<1> QED
  BY <1>1, <1>3, <1>4, <1>5, <1>6, ObjectInv DEF DeleteAtOnce, Unlogged, log, Removing

LEMMA AwaitRemovalInv == IInv /\ AwaitRemoval => IInv'
<1> SUFFICES ASSUME IInv, AwaitRemoval PROVE IInv'
  OBVIOUS
<1>1. Working /\ TypeOK /\ DyingInv
  BY DEF Working, AwaitRemoval, IInv
<1>2. content' = content /\ author' = author /\ dying' = dying
  BY DEF AwaitRemoval, cluster
<1>3. content[task.res] = Nothing /\ task.res \notin dying
  BY <1>1 DEF AwaitRemoval, Present, DyingInv
<1>4. step' = "log" => content'[task.res] = task.goal
  BY <1>2, <1>3 DEF AwaitRemoval, Removing
<1> QED
  BY <1>1, <1>2, <1>3, <1>4, ObjectInv DEF AwaitRemoval, Unlogged, log, TypeOK, DyingInv

LEMMA CreateInv == IInv /\ Create => IInv'
<1> SUFFICES ASSUME IInv, Create PROVE IInv'
  OBVIOUS
<1>1. Working /\ TypeOK /\ DyingInv
  BY DEF Working, Create, IInv
<1>2. task.res \in Resource /\ task.goal \in Held /\ Forward \in {"op", "revert"}
  BY <1>1, TaskType
<1>3. content' \in [Resource -> Held] /\ content'[task.res] = task.goal
      /\ \A r \in Resource \ {task.res} : content'[r] = content[r]
  BY <1>1, <1>2 DEF Create, TypeOK
<1>4. author' \in [Resource -> {"op", "revert", "other", "lost"}]
      /\ \A r \in Resource \ {task.res} : author'[r] = author[r]
  BY <1>1, <1>2 DEF Create, By, TypeOK
<1>5. task.res \notin dying /\ dying' = dying
  BY <1>1 DEF Create, Present, DyingInv
<1>6. dying' \subseteq {r \in Recreated \cup Scalable : content'[r] # Nothing}
  BY <1>1, <1>3, <1>5, KindAssumption DEF DyingInv
<1> QED
  BY <1>1, <1>3, <1>4, <1>5, <1>6, ObjectInv DEF Create, Unlogged, log

LEMMA UpdateInPlaceInv == IInv /\ UpdateInPlace => IInv'
<1> SUFFICES ASSUME IInv, UpdateInPlace PROVE IInv'
  OBVIOUS
<1>1. Working /\ TypeOK /\ DyingInv
  BY DEF Working, UpdateInPlace, IInv
<1>2. task.res \in Resource /\ task.goal \in Held /\ Forward \in {"op", "revert"}
  BY <1>1, TaskType
<1>3. content' \in [Resource -> Held] /\ content'[task.res] = task.goal
      /\ task.goal # Nothing
      /\ \A r \in Resource \ {task.res} : content'[r] = content[r]
  BY <1>1, <1>2 DEF UpdateInPlace, Removing, TypeOK
<1>4. author' \in [Resource -> {"op", "revert", "other", "lost"}]
      /\ (\A r \in Resource \ {task.res} : author'[r] = author[r])
      /\ (task.res \in dying => author'[task.res] = "lost")
  BY <1>1, <1>2 DEF UpdateInPlace, By, TypeOK
<1>5. dying' \subseteq {r \in Recreated \cup Scalable : content'[r] # Nothing}
      /\ dying' = dying
  BY <1>1, <1>3, KindAssumption DEF DyingInv, UpdateInPlace
<1> QED
  BY <1>1, <1>3, <1>4, <1>5, ObjectInv DEF UpdateInPlace, Unlogged, log

(***************************************************************************)
(* Ending a command.                                                       *)
(***************************************************************************)
\* A command that ends other than before logging its item leaves the log and
\* the objects as they are.
LEMMA EndInv ==
  ASSUME IInv, step \notin {"idle", "record"}, NEW how \in {"ok", "notfound", "error"},
         End(how), status' \in {status, "reverted"},
         UNCHANGED <<cluster, items, base, author>>,
         aborts' \in Nat, foreign' = foreign
  PROVE  IInv'
<1> USE DEF cluster, End
<1>1. TypeOK /\ TaskInv /\ LogInv /\ DyingInv /\ Restorable
  BY DEF IInv
<1>2. NoTask \in Task /\ NoTask.kind # "revert"
  BY DEF NoTask, Task, Held
<1>3. TypeOK'
  BY <1>1, <1>2 DEF TypeOK, Steps
<1>4. TaskInv'
  BY DEF TaskInv, Working
<1>5. Restorable'
  BY <1>1 DEF Restorable, Touched, Logged, First
<1>6. ReversalInv'
  BY <1>2 DEF ReversalInv
<1> QED
  BY <1>1, <1>3, <1>4, <1>5, <1>6 DEF IInv, LogInv, DyingInv

LEMMA RemoveMissingInv == IInv /\ RemoveMissing => IInv'
<1> SUFFICES ASSUME IInv, RemoveMissing PROVE IInv'
  OBVIOUS
<1>1. Working /\ TypeOK /\ DyingInv /\ TaskInv
  BY DEF Working, RemoveMissing, IInv
<1>2. task.res \in Resource
  BY <1>1, TaskType
<1>3. content' = content /\ dying' = dying /\ status' = status /\ items' = items
  BY DEF RemoveMissing, cluster, log
<1>4. CASE task.kind = "revert"
  <2>1. author' \in [Resource -> {"op", "revert", "other", "lost"}]
        /\ \A r \in Resource \ {task.res} : author'[r] = author[r]
    BY <1>1, <1>2, <1>4 DEF RemoveMissing, TypeOK
  <2>2. content'[task.res] = task.goal /\ task.res \notin dying'
    BY <1>1, <1>3 DEF RemoveMissing, Present, Removing, TaskInv, DyingInv
  <2>3. Unlogged /\ result' = result /\ step' = "log"
    BY <1>4 DEF RemoveMissing, Unlogged
  <2> QED
    BY <1>1, <1>3, <2>1, <2>2, <2>3, ObjectInv DEF TypeOK, DyingInv
<1>5. CASE task.kind # "revert"
  BY <1>1, <1>3, <1>5, EndInv DEF RemoveMissing, End, TypeOK
<1> QED
  BY <1>4, <1>5

LEMMA CompleteInv == IInv /\ Complete => IInv'
<1> SUFFICES ASSUME IInv, Complete PROVE IInv'
  OBVIOUS
<1> USE DEF cluster, Complete, End
<1>1. TypeOK /\ TaskInv /\ LogInv /\ DyingInv /\ Restorable
  BY DEF IInv
<1>2. task.at \in DOMAIN items /\ items \in Seq(Item)
  BY <1>1 DEF TaskInv, Working, TypeOK
<1>3. /\ items' \in Seq(Item) /\ Len(items') = Len(items)
      /\ DOMAIN items' = DOMAIN items
      /\ \A i \in DOMAIN items :
            items'[i].res = items[i].res /\ items'[i].from = items[i].from
  <2>1. items' = [items EXCEPT ![task.at].status = "completed"]
    OBVIOUS
  <2> HIDE DEF Complete
  <2> QED
    BY <1>2, <2>1, MarkItem
<1>4. NoTask \in Task /\ NoTask.kind # "revert"
  BY DEF NoTask, Task, Held
<1>5. TypeOK'
  BY <1>1, <1>3, <1>4 DEF TypeOK, Steps
<1>6. TaskInv'
  BY DEF TaskInv, Working
<1>7. DOMAIN items = 1 .. Len(items) /\ Len(items) \in Nat
  BY <1>2, LenProperties
<1>8. \A i \in DOMAIN items : First(i)' <=> First(i)
  BY <1>3, <1>7 DEF First
<1>9. \A r \in Resource : Touched(r)' <=> Touched(r)
  BY <1>3 DEF Touched, Logged
<1>10. Restorable'
  BY <1>1, <1>3, <1>8, <1>9 DEF Restorable
<1>11. ReversalInv'
  BY <1>4 DEF ReversalInv
<1>12. LogInv'
  BY <1>1 DEF LogInv, TaskInv
<1> QED
  BY <1>1, <1>5, <1>6, <1>10, <1>11, <1>12 DEF IInv, DyingInv

\* The reversal of item n starts from what the log says about it.
LEMMA RevertFromTask ==
  ASSUME items \in Seq(Item), NEW n \in 0 .. Len(items), RevertFrom(n)
  PROVE  /\ task' \in Task /\ task'.kind = "revert" /\ task'.at = n
         /\ n = 0 => step' = "close"
         /\ n # 0 => /\ step' = "apply" /\ task'.res = items[n].res
                     /\ task'.goal = items[n].from
<1>1. CASE n = 0
  BY <1>1 DEF RevertFrom, NoTask, Task, Held
<1>2. CASE n # 0
  <2>1. n \in 1 .. Len(items) /\ n \in Nat
    BY <1>2, LenProperties
  <2>2. items[n] \in Item
    BY <2>1, ElementOfSeq
  <2>3. items[n].res \in Resource /\ items[n].from \in Held
    BY <2>2 DEF Item
  <2> QED
    BY <1>2, <2>1, <2>3 DEF RevertFrom, Task
<1> QED
  BY <1>1, <1>2

LEMMA BeginRevertInv == IInv /\ BeginRevert => IInv'
<1> SUFFICES ASSUME IInv, BeginRevert PROVE IInv'
  OBVIOUS
<1> USE DEF cluster, log, BeginRevert
<1>1. TypeOK /\ TaskInv /\ LogInv /\ DyingInv /\ Restorable
  BY DEF IInv
<1>2. Len(items) \in 0 .. Len(items) /\ DOMAIN items = 1 .. Len(items)
      /\ Len(items) \in Nat /\ items \in Seq(Item)
  BY <1>1, LenProperties DEF TypeOK
<1>3. /\ task' \in Task /\ task'.kind = "revert" /\ task'.at = Len(items)
      /\ Len(items) = 0 => step' = "close"
      /\ Len(items) # 0 => /\ step' = "apply"
                           /\ task'.res = items[Len(items)].res
                           /\ task'.goal = items[Len(items)].from
  BY <1>2, RevertFromTask
<1>4. step' \in {"close", "apply"}
  BY <1>3
<1>5. TypeOK'
  BY <1>1, <1>3, <1>4 DEF TypeOK, Steps
<1>6. TaskInv'
  BY <1>2, <1>3, <1>4 DEF TaskInv, Working
<1>7. Restorable'
  BY <1>1, <1>4 DEF Restorable, Touched, Logged, First
<1>8. ASSUME NEW r \in Resource, \A i \in 1 .. Len(items) : items[i].res # r
      PROVE  Settled(r)'
  <2>1. ~Logged(r)
    BY <1>2, <1>8 DEF Logged
  <2>2. content[r] = base[r]
    BY <1>1, <2>1 DEF Restorable, Touched
  <2> QED
    BY <2>1, <2>2 DEF Settled, Logged
<1>9. ReversalInv'
  BY <1>3, <1>4, <1>8 DEF ReversalInv
<1> QED
  BY <1>1, <1>5, <1>6, <1>7, <1>9 DEF IInv, LogInv, DyingInv

\* Items are reverted from the last to the first: after the first item of an
\* object the object is what it was, and no later reversal touches it again.
LEMMA ItemRevertedInv == IInv /\ ItemReverted => IInv'
<1> SUFFICES ASSUME IInv, ItemReverted PROVE IInv'
  OBVIOUS
<1> USE DEF cluster, ItemReverted
<1>1. TypeOK /\ TaskInv /\ LogInv /\ DyingInv /\ Restorable /\ ReversalInv
  BY DEF IInv
<1>2. /\ task.at \in DOMAIN items /\ task.res = items[task.at].res
      /\ task.goal = items[task.at].from /\ items \in Seq(Item)
  BY <1>1 DEF TaskInv, Working, TypeOK
<1>3. DOMAIN items = 1 .. Len(items) /\ Len(items) \in Nat
  BY <1>2, LenProperties
<1> DEFINE n == task.at - 1
<1>4. n \in 0 .. Len(items) /\ n \in Nat /\ task.at = n + 1
  BY <1>2, <1>3
<1>5. /\ items' \in Seq(Item) /\ Len(items') = Len(items)
      /\ DOMAIN items' = DOMAIN items
      /\ \A i \in DOMAIN items :
            items'[i].res = items[i].res /\ items'[i].from = items[i].from
  <2>1. items' = [items EXCEPT ![task.at].status = "reverted"]
    OBVIOUS
  <2> HIDE DEF ItemReverted
  <2> QED
    BY <1>2, <2>1, MarkItem
<1>6. /\ task' \in Task /\ task'.kind = "revert" /\ task'.at = n
      /\ n = 0 => step' = "close"
      /\ n # 0 => /\ step' = "apply" /\ task'.res = items[n].res
                  /\ task'.goal = items[n].from
  BY <1>2, <1>4, RevertFromTask
<1>7. step' \in {"close", "apply"}
  BY <1>6
<1>8. TypeOK'
  BY <1>1, <1>5, <1>6, <1>7 DEF TypeOK, Steps
<1>9. TaskInv'
  BY <1>1, <1>3, <1>4, <1>5, <1>6, <1>7 DEF TaskInv, Working
<1>10. \A i \in DOMAIN items : First(i)' <=> First(i)
  BY <1>3, <1>5 DEF First
<1>11. \A r \in Resource : Touched(r)' <=> Touched(r)
  BY <1>5, <1>7 DEF Touched, Logged
<1>12. Restorable'
  BY <1>1, <1>5, <1>10, <1>11 DEF Restorable
<1>13. ASSUME NEW r \in Resource, \A i \in 1 .. n : items'[i].res # r
       PROVE  Settled(r)'
  <2>1. \A i \in 1 .. n : items[i].res # r
    BY <1>3, <1>4, <1>5, <1>13
  <2>2. CASE r = task.res
    <3>1. First(task.at)
      BY <1>2, <1>4, <2>1, <2>2 DEF First
    <3>2. task.goal = base[r]
      BY <1>1, <1>2, <2>2, <3>1 DEF Restorable
    <3>3. author[r] = "lost" \/ (content[r] = base[r] /\ r \notin dying)
      BY <1>1, <2>2, <3>2 DEF ReversalInv
    <3> QED
      BY <3>3 DEF Settled
  <2>3. CASE r # task.res
    <3>1. \A i \in 1 .. task.at : items[i].res # r
      BY <1>2, <1>3, <1>4, <2>1, <2>3
    <3>2. Settled(r)
      BY <1>1, <3>1 DEF ReversalInv
    <3> QED
      BY <1>5, <3>2 DEF Settled, Logged
  <2> QED
    BY <2>2, <2>3
<1>14. ReversalInv'
  BY <1>6, <1>7, <1>13 DEF ReversalInv
<1>15. LogInv'
  BY <1>1 DEF LogInv, TaskInv
<1> QED
  BY <1>1, <1>8, <1>9, <1>12, <1>14, <1>15 DEF IInv, DyingInv

LEMMA CloseRevertedInv == IInv /\ CloseReverted => IInv'
<1> SUFFICES ASSUME IInv, CloseReverted PROVE IInv'
  OBVIOUS
<1> QED
  BY EndInv DEF CloseReverted, IInv, TypeOK

(***************************************************************************)
(* Deleting the changeset, the API server, others, and commands that stop. *)
(***************************************************************************)
LEMMA DiscardInv == IInv /\ Discard => IInv'
<1> SUFFICES ASSUME IInv, Discard PROVE IInv'
  OBVIOUS
<1> USE DEF cluster, Discard
<1>1. TypeOK /\ TaskInv /\ DyingInv
  BY DEF IInv
<1>2. items' \in Seq(Item) /\ DOMAIN items' = {}
  BY EmptySeq
<1>3. task = NoTask /\ NoTask.kind # "revert"
  BY <1>1 DEF TaskInv, NoTask
<1>4. TypeOK'
  BY <1>1, <1>2 DEF TypeOK
<1>5. TaskInv'
  BY <1>3 DEF TaskInv, Working
<1>6. Restorable'
  BY <1>2 DEF Restorable
<1>7. ReversalInv'
  BY <1>3 DEF ReversalInv
<1> QED
  BY <1>1, <1>4, <1>5, <1>6, <1>7 DEF IInv, LogInv, DyingInv

\* Every history variable that follows an untouched object follows it here too.
LEMMA FinaliseInv == ASSUME IInv, NEW r \in Resource, Finalise(r) PROVE IInv'
<1> USE DEF log, rig
<1>1. TypeOK /\ TaskInv /\ LogInv /\ DyingInv /\ Restorable /\ ReversalInv
  BY DEF IInv
<1>2. /\ r \in dying /\ dying' = dying \ {r}
      /\ content' = [content EXCEPT ![r] = Nothing]
      /\ items' = items /\ step' = step /\ task' = task /\ status' = status
      /\ author' = author /\ result' = result /\ aborts' = aborts
      /\ foreign' = foreign
      /\ base' = IF Touched(r) THEN base ELSE [base EXCEPT ![r] = Nothing]
  BY DEF Finalise, Untouched
<1>3. Nothing \in Held
  BY DEF Held
<1>4. /\ base' \in [Resource -> Held]
      /\ \A q \in Resource : Touched(q) => base'[q] = base[q]
      /\ \A q \in Resource : q # r => base'[q] = base[q]
      /\ ~Touched(r) => base'[r] = Nothing
  BY <1>1, <1>2, <1>3 DEF TypeOK
<1>5. /\ content' \in [Resource -> Held] /\ content'[r] = Nothing
      /\ \A q \in Resource : q # r => content'[q] = content[q]
  BY <1>1, <1>2, <1>3 DEF TypeOK
<1>6. TypeOK'
  BY <1>1, <1>2, <1>4, <1>5 DEF TypeOK
<1>7. DyingInv'
  BY <1>1, <1>2, <1>5, KindAssumption DEF DyingInv
<1>8. TaskInv'
  BY <1>1, <1>2, <1>4 DEF TaskInv, Working, Logged, Touched
<1>9. \A q \in Resource : Touched(q)' <=> Touched(q)
  BY <1>2 DEF Touched, Logged
<1>10. ASSUME NEW i \in DOMAIN items, First(i)
       PROVE  items[i].from = base'[items[i].res]
  <2>1. items[i] \in Item
    BY <1>1, LenProperties, ElementOfSeq DEF TypeOK
  <2>2. items[i].res \in Resource /\ Touched(items[i].res)
    BY <2>1 DEF Item, Touched, Logged
  <2> QED
    BY <1>1, <1>4, <1>10, <2>2 DEF Restorable
<1>11. \A i \in DOMAIN items : First(i)' <=> First(i)
  BY <1>2 DEF First
<1>12. \A q \in Resource : ~Touched(q) => content'[q] = base'[q]
  BY <1>1, <1>4, <1>5 DEF Restorable
<1>13. Restorable'
  BY <1>2, <1>9, <1>10, <1>11, <1>12 DEF Restorable
<1>14. ASSUME task.kind = "revert", NEW q \in Resource, Settled(q)
       PROVE  Settled(q)'
  <2>1. CASE q # r
    BY <1>2, <1>4, <1>5, <1>14, <2>1 DEF Settled, Logged
  <2>2. CASE q = r
    <3>1. author[r] = "lost" \/ ~Touched(r)
      BY <1>1, <1>2, <1>14, <2>2 DEF Settled, Touched, TaskInv
    <3> QED
      BY <1>2, <1>4, <1>5, <2>2, <3>1 DEF Settled
  <2> QED
    BY <2>1, <2>2
<1>15. ASSUME task.kind = "revert", step = "log"
       PROVE  author[task.res] = "lost"
              \/ (content'[task.res] = task.goal /\ task.res \notin dying')
  <2>1. task.res \in Resource
    BY <1>15, TaskType DEF Working
  <2> QED
    BY <1>1, <1>2, <1>5, <1>15, <2>1 DEF ReversalInv
<1>16. ReversalInv'
  BY <1>1, <1>2, <1>14, <1>15 DEF ReversalInv
<1> QED
  BY <1>1, <1>2, <1>6, <1>7, <1>8, <1>13, <1>16 DEF IInv, LogInv

LEMMA ForeignWriteInv ==
  ASSUME IInv, NEW r \in Resource, NEW c \in Version \cup {Nothing},
         ForeignWrite(r, c)
  PROVE  IInv'
<1> USE DEF log, rig
<1>1. TypeOK /\ TaskInv /\ LogInv /\ DyingInv /\ Restorable
  BY DEF IInv
<1>2. /\ r \notin dying /\ dying' = dying
      /\ content' = [content EXCEPT ![r] = c]
      /\ items' = items /\ step' = step /\ task' = task /\ status' = status
      /\ author' = [author EXCEPT ![r] = "other"] /\ result' = result
      /\ aborts' = aborts /\ foreign' = foreign + 1 /\ step = "idle"
      /\ base' = IF Touched(r) THEN base ELSE [base EXCEPT ![r] = c]
  BY DEF ForeignWrite, Untouched, By
<1>3. c \in Held
  BY DEF Held, Stored
<1>4. /\ base' \in [Resource -> Held]
      /\ \A q \in Resource : Touched(q) => base'[q] = base[q]
      /\ \A q \in Resource : q # r => base'[q] = base[q]
      /\ ~Touched(r) => base'[r] = c
  BY <1>1, <1>2, <1>3 DEF TypeOK
<1>5. /\ content' \in [Resource -> Held] /\ content'[r] = c
      /\ \A q \in Resource : q # r => content'[q] = content[q]
  BY <1>1, <1>2, <1>3 DEF TypeOK
<1>6. TypeOK'
  BY <1>1, <1>2, <1>4, <1>5 DEF TypeOK
<1>7. DyingInv'
  BY <1>1, <1>2, <1>5, KindAssumption DEF DyingInv
<1>8. TaskInv'
  BY <1>1, <1>2 DEF TaskInv, Working
<1>9. \A q \in Resource : Touched(q)' <=> Touched(q)
  BY <1>2 DEF Touched, Logged
<1>10. ASSUME NEW i \in DOMAIN items, First(i)
       PROVE  items[i].from = base'[items[i].res]
  <2>1. items[i] \in Item
    BY <1>1, LenProperties, ElementOfSeq DEF TypeOK
  <2>2. items[i].res \in Resource /\ Touched(items[i].res)
    BY <2>1 DEF Item, Touched, Logged
  <2> QED
    BY <1>1, <1>4, <1>10, <2>2 DEF Restorable
<1>11. \A i \in DOMAIN items : First(i)' <=> First(i)
  BY <1>2 DEF First
<1>12. \A q \in Resource : ~Touched(q) => content'[q] = base'[q]
  BY <1>1, <1>4, <1>5 DEF Restorable
<1>13. Restorable'
  BY <1>2, <1>9, <1>10, <1>11, <1>12 DEF Restorable
<1>14. ReversalInv'
  BY <1>1, <1>2 DEF ReversalInv, TaskInv, NoTask
<1> QED
  BY <1>1, <1>2, <1>6, <1>7, <1>8, <1>13, <1>14 DEF IInv, LogInv

\* A command that stops before its item is logged has not touched the object.
LEMMA AbortInv == IInv /\ Abort => IInv'
<1> SUFFICES ASSUME IInv, Abort PROVE IInv'
  OBVIOUS
<1> USE DEF cluster, log
<1>1. TypeOK /\ TaskInv /\ LogInv /\ DyingInv /\ Restorable
  BY DEF IInv
<1>2. CASE step # "record"
  BY <1>1, <1>2, EndInv DEF Abort, TypeOK
<1>3. CASE step = "record"
  <2>1. task.res \in Resource
    BY <1>1, <1>3 DEF TaskInv
  <2>2. NoTask \in Task /\ NoTask.kind # "revert" /\ NoTask.res \notin Resource
    BY ContentAssumption DEF NoTask, Task, Held
  <2>3. /\ base' \in [Resource -> Held]
        /\ \A q \in Resource : q # task.res \/ Logged(q) => base'[q] = base[q]
        /\ ~Logged(task.res) => base'[task.res] = content[task.res]
    BY <1>1, <1>3, <2>1 DEF Abort, TypeOK
  <2>4. TypeOK'
    BY <1>1, <2>2, <2>3 DEF Abort, End, TypeOK, Steps
  <2>5. TaskInv'
    BY DEF Abort, End, TaskInv, Working
  <2>6. \A q \in Resource : Touched(q)' <=> Logged(q)
    BY DEF Abort, End, Touched, Logged
  <2>7. ASSUME NEW i \in DOMAIN items, First(i)
        PROVE  items[i].from = base'[items[i].res]
    <3>1. items[i] \in Item
      BY <1>1, LenProperties, ElementOfSeq DEF TypeOK
    <3>2. items[i].res \in Resource /\ Logged(items[i].res)
      BY <3>1 DEF Item, Logged
    <3> QED
      BY <1>1, <2>3, <2>7, <3>2 DEF Restorable
  <2>8. \A i \in DOMAIN items : First(i)' <=> First(i)
    BY DEF Abort, First
  <2>9. \A q \in Resource : ~Logged(q) => content[q] = base'[q]
    BY <1>1, <1>3, <2>3 DEF Restorable, Touched
  <2>10. Restorable'
    BY <2>6, <2>7, <2>8, <2>9 DEF Restorable, Abort
  <2>11. ReversalInv'
    BY <2>2 DEF Abort, End, ReversalInv
  <2> QED
    BY <1>1, <2>4, <2>5, <2>10, <2>11 DEF Abort, IInv, LogInv, DyingInv
<1> QED
  BY <1>2, <1>3

(***************************************************************************)
(* The theorems.                                                           *)
(***************************************************************************)
\* Every step of a rig command, of the API server and of others keeps IInv.
LEMMA NextInv == IInv /\ [Next]_vars => IInv'
<1> SUFFICES ASSUME IInv, [Next]_vars PROVE IInv'
  OBVIOUS
<1>1. CASE UNCHANGED vars
  BY <1>1 DEF vars, cluster, log, rig, IInv, TypeOK, TaskInv, Working, LogInv,
     DyingInv, Restorable, Touched, Logged, First, ReversalInv, Settled
<1>2. CASE Start
  <2>1. ASSUME NEW r \in Resource, BeginDelete(r) PROVE IInv'
    BY <2>1, BeginInv DEF BeginDelete
  <2>2. ASSUME NEW r \in Resource, NEW v \in Version, BeginUpsert(r, v) PROVE IInv'
    BY <2>2, BeginInv DEF BeginUpsert
  <2>3. ASSUME NEW r \in Resource, DeleteNotFound(r) PROVE IInv'
    BY <2>3, IdleInv DEF DeleteNotFound, Open
  <2>4. CASE RefuseChange
    BY <2>4, IdleInv DEF RefuseChange, log
  <2>5. CASE RefuseRevert
    BY <2>5, IdleInv DEF RefuseRevert, log
  <2>6. CASE Freeze
    BY <2>6, IdleInv DEF Freeze
  <2>7. CASE RefuseFreeze
    BY <2>7, IdleInv DEF RefuseFreeze, log
  <2> QED
    BY <1>2, <2>1, <2>2, <2>3, <2>4, <2>5, <2>6, <2>7, BeginRevertInv, DiscardInv
       DEF Start
<1>3. CASE Continue
  BY <1>3, RecordInv, RemoveMissingInv, ScaleDownInv, RequestDeletionInv,
     DeleteAtOnceInv, AwaitRemovalInv, CreateInv, UpdateInPlaceInv, CompleteInv,
     ItemRevertedInv, CloseRevertedInv
     DEF Continue, Apply
<1>4. CASE Surroundings
  BY <1>4, FinaliseInv, ForeignWriteInv, AbortInv DEF Surroundings
<1> QED
  BY <1>1, <1>2, <1>3, <1>4 DEF Next

LEMMA Inductive == Spec => []IInv
<1> QED
  BY InitInv, NextInv, PTL DEF Spec

\* Every variable stays in its type: no command ever names an object or an item
\* that does not exist.
THEOREM TypeCorrect == Spec => []TypeOK
<1>1. IInv => TypeOK
  BY DEF IInv
<1> QED
  BY <1>1, Inductive, PTL

\* The log can always bring the cluster back (withDeleteOp, withUpsertOp).
THEOREM AlwaysRestorable == Spec => []Restorable
<1>1. IInv => Restorable
  BY DEF IInv
<1> QED
  BY <1>1, Inductive, PTL

\* Revert marks a changeset reverted only over a cluster that is back to what
\* it was, save for lost updates.
THEOREM RevertCorrect == Spec => RevertRestores
<1> DEFINE Restores ==
      status # "reverted" /\ status' = "reverted"
        => \A r \in Resource : author[r] = "lost" \/ content[r] = base[r]
<1>1. IInv /\ [Next]_vars => [Restores]_vars
  <2> SUFFICES ASSUME IInv, [Next]_vars, status # "reverted", status' = "reverted"
               PROVE  \A r \in Resource : author[r] = "lost" \/ content[r] = base[r]
    OBVIOUS
  <2>1. CloseReverted
    BY DEF Next, vars, log, rig, cluster, Start, Continue, Surroundings, BeginDelete,
       Open, DeleteNotFound, BeginUpsert, RefuseChange, BeginRevert, RefuseRevert,
       Freeze, RefuseFreeze, Discard, Record, Apply, RemoveMissing, ScaleDown,
       RequestDeletion, DeleteAtOnce, AwaitRemoval, Create, UpdateInPlace, Unlogged,
       Complete, ItemReverted, Finalise, ForeignWrite, Abort
  <2>2. task.kind = "revert" /\ task.at = 0 /\ ReversalInv
    BY <2>1 DEF CloseReverted, IInv, TaskInv
  <2> QED
    BY <2>2 DEF ReversalInv, Settled
<1> QED
  BY <1>1, Inductive, PTL DEF Spec, RevertRestores

(***************************************************************************)
(* What a completed item says is what there is, until somebody else writes *)
(* the object.                                                             *)
(***************************************************************************)
OpWorking == Working /\ task.kind # "revert"

\* The command works on the last item, and has done what it says at its end.
OpInv ==
    /\ OpWorking => /\ task.at = Len(items) /\ items[task.at].status = "created"
                    /\ items[task.at].to = task.goal
    /\ OpWorking /\ step = "log" /\ author[task.res] = "op" =>
           content[task.res] = task.goal /\ task.res \notin dying

\* No object that its last item completed is about to disappear.
CompletedInv ==
    \A i \in DOMAIN items :
        Last(i) /\ items[i].status = "completed" /\ author[items[i].res] = "op"
          => content[items[i].res] = items[i].to /\ items[i].res \notin dying

LEMMA LoggedItem ==
  ASSUME items \in Seq(Item), NEW i \in DOMAIN items
  PROVE  items[i] \in Item /\ items[i].res \in Resource
<1>1. items[i] \in Item
  BY LenProperties, ElementOfSeq
<1> QED
  BY <1>1 DEF Item

\* Steps between two commands, and those that end one without completing it.
LEMMA QuietFreeze ==
  ASSUME CompletedInv, UNCHANGED <<items, content, dying, author>>, ~OpWorking'
  PROVE  (OpInv /\ CompletedInv)'
<1> QED
  BY DEF OpInv, CompletedInv, OpWorking, Last

\* What the API calls on task.res have in common.
LEMMA ObjectFreeze ==
  ASSUME IInv, OpInv, CompletedInv, Working, Unlogged,
         \A r \in Resource \ {task.res} :
             /\ content'[r] = content[r] /\ author'[r] = author[r]
             /\ r \in dying' <=> r \in dying,
         task.kind = "revert" =>
             author'[task.res] # "op" \/ UNCHANGED <<content, dying, author>>,
         task.kind # "revert" /\ step' = "log" =>
             \/ author'[task.res] # "op"
             \/ content'[task.res] = task.goal /\ task.res \notin dying'
  PROVE  (OpInv /\ CompletedInv)'
<1> USE DEF Unlogged, log
<1>1. /\ items \in Seq(Item) /\ DOMAIN items = 1 .. Len(items) /\ Len(items) \in Nat
      /\ task.at \in DOMAIN items /\ task.res = items[task.at].res
  BY LenProperties DEF IInv, TypeOK, TaskInv
<1>2. \A i \in DOMAIN items : items[i].res \in Resource
  BY <1>1, LoggedItem
<1>3. OpInv'
  <2>1. task' = task /\ items' = items
    OBVIOUS
  <2>2. OpWorking' => OpWorking
    BY <2>1 DEF OpWorking
  <2> QED
    BY <2>1, <2>2 DEF OpInv, OpWorking
<1>4. ASSUME NEW i \in DOMAIN items, Last(i), items[i].status = "completed",
             author'[items[i].res] = "op"
      PROVE  content'[items[i].res] = items[i].to /\ items[i].res \notin dying'
  <2>1. CASE items[i].res # task.res
    BY <1>2, <1>4, <2>1 DEF CompletedInv
  <2>2. CASE items[i].res = task.res
    <3>1. CASE task.kind # "revert"
      <4>1. task.at = Len(items) /\ items[task.at].status = "created"
        BY <3>1 DEF OpInv, OpWorking
      <4> QED
        BY <1>1, <1>4, <2>2, <4>1 DEF Last
    <3>2. CASE task.kind = "revert" /\ UNCHANGED <<content, dying, author>>
      BY <1>4, <3>2 DEF CompletedInv
    <3> QED
      BY <1>4, <2>2, <3>1, <3>2
  <2> QED
    BY <2>1, <2>2
<1>5. CompletedInv'
  BY <1>4 DEF CompletedInv, Last
<1> QED
  BY <1>3, <1>5

LEMMA RecordFreeze == IInv /\ CompletedInv /\ Record => (OpInv /\ CompletedInv)'
<1> SUFFICES ASSUME IInv, CompletedInv, Record PROVE (OpInv /\ CompletedInv)'
  OBVIOUS
<1>1. /\ items \in Seq(Item) /\ DOMAIN items = 1 .. Len(items) /\ Len(items) \in Nat
      /\ task \in Task /\ NewItem \in Item
  <2>1. /\ items \in Seq(Item) /\ task \in Task /\ task.res \in Resource
        /\ task.goal \in Version \cup {Nothing}
    BY DEF IInv, TypeOK, TaskInv, Record
  <2> QED
    BY <2>1, LenProperties DEF NewItem, Item, Task
<1>2. /\ Len(items') = Len(items) + 1 /\ DOMAIN items' = 1 .. (Len(items) + 1)
      /\ \A i \in 1 .. Len(items) : items'[i] = items[i]
      /\ items'[Len(items) + 1] = NewItem
  <2>1. items' = Append(items, NewItem)
    BY DEF Record
  <2> QED
    BY <1>1, <2>1, AppendProperties, LenProperties
<1>3. /\ task'.at = Len(items) + 1 /\ task'.goal = task.goal /\ task'.kind = task.kind
      /\ step' = "apply" /\ UNCHANGED <<content, dying, author>>
  BY <1>1 DEF Record, Task, cluster
<1>4. OpInv'
  BY <1>1, <1>2, <1>3 DEF OpInv, OpWorking, NewItem
<1>5. \A i \in DOMAIN items : Last(i)' => Last(i)
  BY <1>1, <1>2 DEF Last
<1>6. CompletedInv'
  BY <1>1, <1>2, <1>3, <1>5 DEF CompletedInv, NewItem
<1> QED
  BY <1>4, <1>6

\* The API calls, one by one.
LEMMA ApplyFreeze == IInv /\ OpInv /\ CompletedInv /\ Apply => (OpInv /\ CompletedInv)'
<1> SUFFICES ASSUME IInv, OpInv, CompletedInv, Apply PROVE (OpInv /\ CompletedInv)'
  OBVIOUS
<1>1. /\ Working /\ content \in [Resource -> Held] /\ DyingInv
      /\ author \in [Resource -> {"op", "revert", "other", "lost"}]
  BY DEF Apply, RemoveMissing, ScaleDown, RequestDeletion, DeleteAtOnce, AwaitRemoval,
         Create, UpdateInPlace, Working, IInv, TypeOK
<1>2. /\ task.res \in Resource
      /\ task.kind = "revert" => Forward = "revert"
  BY <1>1, TaskType DEF Forward
<1>3. content[task.res] = Nothing => task.res \notin dying
  BY <1>1 DEF DyingInv
<1>4. CASE RemoveMissing
  <2>1. CASE task.kind = "revert"
    BY <1>1, <1>2, <1>4, <2>1, ObjectFreeze DEF RemoveMissing, cluster, Unlogged
  <2>2. CASE task.kind # "revert"
    BY <1>4, <2>2, QuietFreeze DEF RemoveMissing, cluster, log, OpWorking, Working
  <2> QED
    BY <2>1, <2>2
<1>5. CASE ScaleDown
  BY <1>1, <1>2, <1>5, ObjectFreeze DEF ScaleDown, By
<1>6. CASE RequestDeletion
  BY <1>1, <1>2, <1>6, ObjectFreeze DEF RequestDeletion, By
<1>7. CASE DeleteAtOnce
  <2>1. content'[task.res] = task.goal /\ task.res \notin dying'
    BY <1>1, <1>2, <1>7 DEF DeleteAtOnce, Removing, DyingInv
  <2> QED
    BY <1>1, <1>2, <1>7, <2>1, ObjectFreeze DEF DeleteAtOnce, By
<1>8. CASE AwaitRemoval
  <2>1. UNCHANGED <<content, dying, author>> /\ task.res \notin dying'
        /\ (step' = "log" => content'[task.res] = task.goal)
    BY <1>3, <1>8 DEF AwaitRemoval, Present, Removing, cluster
  <2> QED
    BY <1>1, <1>8, <2>1, ObjectFreeze DEF AwaitRemoval
<1>9. CASE Create
  <2>1. content'[task.res] = task.goal /\ task.res \notin dying'
    BY <1>1, <1>2, <1>3, <1>9 DEF Create, Present
  <2> QED
    BY <1>1, <1>2, <1>9, <2>1, ObjectFreeze DEF Create, By
<1>10. CASE UpdateInPlace
  <2>1. /\ content'[task.res] = task.goal
        /\ task.res \in dying' => author'[task.res] = "lost"
        /\ task.kind = "revert" => author'[task.res] # "op"
    BY <1>1, <1>2, <1>10 DEF UpdateInPlace, By
  <2> QED
    BY <1>1, <1>2, <1>10, <2>1, ObjectFreeze DEF UpdateInPlace, By
<1> QED
  BY <1>4, <1>5, <1>6, <1>7, <1>8, <1>9, <1>10 DEF Apply

\* Marking the item that the command has carried out, or one that was reverted.
LEMMA MarkFreeze ==
  IInv /\ OpInv /\ CompletedInv /\ (Complete \/ ItemReverted) => (OpInv /\ CompletedInv)'
<1> SUFFICES ASSUME IInv, OpInv, CompletedInv,
                    NEW st \in {"completed", "reverted"},
                    items' = [items EXCEPT ![task.at].status = st],
                    Working, UNCHANGED <<content, dying, author>>, ~OpWorking',
                    st = "completed" => OpWorking /\ step = "log"
             PROVE  (OpInv /\ CompletedInv)'
  <2>1. ASSUME IInv, ItemReverted PROVE ~OpWorking'
    <3>1. items \in Seq(Item) /\ task.at \in DOMAIN items
      BY <2>1 DEF IInv, TypeOK, TaskInv, ItemReverted, Working
    <3> QED
      BY <2>1 DEF ItemReverted, RevertFrom, OpWorking, Working, NoTask
  <2> QED
    BY <2>1 DEF Complete, ItemReverted, End, OpWorking, Working, cluster
<1>1. items \in Seq(Item) /\ DOMAIN items = 1 .. Len(items) /\ task.at \in DOMAIN items
      /\ task.res = items[task.at].res
  BY LenProperties DEF IInv, TypeOK, TaskInv
<1>2. \A i \in DOMAIN items : items[i] \in Item
  BY <1>1, ElementOfSeq
<1>3. /\ Len(items') = Len(items) /\ DOMAIN items' = DOMAIN items
      /\ \A i \in DOMAIN items : items'[i].res = items[i].res
  BY <1>1, MarkItem
<1>4. \A i \in DOMAIN items :
          /\ items'[i].to = items[i].to
          /\ items'[i].status = IF i = task.at THEN st ELSE items[i].status
  BY <1>1, <1>2 DEF Item
<1>5. \A i \in DOMAIN items : Last(i)' <=> Last(i)
  BY <1>1, <1>3 DEF Last
<1>6. ASSUME NEW i \in DOMAIN items', Last(i)', items'[i].status = "completed",
             author[items'[i].res] = "op"
      PROVE  content[items'[i].res] = items'[i].to /\ items'[i].res \notin dying
  <2>1. CASE i = task.at
    <3>1. OpWorking /\ step = "log" /\ items'[i].res = task.res
          /\ items'[i].to = items[task.at].to
      BY <1>1, <1>3, <1>4, <1>6, <2>1
    <3> QED
      BY <1>6, <3>1 DEF OpInv
  <2>2. CASE i # task.at
    BY <1>3, <1>4, <1>5, <1>6, <2>2 DEF CompletedInv
  <2> QED
    BY <2>1, <2>2
<1>7. CompletedInv'
  BY <1>6 DEF CompletedInv
<1> QED
  BY <1>7 DEF OpInv

\* The API server and others write only what no command has completed, or take
\* the object over.
LEMMA SurroundingsFreeze ==
  ASSUME IInv, OpInv, CompletedInv,
         \/ \E r \in Resource : Finalise(r)
         \/ \E r \in Resource, c \in Version \cup {Nothing} : ForeignWrite(r, c)
  PROVE  (OpInv /\ CompletedInv)'
<1>1. /\ content \in [Resource -> Held] /\ dying \subseteq Resource
      /\ author \in [Resource -> {"op", "revert", "other", "lost"}]
      /\ Working => task.res \in Resource
      /\ \A i \in DOMAIN items : items[i].res \in Resource
  <2>1. items \in Seq(Item) /\ DOMAIN items = 1 .. Len(items)
    BY LenProperties DEF IInv, TypeOK
  <2>2. \A i \in DOMAIN items : items[i].res \in Resource
    BY <2>1, LoggedItem
  <2>3. Working => task.res \in Resource
    BY TaskType
  <2> QED
    BY <2>2, <2>3 DEF IInv, TypeOK
<1>2. PICK r \in Resource :
          /\ \A q \in Resource \ {r} : content'[q] = content[q] /\ author'[q] = author[q]
          /\ dying' \subseteq dying
          /\ \/ r \in dying /\ author' = author
             \/ author'[r] = "other"
          /\ UNCHANGED <<items, step, task>>
  <2>1. ASSUME NEW r \in Resource, Finalise(r)
        PROVE  /\ \A q \in Resource \ {r} : content'[q] = content[q] /\ author'[q] = author[q]
               /\ dying' \subseteq dying /\ r \in dying /\ author' = author
               /\ UNCHANGED <<items, step, task>>
    BY <1>1, <2>1 DEF Finalise, log, rig
  <2>2. ASSUME NEW r \in Resource, NEW c \in Version \cup {Nothing}, ForeignWrite(r, c)
        PROVE  /\ \A q \in Resource \ {r} : content'[q] = content[q] /\ author'[q] = author[q]
               /\ dying' \subseteq dying /\ author'[r] = "other"
               /\ UNCHANGED <<items, step, task>>
    BY <1>1, <2>2 DEF ForeignWrite, By, log, rig
  <2> QED
    BY <2>1, <2>2
<1>3. OpInv'
  BY <1>1, <1>2 DEF OpInv, OpWorking, Working
<1>4. CompletedInv'
  BY <1>1, <1>2 DEF CompletedInv, Last
<1> QED
  BY <1>3, <1>4

LEMMA FreezeStep ==
  IInv /\ OpInv /\ CompletedInv /\ [Next]_vars => (OpInv /\ CompletedInv)'
<1> SUFFICES ASSUME IInv, OpInv, CompletedInv, [Next]_vars
             PROVE  (OpInv /\ CompletedInv)'
  OBVIOUS
<1>1. CASE UNCHANGED vars
  BY <1>1 DEF vars, cluster, log, rig, OpInv, CompletedInv, OpWorking, Working, Last
<1>2. CASE Start /\ ~Discard
  <2>1. UNCHANGED <<items, content, dying, author>>
    BY <1>2 DEF Start, BeginDelete, BeginUpsert, DeleteNotFound, RefuseChange,
                RefuseRevert, BeginRevert, Freeze, RefuseFreeze, cluster, log
  <2>2. step = "idle"
    BY <1>2 DEF Start, BeginDelete, BeginUpsert, DeleteNotFound, RefuseChange, Open,
                RefuseRevert, BeginRevert, Freeze, RefuseFreeze
  <2>3. ~OpWorking'
    <3>1. ASSUME BeginRevert PROVE ~OpWorking'
      BY <3>1 DEF BeginRevert, RevertFrom, OpWorking, Working
    <3>2. CASE BeginRevert
      BY <3>1, <3>2
    <3>3. CASE ~BeginRevert
      BY <1>2, <2>2, <3>3
         DEF Start, BeginDelete, BeginUpsert, Begin, DeleteNotFound, RefuseChange,
             RefuseRevert, Freeze, RefuseFreeze, OpWorking, Working
    <3> QED
      BY <3>2, <3>3
  <2> QED
    BY <2>1, <2>3, QuietFreeze
<1>3. CASE Discard
  <2>1. items' = <<>> /\ step' = "idle"
    BY <1>3 DEF Discard
  <2> QED
    BY <2>1, EmptySeq DEF OpInv, CompletedInv, OpWorking, Working
<1>4. CASE Record
  BY <1>4, RecordFreeze
<1>5. CASE Apply
  BY <1>5, ApplyFreeze
<1>6. CASE Complete \/ ItemReverted
  BY <1>6, MarkFreeze
<1>7. CASE CloseReverted \/ Abort
  BY <1>7, QuietFreeze DEF CloseReverted, Abort, End, OpWorking, Working, cluster, log
<1>8. CASE \/ \E r \in Resource : Finalise(r)
           \/ \E r \in Resource, c \in Version \cup {Nothing} : ForeignWrite(r, c)
  BY <1>8, SurroundingsFreeze
<1> QED
  BY <1>1, <1>2, <1>3, <1>4, <1>5, <1>6, <1>7, <1>8
     DEF Next, Start, Continue, Surroundings

\* Freeze commits no changeset over a change that is half-made: of an object that
\* commands wrote last, the last item says what it holds (changeset.go:278).
THEOREM FreezeCorrect == Spec => FreezeMatchesCluster
<1> DEFINE Matches ==
      status # "committed" /\ status' = "committed"
        => \A i \in DOMAIN items :
              Last(i) /\ author[items[i].res] = "op"
                => content[items[i].res] = items[i].to
<1>1. Init => OpInv /\ CompletedInv
  BY EmptySeq DEF Init, OpInv, CompletedInv, OpWorking, Working
<1>2. CompletedInv /\ [Next]_vars => [Matches]_vars
  <2> SUFFICES ASSUME CompletedInv, [Next]_vars,
                      status # "committed", status' = "committed"
               PROVE  \A i \in DOMAIN items :
                          Last(i) /\ author[items[i].res] = "op"
                            => content[items[i].res] = items[i].to
    OBVIOUS
  <2>1. Freeze
    BY DEF Next, vars, log, rig, cluster, Start, Continue, Surroundings, BeginDelete,
       Open, DeleteNotFound, BeginUpsert, RefuseChange, BeginRevert, RefuseRevert,
       RefuseFreeze, Discard, Record, Apply, RemoveMissing, ScaleDown,
       RequestDeletion, DeleteAtOnce, AwaitRemoval, Create, UpdateInPlace, Unlogged,
       Complete, ItemReverted, CloseReverted, Finalise, ForeignWrite, Abort
  <2> QED
    BY <2>1 DEF Freeze, AllCompleted, CompletedInv
<1> QED
  BY <1>1, <1>2, FreezeStep, Inductive, PTL DEF Spec, FreezeMatchesCluster

----------------------------------------------------------------------------
(***************************************************************************)
(* Changeset implements AtomicChangeset, for every set of objects and      *)
(* versions, every length of the log and any number of interruptions.      *)
(***************************************************************************)

(***************************************************************************)
(* The saved contents.                                                     *)
(***************************************************************************)
LEMMA FirstExists ==
  ASSUME items \in Seq(Item), NEW r, Logged(r)
  PROVE  \E i \in DOMAIN items : items[i].res = r /\ First(i)
<1> DEFINE T == {i \in DOMAIN items : items[i].res = r}
           R == OpToRel(<, Nat)
<1>1. DOMAIN items = 1 .. Len(items) /\ Len(items) \in Nat
  BY LenProperties
<1>2. T \subseteq Nat /\ T # {}
  BY <1>1 DEF Logged
<1>3. IsWellFoundedOn(R, Nat)
  BY NatLessThanWellFounded
<1>4. PICK i \in T : \A j \in T : ~(<<j, i>> \in R)
  <2> HIDE DEF T, R
  <2> QED
    BY <1>2, <1>3, WFMin
<1>5. \A j \in T : ~(j < i)
  BY <1>2, <1>4 DEF OpToRel
<1>6. First(i)
  <2> SUFFICES ASSUME NEW j \in 1 .. (i - 1), items[j].res = r PROVE FALSE
    BY <1>4 DEF First
  <2>1. j \in T /\ j < i
    BY <1>1, <1>2
  <2> QED
    BY <1>5, <2>1
<1> QED
  BY <1>4, <1>6

\* The first item about an object holds what base remembers of it.
LEMMA SavedIsBase == IInv => SavedContents = [r \in LoggedObjects |-> base[r]]
<1> SUFFICES ASSUME IInv PROVE SavedContents = [r \in LoggedObjects |-> base[r]]
  OBVIOUS
<1>1. items \in Seq(Item) /\ Restorable
  BY DEF IInv, TypeOK
<1>2. ASSUME NEW r \in LoggedObjects PROVE items[FirstAbout(r)].from = base[r]
  <2>1. \E i \in DOMAIN items : items[i].res = r /\ First(i)
    BY <1>1, FirstExists DEF LoggedObjects
  <2>2. /\ FirstAbout(r) \in DOMAIN items /\ items[FirstAbout(r)].res = r
        /\ First(FirstAbout(r))
    BY <2>1 DEF FirstAbout
  <2> QED
    BY <1>1, <2>2 DEF Restorable
<1> QED
  BY <1>2 DEF SavedContents

LEMMA SavedIsBaseNext ==
  IInv' => (SavedContents = [r \in LoggedObjects |-> base[r]])'
<1> QED
  BY SavedIsBase, PTL

\* As long as the log is about the same objects and base stays, so do they.
LEMMA SavedKept ==
  ASSUME IInv, IInv', LoggedObjects' = LoggedObjects,
         \A r \in LoggedObjects : base'[r] = base[r]
  PROVE  SavedContents' = SavedContents
<1>1. SavedContents' = [r \in LoggedObjects' |-> base'[r]]
  BY SavedIsBaseNext
<1> QED
  BY <1>1, SavedIsBase

\* What a step that keeps the log leaves of the abstract changeset.
LEMMA SameLog ==
  ASSUME IInv, IInv', items' = items, \A r \in LoggedObjects : base'[r] = base[r]
  PROVE  SavedContents' = SavedContents /\ LoggedObjects' = LoggedObjects
         /\ HalfMade' = HalfMade
<1>1. LoggedObjects' = LoggedObjects
  BY DEF LoggedObjects, Logged
<1>2. HalfMade' = HalfMade
  BY DEF HalfMade
<1> QED
  BY <1>1, <1>2, SavedKept

LEMMA SavedDomain == DOMAIN SavedContents = LoggedObjects
<1> QED
  BY DEF SavedContents

\* The object a running command works on is in the log.
LEMMA InHandLogged ==
  IInv /\ Working => /\ InHand = task.res /\ InHand \in Resource
                     /\ InHand # Nothing /\ InHand \in LoggedObjects
                     /\ SeenOnly = Nothing
<1> SUFFICES ASSUME IInv, Working
             PROVE  /\ InHand = task.res /\ InHand \in Resource
                    /\ InHand # Nothing /\ InHand \in LoggedObjects
                    /\ SeenOnly = Nothing
  OBVIOUS
<1>1. task.res \in Resource
  BY TaskType
<1>2. Logged(task.res)
  BY DEF IInv, TaskInv, Logged
<1> QED
  BY <1>1, <1>2, ContentAssumption DEF InHand, SeenOnly, Working, LoggedObjects

LEMMA InHandLoggedNext ==
  (IInv /\ Working => InHand \in LoggedObjects /\ SeenOnly = Nothing)'
<1>1. IInv /\ Working => InHand \in LoggedObjects /\ SeenOnly = Nothing
  BY InHandLogged
<1> QED
  BY <1>1, PTL

(***************************************************************************)
(* One lemma per action: the abstract step it amounts to.                  *)
(***************************************************************************)
LEMMA InitAtomic == Init => Atomic!Init
<1> SUFFICES ASSUME Init PROVE Atomic!Init
  OBVIOUS
<1>1. DOMAIN items = {}
  BY EmptySeq DEF Init
<1>2. LoggedObjects = {} /\ HalfMade = {}
  BY <1>1 DEF LoggedObjects, Logged, HalfMade
<1>3. SavedContents = [r \in {} |-> Nothing]
  BY <1>2 DEF SavedContents
<1>4. content \in [Resource -> Held]
  BY DEF Init, Held, Stored
<1> QED
  BY <1>2, <1>3, <1>4 DEF Init, Atomic!Init, LostObjects, InHand, SeenOnly

LEMMA BeginAtomic ==
  ASSUME IInv, IInv', NEW r \in Resource, NEW goal, NEW kind,
         Open, Begin(kind, r, goal),
         UNCHANGED <<cluster, items, base, author, aborts, foreign>>
  PROVE  Atomic!Take(r)
<1>1. SavedContents' = SavedContents /\ HalfMade' = HalfMade
      /\ LoggedObjects' = LoggedObjects
  BY SameLog
<1>2. LostObjects' = LostObjects
  BY DEF LostObjects
<1>3. InHand = Nothing /\ InHand' = r /\ SeenOnly = Nothing
  BY DEF Open, Begin, InHand, SeenOnly
<1>4. SeenOnly' = IF r \in DOMAIN SavedContents THEN Nothing ELSE content[r]
  BY SavedDomain DEF Begin, SeenOnly, Logged, LoggedObjects
<1> QED
  BY <1>1, <1>2, <1>3, <1>4
     DEF Open, Atomic!Take, Atomic!IsOpen, Atomic!surroundings, cluster

LEMMA NotFoundAtomic ==
  ASSUME IInv, IInv', NEW r \in Resource, DeleteNotFound(r)
  PROVE  Atomic!OpenOnly
<1>1. SavedContents' = SavedContents /\ HalfMade' = HalfMade
  BY SameLog DEF DeleteNotFound
<1>2. LostObjects' = LostObjects /\ InHand = Nothing /\ InHand' = Nothing
      /\ SeenOnly = Nothing /\ SeenOnly' = Nothing
  BY DEF LostObjects, DeleteNotFound, Open, InHand, SeenOnly
<1> QED
  BY <1>1, <1>2
     DEF DeleteNotFound, Open, Atomic!OpenOnly, Atomic!IsOpen, Atomic!surroundings,
         cluster

\* Steps that change nothing an abstract changeset has.
LEMMA StutterAtomic ==
  ASSUME IInv, IInv', UNCHANGED <<cluster, log, base, author>>,
         InHand' = InHand, SeenOnly' = SeenOnly
  PROVE  UNCHANGED Atomic!vars
<1>1. SavedContents' = SavedContents /\ HalfMade' = HalfMade
  BY SameLog DEF log
<1> QED
  BY <1>1 DEF Atomic!vars, LostObjects, cluster, log

LEMMA RefuseAtomic ==
  ASSUME IInv, IInv', RefuseChange \/ RefuseRevert \/ RefuseFreeze
  PROVE  UNCHANGED Atomic!vars
<1>1. UNCHANGED <<cluster, log, base, author, step, task>>
  BY DEF RefuseChange, RefuseRevert, RefuseFreeze
<1>2. InHand' = InHand /\ SeenOnly' = SeenOnly
  BY <1>1 DEF InHand, SeenOnly, Logged, log
<1> QED
  BY <1>1, <1>2, StutterAtomic

LEMMA BeginRevertAtomic ==
  ASSUME IInv, IInv', BeginRevert
  PROVE  Atomic!BeginUndo \/ UNCHANGED Atomic!vars
<1>1. SavedContents' = SavedContents /\ HalfMade' = HalfMade
      /\ LostObjects' = LostObjects /\ LoggedObjects' = LoggedObjects
  BY SameLog DEF BeginRevert, LostObjects, log
<1>2. InHand = Nothing /\ SeenOnly = Nothing
  BY DEF BeginRevert, InHand, SeenOnly
<1>3. CASE step' = "close"
  <2>1. InHand' = InHand /\ SeenOnly' = SeenOnly
    BY <1>2, <1>3 DEF InHand, SeenOnly
  <2> QED
    BY <2>1, StutterAtomic DEF BeginRevert
<1>4. CASE step' = "apply"
  <2>1. Working'
    BY <1>4 DEF Working
  <2>2. InHand' \in LoggedObjects' /\ SeenOnly' = Nothing
    BY <2>1, InHandLoggedNext
  <2> QED
    BY <1>1, <1>2, <2>2, SavedDomain
       DEF BeginRevert, Atomic!BeginUndo, Atomic!surroundings, cluster, log
<1> QED
  BY <1>3, <1>4 DEF BeginRevert, RevertFrom

LEMMA RecordAtomic == ASSUME IInv, IInv', Record PROVE Atomic!Save
<1>1. items \in Seq(Item) /\ task.res \in Resource /\ TypeOK /\ Restorable
  BY DEF IInv, TypeOK, TaskInv, Record
<1>2. /\ DOMAIN items = 1 .. Len(items) /\ Len(items) \in Nat
      /\ DOMAIN items' = 1 .. (Len(items) + 1)
      /\ \A i \in DOMAIN items : items'[i] = items[i]
      /\ items'[Len(items) + 1] = NewItem
  <2>1. NewItem \in Item
    BY DEF IInv, TypeOK, TaskInv, Record, NewItem, Item, Task
  <2>2. /\ items' \in Seq(Item) /\ Len(items') = Len(items) + 1
        /\ \A i \in 1 .. Len(items) : items'[i] = items[i]
        /\ items'[Len(items) + 1] = NewItem
    BY <1>1, <2>1, AppendProperties DEF Record
  <2> QED
    BY <1>1, <2>2, LenProperties
<1>3. NewItem.res = task.res /\ NewItem.status = "created"
  BY DEF NewItem
<1>4. LoggedObjects' = LoggedObjects \cup {task.res}
  BY <1>1, <1>2, <1>3 DEF LoggedObjects, Logged
<1>5. HalfMade' = HalfMade \cup {task.res}
  BY <1>1, <1>2, <1>3 DEF HalfMade
<1>6. InHand = task.res /\ InHand' = task.res /\ InHand # Nothing
  <2>1. task'.res = task.res
    BY <1>1 DEF Record, TypeOK, Task
  <2> QED
    BY <1>1, <2>1, ContentAssumption DEF InHand, Record
<1>7. SeenOnly' = Nothing
  BY DEF SeenOnly, Record
<1>8. SavedContents' = [r \in LoggedObjects \cup {task.res} |-> base[r]]
  BY <1>4, SavedIsBaseNext DEF Record
<1>9. ~Logged(task.res) => SeenOnly = base[task.res]
  BY DEF SeenOnly, Record, IInv, TaskInv
<1>10. SavedContents' = [r \in DOMAIN SavedContents \cup {InHand} |->
                            IF r \in DOMAIN SavedContents THEN SavedContents[r]
                            ELSE SeenOnly]
  BY <1>1, <1>6, <1>8, <1>9, SavedIsBase, SavedDomain DEF LoggedObjects
<1>11. LostObjects' = LostObjects
  BY DEF LostObjects, Record
<1> QED
  BY <1>5, <1>6, <1>7, <1>10, <1>11
     DEF Record, Atomic!Save, Atomic!surroundings, cluster

\* What the API calls on task.res have in common.
LEMMA OnSavedAtomic ==
  ASSUME IInv, IInv', Working, Working', UNCHANGED <<log, base>>,
         task'.res = task.res
  PROVE  /\ Atomic!OnSaved /\ InHand = task.res /\ InHand' = InHand
         /\ SeenOnly = Nothing /\ SeenOnly' = Nothing
         /\ SavedContents' = SavedContents /\ HalfMade' = HalfMade
<1>1. SavedContents' = SavedContents /\ HalfMade' = HalfMade
  BY SameLog DEF log
<1>2. InHand = task.res /\ InHand \in LoggedObjects /\ SeenOnly = Nothing
  BY InHandLogged
<1>3. SeenOnly' = Nothing
  BY InHandLoggedNext
<1>4. InHand' = task.res
  BY DEF InHand, Working
<1> QED
  BY <1>1, <1>2, <1>3, <1>4, SavedDomain DEF Atomic!OnSaved

\* An API call that leaves the object with content c.
LEMMA WriteAtomic ==
  ASSUME IInv, IInv', Working, Working', UNCHANGED <<log, base>>,
         task'.res = task.res, NEW c \in Held,
         content' = [content EXCEPT ![task.res] = c], dying' = dying,
         NEW kind \in {"op", "revert", "other", "lost"}, By(task.res, kind),
         kind = "lost" => task.res \in dying
  PROVE  \E d \in Held : Atomic!Write(d)
<1>1. /\ Atomic!OnSaved /\ InHand = task.res /\ InHand' = InHand
      /\ SeenOnly = Nothing /\ SeenOnly' = Nothing
      /\ SavedContents' = SavedContents /\ HalfMade' = HalfMade
  BY OnSavedAtomic
<1>2. author \in [Resource -> {"op", "revert", "other", "lost"}]
      /\ task.res \in Resource
  BY TaskType DEF IInv, TypeOK
<1>3. LostObjects' = IF kind = "lost" THEN LostObjects \cup {task.res}
                     ELSE LostObjects \ {task.res}
  BY <1>2 DEF LostObjects, By
<1>4. Atomic!Write(c)
  BY <1>1, <1>3 DEF Atomic!Write, log
<1> QED
  BY <1>4

LEMMA ApplyAtomic ==
  ASSUME IInv, IInv', Apply
  PROVE  \/ (\E d \in Held : Atomic!Write(d)) \/ Atomic!Condemn \/ Atomic!GiveUp
         \/ UNCHANGED Atomic!vars
<1> DEFINE Write == \E d \in Held : Atomic!Write(d)
<1>1. Working /\ TypeOK
  BY DEF Working, Apply, RemoveMissing, ScaleDown, RequestDeletion, DeleteAtOnce,
     AwaitRemoval, Create, UpdateInPlace, IInv
<1>2. task.res \in Resource /\ task.goal \in Held /\ Forward \in {"op", "revert"}
  BY <1>1, TaskType
<1>3. Nothing \in Held /\ Drained \in Held /\ content[task.res] \in Held
  BY <1>1, <1>2 DEF Held, Stored, TypeOK
<1>4. CASE RemoveMissing /\ task.kind = "revert"
  <2>1. content' = [content EXCEPT ![task.res] = content[task.res]]
    BY <1>1, <1>4 DEF RemoveMissing, cluster, TypeOK
  <2>2. By(task.res, "revert") /\ Working'
    BY <1>4 DEF RemoveMissing, By, Working
  <2> QED
    BY <1>1, <1>3, <1>4, <2>1, <2>2, WriteAtomic DEF RemoveMissing, cluster
<1>5. CASE RemoveMissing /\ task.kind # "revert"
  <2>1. SavedContents' = SavedContents /\ HalfMade' = HalfMade
    BY <1>5, SameLog DEF RemoveMissing, log
  <2>2. InHand' = Nothing /\ SeenOnly' = Nothing /\ LostObjects' = LostObjects
    BY <1>5 DEF RemoveMissing, InHand, SeenOnly, LostObjects
  <2> QED
    BY <1>5, <2>1, <2>2
       DEF RemoveMissing, Atomic!GiveUp, Atomic!surroundings, cluster, log
<1>6. CASE ScaleDown
  <2>1. Working'
    BY <1>6 DEF ScaleDown, Working
  <2> QED
    BY <1>1, <1>2, <1>3, <1>6, <2>1, WriteAtomic DEF ScaleDown, Unlogged
<1>7. CASE RequestDeletion
  <2>1. Working' /\ UNCHANGED <<log, base, task, content>>
    BY <1>7 DEF RequestDeletion, Unlogged, Working
  <2>2. /\ Atomic!OnSaved /\ InHand = task.res /\ InHand' = InHand
        /\ SeenOnly = Nothing /\ SeenOnly' = Nothing
        /\ SavedContents' = SavedContents /\ HalfMade' = HalfMade
    BY <1>1, <2>1, OnSavedAtomic
  <2>3. LostObjects' = LostObjects \ {task.res}
    BY <1>1, <1>2, <1>7 DEF RequestDeletion, LostObjects, By, TypeOK
  <2> QED
    BY <1>7, <2>1, <2>2, <2>3 DEF RequestDeletion, Atomic!Condemn, log
<1>8. CASE DeleteAtOnce
  <2>1. Working'
    BY <1>8 DEF DeleteAtOnce, Working
  <2> QED
    BY <1>1, <1>2, <1>3, <1>8, <2>1, WriteAtomic DEF DeleteAtOnce, Unlogged
<1>9. CASE AwaitRemoval
  <2>1. InHand' = InHand /\ SeenOnly' = SeenOnly
    BY <1>9 DEF AwaitRemoval, Unlogged, InHand, SeenOnly
  <2> QED
    BY <1>9, <2>1, StutterAtomic DEF AwaitRemoval, Unlogged
<1>10. CASE Create
  <2>1. Working'
    BY <1>10 DEF Create, Working
  <2> QED
    BY <1>1, <1>2, <1>10, <2>1, WriteAtomic DEF Create, Unlogged
<1>11. CASE UpdateInPlace
  <2>1. Working'
    BY <1>11 DEF UpdateInPlace, Working
  <2> DEFINE kind == IF task.res \in dying THEN "lost" ELSE Forward
  <2>2. kind \in {"op", "revert", "other", "lost"} /\ By(task.res, kind)
        /\ (kind = "lost" => task.res \in dying)
    BY <1>2, <1>11 DEF UpdateInPlace
  <2> HIDE DEF kind
  <2> QED
    BY <1>1, <1>2, <1>11, <2>1, <2>2, WriteAtomic DEF UpdateInPlace, Unlogged
<1> QED
  BY <1>4, <1>5, <1>6, <1>7, <1>8, <1>9, <1>10, <1>11 DEF Apply

\* Marking item k: objects other than its own keep what is half-made of them.
LEMMA MarkAtomic ==
  ASSUME IInv, IInv', Working,
         NEW st \in {"completed", "reverted"},
         items' = [items EXCEPT ![task.at].status = st], base' = base
  PROVE  /\ SavedContents' = SavedContents /\ LoggedObjects' = LoggedObjects
         /\ st = "completed" => HalfMade' \in {HalfMade, HalfMade \ {task.res}}
         /\ st = "reverted" => HalfMade' = HalfMade \cup {task.res}
<1>1. items \in Seq(Item) /\ task.at \in DOMAIN items
      /\ items[task.at].res = task.res /\ task.res \in Resource
  BY TaskType DEF IInv, TypeOK, TaskInv
<1>2. DOMAIN items' = DOMAIN items
      /\ \A i \in DOMAIN items : items'[i].res = items[i].res
  BY <1>1, MarkItem
<1>3. \A i \in DOMAIN items : i # task.at => items'[i] = items[i]
  BY <1>1, LenProperties
<1>4. items'[task.at].status = st
  <2>1. items[task.at] \in Item
    BY <1>1, LenProperties, ElementOfSeq
  <2> QED
    BY <1>1, <2>1, LenProperties DEF Item
<1>5. LoggedObjects' = LoggedObjects
  BY <1>2 DEF LoggedObjects, Logged
<1>6. \A r \in Resource : r # task.res => (r \in HalfMade' <=> r \in HalfMade)
  BY <1>1, <1>2, <1>3 DEF HalfMade
<1>7. HalfMade \subseteq Resource /\ HalfMade' \subseteq Resource
  BY DEF HalfMade
<1>8. CASE st = "completed"
  <2>1. task.res \in HalfMade' => task.res \in HalfMade
    BY <1>1, <1>2, <1>3, <1>4, <1>8 DEF HalfMade
  <2> QED
    BY <1>5, <1>6, <1>7, <1>8, <2>1, SavedKept
<1>9. CASE st = "reverted"
  <2>1. task.res \in HalfMade'
    BY <1>1, <1>2, <1>4, <1>9 DEF HalfMade
  <2> QED
    BY <1>5, <1>6, <1>7, <1>9, <2>1, SavedKept
<1> QED
  BY <1>8, <1>9

LEMMA CompleteAtomic == ASSUME IInv, IInv', Complete PROVE Atomic!Finish
<1>1. Working
  BY DEF Complete, Working
<1>2. SavedContents' = SavedContents
      /\ HalfMade' \in {HalfMade, HalfMade \ {task.res}}
  BY <1>1, MarkAtomic DEF Complete
<1>3. InHand = task.res /\ InHand \in LoggedObjects /\ SeenOnly = Nothing
  BY <1>1, InHandLogged
<1>4. InHand' = Nothing /\ SeenOnly' = Nothing /\ LostObjects' = LostObjects
  BY DEF Complete, End, InHand, SeenOnly, LostObjects
<1> QED
  BY <1>2, <1>3, <1>4, SavedDomain
     DEF Complete, Atomic!Finish, Atomic!OnSaved, Atomic!surroundings, cluster

LEMMA ItemRevertedAtomic == ASSUME IInv, IInv', ItemReverted PROVE Atomic!UndoNext
<1>1. Working
  BY DEF ItemReverted, Working
<1>2. SavedContents' = SavedContents /\ LoggedObjects' = LoggedObjects
      /\ HalfMade' = HalfMade \cup {task.res}
  BY <1>1, MarkAtomic DEF ItemReverted
<1>3. InHand = task.res /\ InHand \in LoggedObjects /\ SeenOnly = Nothing
  BY <1>1, InHandLogged
<1>4. InHand' \in LoggedObjects \cup {Nothing} /\ SeenOnly' = Nothing
  <2>1. CASE step' = "close"
    BY <2>1 DEF InHand, SeenOnly
  <2>2. CASE step' = "apply"
    BY <1>2, <2>2, InHandLoggedNext DEF Working
  <2> QED
    BY <2>1, <2>2 DEF ItemReverted, RevertFrom
<1>5. LostObjects' = LostObjects
  BY DEF ItemReverted, LostObjects
<1> QED
  BY <1>2, <1>3, <1>4, <1>5, SavedDomain
     DEF ItemReverted, Atomic!UndoNext, Atomic!OnSaved, Atomic!surroundings, cluster

LEMMA CloseAtomic == ASSUME IInv, IInv', CloseReverted PROVE Atomic!Undone
<1>1. SavedContents' = SavedContents /\ HalfMade' = HalfMade
  BY SameLog DEF CloseReverted
<1>2. /\ InHand = Nothing /\ InHand' = Nothing /\ LostObjects' = LostObjects
      /\ SeenOnly = Nothing /\ SeenOnly' = Nothing
  BY DEF CloseReverted, End, InHand, SeenOnly, LostObjects
<1>3. status \in {"in-progress", "committed"}
      /\ task.kind = "revert" /\ task.at = 0 /\ ReversalInv
  BY DEF CloseReverted, IInv, TaskInv
<1>4. \A r \in Resource : Settled(r)
  BY <1>3 DEF ReversalInv
<1>5. \A r \in LoggedObjects \ LostObjects :
          content[r] = SavedContents[r] /\ r \notin dying
  BY <1>4, SavedIsBase DEF Settled, LoggedObjects, LostObjects
<1> QED
  BY <1>1, <1>2, <1>3, <1>5, SavedDomain
     DEF CloseReverted, Atomic!Undone, Atomic!surroundings, cluster

LEMMA FreezeAtomic == ASSUME IInv, IInv', Freeze PROVE Atomic!Commit
<1>1. SavedContents' = SavedContents /\ HalfMade' = HalfMade
  BY SameLog DEF Freeze
<1>2. /\ InHand = Nothing /\ InHand' = Nothing /\ LostObjects' = LostObjects
      /\ SeenOnly = Nothing /\ SeenOnly' = Nothing
  BY DEF Freeze, InHand, SeenOnly, LostObjects
<1>3. HalfMade = {}
  BY DEF Freeze, AllCompleted, HalfMade
<1> QED
  BY <1>1, <1>2, <1>3 DEF Freeze, Atomic!Commit, Atomic!surroundings, cluster

LEMMA DiscardAtomic == ASSUME IInv, IInv', Discard PROVE Atomic!Forget
<1>1. DOMAIN items' = {}
  BY EmptySeq DEF Discard
<1>2. LoggedObjects' = {} /\ HalfMade' = {}
  BY <1>1 DEF LoggedObjects, Logged, HalfMade
<1>3. SavedContents' = [r \in {} |-> Nothing]
  BY <1>2, SavedIsBaseNext
<1>4. LostObjects' = {}
  BY DEF Discard, LostObjects
<1>5. InHand = Nothing /\ InHand' = Nothing /\ SeenOnly = Nothing /\ SeenOnly' = Nothing
  BY DEF Discard, InHand, SeenOnly
<1> QED
  BY <1>2, <1>3, <1>4, <1>5 DEF Discard, Atomic!Forget, cluster

LEMMA FinaliseAtomic ==
  ASSUME IInv, IInv', NEW r \in Resource, Finalise(r) PROVE Atomic!Vanish(r)
<1>1. \A q \in LoggedObjects : base'[q] = base[q]
  <2>1. base \in [Resource -> Held]
    BY DEF IInv, TypeOK
  <2> QED
    BY <2>1 DEF Finalise, Untouched, Touched, LoggedObjects
<1>2. SavedContents' = SavedContents /\ HalfMade' = HalfMade
  BY <1>1, SameLog DEF Finalise, log
<1>3. /\ InHand' = InHand /\ SeenOnly' = SeenOnly /\ LostObjects' = LostObjects
  BY DEF Finalise, rig, log, InHand, SeenOnly, LostObjects, Logged
<1> QED
  BY <1>2, <1>3 DEF Finalise, Atomic!Vanish, log

LEMMA ForeignWriteAtomic ==
  ASSUME IInv, IInv', NEW r \in Resource, NEW c \in Version \cup {Nothing},
         ForeignWrite(r, c)
  PROVE  \E d \in Held : Atomic!Others(r, d)
<1>1. base \in [Resource -> Held]
      /\ author \in [Resource -> {"op", "revert", "other", "lost"}] /\ c \in Held
  BY DEF IInv, TypeOK, Held, Stored
<1>2. \A q \in LoggedObjects : base'[q] = base[q]
  BY <1>1 DEF ForeignWrite, Untouched, Touched, LoggedObjects
<1>3. SavedContents' = SavedContents /\ HalfMade' = HalfMade
  BY <1>2, SameLog DEF ForeignWrite, log
<1>4. /\ InHand = Nothing /\ InHand' = Nothing
      /\ SeenOnly = Nothing /\ SeenOnly' = Nothing
  BY DEF ForeignWrite, rig, InHand, SeenOnly
<1>5. LostObjects' = LostObjects \ {r}
  BY <1>1 DEF ForeignWrite, By, LostObjects
<1>6. Atomic!Others(r, c)
  BY <1>3, <1>4, <1>5 DEF ForeignWrite, Atomic!Others, log
<1> QED
  BY <1>1, <1>6

LEMMA AbortAtomic == ASSUME IInv, IInv', Abort PROVE Atomic!GiveUp
<1>1. \A q \in LoggedObjects : base'[q] = base[q]
  <2>1. base \in [Resource -> Held]
    BY DEF IInv, TypeOK
  <2> QED
    BY <2>1 DEF Abort, LoggedObjects
<1>2. SavedContents' = SavedContents /\ HalfMade' = HalfMade
  BY <1>1, SameLog DEF Abort, log
<1>3. InHand' = Nothing /\ SeenOnly' = Nothing /\ LostObjects' = LostObjects
  BY DEF Abort, End, InHand, SeenOnly, LostObjects
<1> QED
  BY <1>2, <1>3 DEF Abort, Atomic!GiveUp, Atomic!surroundings, cluster, log

(***************************************************************************)
(* The theorem.                                                            *)
(***************************************************************************)
LEMMA NextAtomic == IInv /\ IInv' /\ [Next]_vars => [Atomic!Next]_Atomic!vars
<1> SUFFICES ASSUME IInv, IInv', [Next]_vars PROVE [Atomic!Next]_Atomic!vars
  OBVIOUS
<1>1. CASE UNCHANGED vars
  BY <1>1, StutterAtomic DEF vars, rig, log, InHand, SeenOnly, Logged
<1>2. CASE Start
  <2>1. ASSUME NEW r \in Resource, BeginDelete(r) PROVE Atomic!Take(r)
    BY <2>1, BeginAtomic DEF BeginDelete
  <2>2. ASSUME NEW r \in Resource, NEW v \in Version, BeginUpsert(r, v)
        PROVE  Atomic!Take(r)
    BY <2>2, BeginAtomic DEF BeginUpsert
  <2> QED
    BY <1>2, <2>1, <2>2, NotFoundAtomic, RefuseAtomic, BeginRevertAtomic,
       FreezeAtomic, DiscardAtomic DEF Start, Atomic!Next
<1>3. CASE Continue
  BY <1>3, RecordAtomic, ApplyAtomic, CompleteAtomic, ItemRevertedAtomic, CloseAtomic
     DEF Continue, Atomic!Next
<1>4. CASE Surroundings
  BY <1>4, FinaliseAtomic, ForeignWriteAtomic, AbortAtomic
     DEF Surroundings, Atomic!Next
<1> QED
  BY <1>1, <1>2, <1>3, <1>4 DEF Next

\* A rig changeset is an atomic changeset, whatever stops between two of its
\* API calls: contents are saved before objects change and stay saved, nothing
\* half-made is committed, and reverted means that what was saved is back.
THEOREM Implements == Spec => ImplementsAtomic
<1> QED
  BY InitAtomic, NextAtomic, Inductive, PTL DEF Spec, ImplementsAtomic, Atomic!Spec
=============================================================================
