------------------------ MODULE ChangesetRefinement ------------------------
(***************************************************************************)
(* Changeset implements AtomicChangeset: what the abstract changeset keeps *)
(* as saved contents is in the log, in the first item about each object.   *)
(***************************************************************************)
EXTENDS Changeset

LoggedObjects == {r \in Resource : Logged(r)}

FirstAbout(r) == CHOOSE i \in DOMAIN items : items[i].res = r /\ First(i)

SavedContents == [r \in LoggedObjects |-> items[FirstAbout(r)].from]

HalfMade ==
    {r \in Resource :
        \E i \in DOMAIN items : items[i].res = r /\ items[i].status # "completed"}

LostObjects == {r \in Resource : author[r] = "lost"}

InHand == IF step \in {"idle", "close"} THEN Nothing ELSE task.res

SeenOnly ==
    IF step = "record" /\ ~Logged(task.res) THEN task.from ELSE Nothing

Atomic == INSTANCE AtomicChangeset WITH
    Object <- Resource, Content <- Held, None <- Nothing,
    objects <- content, condemned <- dying, lost <- LostObjects,
    state <- status, saved <- SavedContents, half <- HalfMade,
    busy <- InHand, seen <- SeenOnly

\* The log and the API calls of rig amount to an atomic changeset: whatever
\* stops half-way, contents are saved before objects change and stay saved,
\* half-made changes are never committed, and reverted means restored.
ImplementsAtomic == Atomic!Spec
=============================================================================
