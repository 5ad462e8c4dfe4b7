-------------------------- MODULE AtomicChangeset --------------------------
(***************************************************************************)
(* What a changeset promises, without its log: before an object is         *)
(* changed its content is saved; what was saved stays as it is until the   *)
(* changeset is forgotten; a changeset is committed only when no change is *)
(* half-made, and is called reverted only when what was saved is back.     *)
(*                                                                         *)
(* Module ChangesetRefinement shows that Changeset implements this.        *)
(***************************************************************************)
CONSTANTS Object, Content,
          None         \* no object, and the content of one that is not there

VARIABLES
    objects,     \* the content of each object
    condemned,   \* objects that will disappear
    lost,        \* objects last changed when they were condemned
    state,       \* "absent", "in-progress", "committed", "reverted"
    saved,       \* what to go back to, for the objects of the changeset
    half,        \* objects with a change not carried out, or partly undone
    busy,        \* the object a command works on, if any
    seen         \* its content when the command first saw it, until saved

vars == <<objects, condemned, lost, state, saved, half, busy, seen>>
surroundings == <<objects, condemned, lost>>

Init ==
    /\ objects \in [Object -> Content]
    /\ condemned = {} /\ lost = {}
    /\ state = "absent"
    /\ saved = [r \in {} |-> None]
    /\ half = {} /\ busy = None /\ seen = None

----------------------------------------------------------------------------
IsOpen == busy = None /\ state \in {"absent", "in-progress"}

OpenOnly ==
    /\ IsOpen
    /\ state' = "in-progress"
    /\ UNCHANGED <<surroundings, saved, half, busy, seen>>

Take(r) ==
    /\ IsOpen
    /\ state' = "in-progress"
    /\ busy' = r
    /\ seen' = IF r \in DOMAIN saved THEN None ELSE objects[r]
    /\ UNCHANGED <<surroundings, saved, half>>

\* Only an object without a saved content gets one.
Save ==
    /\ busy # None
    /\ saved' = [r \in DOMAIN saved \cup {busy} |->
                    IF r \in DOMAIN saved THEN saved[r] ELSE seen]
    /\ half' = half \cup {busy}
    /\ seen' = None
    /\ UNCHANGED <<surroundings, state, busy>>

\* Only an object whose content is saved may be changed or condemned.
OnSaved == busy \in DOMAIN saved /\ seen = None

Write(c) ==
    /\ OnSaved
    /\ objects' = [objects EXCEPT ![busy] = c]
    /\ \/ lost' = lost \ {busy}
       \/ busy \in condemned /\ lost' = lost \cup {busy}
    /\ UNCHANGED <<condemned, state, saved, half, busy, seen>>

Condemn ==
    /\ OnSaved
    /\ condemned' = condemned \cup {busy}
    /\ lost' = lost \ {busy}
    /\ UNCHANGED <<objects, state, saved, half, busy, seen>>

Finish ==
    /\ OnSaved
    /\ busy' = None
    /\ half' \in {half, half \ {busy}}
    /\ UNCHANGED <<surroundings, state, saved, seen>>

GiveUp ==
    /\ busy' = None /\ seen' = None
    /\ UNCHANGED <<surroundings, state, saved, half>>

Commit ==
    /\ busy = None /\ state = "in-progress" /\ half = {}
    /\ state' = "committed"
    /\ UNCHANGED <<surroundings, saved, half, busy, seen>>

BeginUndo ==
    /\ busy = None /\ state \in {"in-progress", "committed"}
    /\ busy' \in DOMAIN saved
    /\ UNCHANGED <<surroundings, state, saved, half, seen>>

UndoNext ==
    /\ OnSaved
    /\ busy' \in DOMAIN saved \cup {None}
    /\ half' = half \cup {busy}
    /\ UNCHANGED <<surroundings, state, saved, seen>>

Undone ==
    /\ busy = None /\ state \in {"in-progress", "committed"}
    /\ \A r \in DOMAIN saved \ lost : objects[r] = saved[r] /\ r \notin condemned
    /\ state' = "reverted"
    /\ UNCHANGED <<surroundings, saved, half, busy, seen>>

Forget ==
    /\ busy = None /\ state # "absent"
    /\ state' = "absent"
    /\ saved' = [r \in {} |-> None]
    /\ half' = {} /\ lost' = {}
    /\ UNCHANGED <<objects, condemned, busy, seen>>

\* Somebody else writes an object, or one that is condemned disappears.
Others(r, c) ==
    /\ busy = None /\ r \notin condemned
    /\ objects' = [objects EXCEPT ![r] = c]
    /\ lost' = lost \ {r}
    /\ UNCHANGED <<condemned, state, saved, half, busy, seen>>

Vanish(r) ==
    /\ r \in condemned
    /\ objects' = [objects EXCEPT ![r] = None]
    /\ condemned' = condemned \ {r}
    /\ UNCHANGED <<lost, state, saved, half, busy, seen>>

Next ==
    \/ OpenOnly \/ Save \/ Condemn \/ Finish \/ GiveUp
    \/ Commit \/ BeginUndo \/ UndoNext \/ Undone \/ Forget
    \/ \E r \in Object : Take(r) \/ Vanish(r)
    \/ \E c \in Content : Write(c)
    \/ \E r \in Object, c \in Content : Others(r, c)

Spec == Init /\ [][Next]_vars
=============================================================================
