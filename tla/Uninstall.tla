----------------------------- MODULE Uninstall -----------------------------
(***************************************************************************)
(* images/uninstall/uninstall.sh, run by the Job pithos-app-uninstall.     *)
(* The script does not stop at a command that fails and ends with the      *)
(* status of its last one.  `kubectl delete` goes on after an object it    *)
(* cannot delete and fails then, and also when an object is not there.     *)
(***************************************************************************)
EXTENDS Naturals, Sequences

CONSTANTS
    Commands,        \* for each line of the script, the objects it deletes
    Others,          \* objects of Pithos the script does not name
    MaxContainers,   \* backoffLimit: containers the Job starts at most
    MaxFaults        \* bound: calls that fail and containers that are killed

Objects == (UNION {Commands[i] : i \in DOMAIN Commands}) \cup Others

ASSUME CommandAssumption ==
    /\ Commands \in Seq(SUBSET Objects) /\ Commands # << >>
    /\ \A i, j \in DOMAIN Commands : i # j => Commands[i] \cap Commands[j] = {}
ASSUME UninstallBoundAssumption == MaxContainers \in Nat \ {0} /\ MaxFaults \in Nat

VARIABLES
    present,     \* objects there are
    line,        \* the next line of the script
    state,       \* of the Job: "running", "done", "failed"
    containers,  \* containers it has started
    kills,       \* and those that were killed
    found,       \* history: the objects there were when the container started
    refused,     \* history: for each object, deletions that the API server refused
    faults

job == <<line, state, containers, found>>
vars == <<present, job, kills, refused, faults>>

LastLine == line = Len(Commands)

UninstallTypeOK ==
    /\ present \subseteq found /\ found \subseteq Objects
    /\ line \in DOMAIN Commands
    /\ state \in {"running", "done", "failed"}
    /\ containers \in 1 .. MaxContainers
    /\ kills \in 0 .. containers
    /\ refused \in [Objects -> 0 .. containers]
    /\ faults \in 0 .. MaxFaults

\* An installation may have left objects out, or somebody has deleted some.
Init ==
    /\ present \in SUBSET Objects /\ found = present
    /\ line = 1 /\ state = "running" /\ containers = 1
    /\ refused = [o \in Objects |-> 0]
    /\ kills = 0 /\ faults = 0

----------------------------------------------------------------------------
\* Faulty: one container more than the Job allows.
OneMore == containers <= MaxContainers

MayRestart == containers < MaxContainers

\* The container ends; restartPolicy OnFailure.
Exit(ok) ==
    \/ ok /\ state' = "done" /\ UNCHANGED <<line, containers, found>>
    \/ ~ok /\ MayRestart
       /\ line' = 1 /\ containers' = containers + 1 /\ found' = present'
       /\ UNCHANGED state
    \/ ~ok /\ ~MayRestart
       /\ state' = "failed" /\ UNCHANGED <<line, containers, found>>

\* Faulty: set -e
StopAtFailure(ok) ==
    IF LastLine \/ ~ok THEN Exit(ok)
    ELSE line' = line + 1 /\ UNCHANGED <<state, containers, found>>

NextLine(ok) ==
    IF LastLine THEN Exit(ok)
    ELSE line' = line + 1 /\ UNCHANGED <<state, containers, found>>

\* Faulty: --ignore-not-found
Tolerant(objects) == TRUE

AllThere(objects) == objects \subseteq present

\* One line deletes what it finds, except what the API server refuses to delete.
Delete(kept) ==
    /\ state = "running" /\ kept \subseteq Commands[line] \cap present
    /\ IF kept = {} THEN UNCHANGED faults
       ELSE faults < MaxFaults /\ faults' = faults + 1
    /\ present' = present \ (Commands[line] \ kept)
    /\ refused' = [o \in Objects |-> IF o \in kept THEN refused[o] + 1 ELSE refused[o]]
    /\ NextLine(AllThere(Commands[line]) /\ kept = {})
    /\ UNCHANGED kills

ContainerKilled ==
    /\ state = "running" /\ faults < MaxFaults /\ faults' = faults + 1
    /\ UNCHANGED <<present, refused>>
    /\ Exit(FALSE) /\ kills' = kills + 1

Next ==
    \/ \E kept \in SUBSET Commands[line] : Delete(kept)
    \/ ContainerKilled

Spec == Init /\ [][Next]_vars

----------------------------------------------------------------------------
\* The Job succeeds only when one container found both Secrets and deleted them
\* (the last line of uninstall.sh): they are gone, and the keys with them.  Once a
\* Secret is gone and its container failed, the Job cannot succeed any more.
DoneMeansSecretsGone ==
    state = "done" =>
        Commands[Len(Commands)] \subseteq found \ present

\* Whatever the script names and is still there when the Job has ended was refused
\* by the API server in every container that was not killed: no failure keeps the
\* lines after it from being tried (uninstall.sh has no errexit).
SurvivorsWereRefused ==
    state # "running" =>
        \A o \in present \ Others : refused[o] >= containers - kills
=============================================================================
