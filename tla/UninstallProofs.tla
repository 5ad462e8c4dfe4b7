-------------------------- MODULE UninstallProofs --------------------------
(***************************************************************************)
(* Proofs about the uninstall Job, for any script of that shape, any       *)
(* objects and any number of containers and faults.                        *)
(***************************************************************************)
EXTENDS Uninstall, SequenceTheorems, TLAPS

\* Does this container still come to line i.
Ahead(i) == IF state = "running" /\ line <= i THEN 1 ELSE 0

\* A container tries each line once: it deletes what the line names or is refused,
\* if it is not killed before.
TriedInv ==
    /\ \A i \in DOMAIN Commands : \A o \in Commands[i] :
           /\ refused[o] + Ahead(i) <= containers
           /\ o \in present => refused[o] + Ahead(i) >= containers - kills
    /\ \A o \in Objects :
           (\A i \in DOMAIN Commands : o \notin Commands[i]) => refused[o] = 0

KillInv == state = "running" => kills < containers

UninstallInd == UninstallTypeOK /\ DoneMeansSecretsGone /\ KillInv /\ TriedInv

LEMMA Script ==
  /\ Len(Commands) \in Nat /\ Len(Commands) > 0 /\ DOMAIN Commands = 1 .. Len(Commands)
  /\ \A i \in DOMAIN Commands : Commands[i] \subseteq Objects
  /\ MaxContainers \in Nat \ {0} /\ MaxFaults \in Nat
<1>1. Commands \in Seq(SUBSET Objects) /\ Commands # << >>
  BY CommandAssumption
<1>2. Len(Commands) \in Nat /\ DOMAIN Commands = 1 .. Len(Commands)
  BY <1>1
<1>3. Len(Commands) > 0
  BY <1>1, <1>2, EmptySeq
<1> QED
  BY <1>1, <1>2, <1>3, UninstallBoundAssumption

LEMMA Successor == \A n \in Nat : \A l \in 1 .. n : l # n => l + 1 \in 1 .. n
<1> QED
  OBVIOUS

LEMMA InitInd == Init => UninstallInd
<1> SUFFICES ASSUME Init PROVE UninstallInd
  OBVIOUS
<1>1. UninstallTypeOK /\ DoneMeansSecretsGone /\ KillInv
  BY Script DEF Init, UninstallTypeOK, DoneMeansSecretsGone, KillInv
<1>2. TriedInv
  BY Script DEF Init, TriedInv, Ahead
<1> QED
  BY <1>1, <1>2 DEF UninstallInd

\* The same count when line has been tried and the next one not.
After(i) == IF line < i THEN 1 ELSE 0

LEMMA DeleteTries ==
  ASSUME UninstallInd, NEW kept \in SUBSET Commands[line], Delete(kept),
         NEW i \in DOMAIN Commands, NEW o \in Commands[i]
  PROVE  /\ refused'[o] \in Nat /\ refused'[o] + After(i) <= containers
         /\ o \in present' => refused'[o] + After(i) >= containers - kills
<1>1. /\ line \in Nat /\ i \in Nat /\ o \in Objects /\ containers \in Nat /\ kills \in Nat
      /\ refused[o] \in Nat
  BY Script DEF UninstallInd, UninstallTypeOK
<1>2. /\ refused[o] + Ahead(i) <= containers
      /\ o \in present => refused[o] + Ahead(i) >= containers - kills
  BY DEF UninstallInd, TriedInv
<1>3. Ahead(i) = IF line <= i THEN 1 ELSE 0
  BY DEF Delete, Ahead
<1>4. refused'[o] = IF o \in kept THEN refused[o] + 1 ELSE refused[o]
  BY <1>1 DEF Delete
<1>5. CASE i = line
  <2>1. o \in present' => o \in present /\ o \in kept
    BY <1>5 DEF Delete
  <2> QED
    BY <1>1, <1>2, <1>3, <1>4, <1>5, <2>1 DEF After
<1>6. CASE i # line
  <2>1. o \notin kept
    BY <1>6, CommandAssumption DEF UninstallInd, UninstallTypeOK
  <2>2. o \in present' => o \in present
    BY DEF Delete
  <2> QED
    BY <1>1, <1>2, <1>3, <1>4, <1>6, <2>1, <2>2 DEF After
<1> QED
  BY <1>5, <1>6

LEMMA DeleteInd ==
  ASSUME UninstallInd, NEW kept \in SUBSET Commands[line], Delete(kept)
  PROVE  UninstallInd'
<1> DEFINE ok == AllThere(Commands[line]) /\ kept = {}
<1>1. /\ UninstallTypeOK /\ KillInv /\ state = "running" /\ kills < containers
      /\ line \in 1 .. Len(Commands) /\ containers \in Nat /\ kills \in Nat
      /\ kills' = kills
  BY Script DEF UninstallInd, UninstallTypeOK, KillInv, Delete
<1>2. /\ present' \subseteq present /\ present' = present \ (Commands[line] \ kept)
      /\ faults' \in 0 .. MaxFaults
  BY Script DEF UninstallInd, UninstallTypeOK, Delete
<1>3. /\ refused' \in [Objects -> Nat]
      /\ \A i \in DOMAIN Commands : \A o \in Commands[i] :
            /\ refused'[o] + After(i) <= containers
            /\ o \in present' => refused'[o] + After(i) >= containers - kills
      /\ \A o \in Objects :
            (\A i \in DOMAIN Commands : o \notin Commands[i]) => refused'[o] = 0
  <2>1. refused' \in [Objects -> Nat]
    BY <1>1 DEF UninstallTypeOK, Delete
  <2>2. \A o \in Objects :
            (\A i \in DOMAIN Commands : o \notin Commands[i]) => refused'[o] = 0
    BY <1>1, Script DEF UninstallInd, TriedInv, UninstallTypeOK, Delete
  <2> QED
    BY <2>1, <2>2, DeleteTries
<1>4. \A o \in Objects : refused'[o] <= containers
  <2> SUFFICES ASSUME NEW o \in Objects PROVE refused'[o] <= containers
    OBVIOUS
  <2>1. CASE \E i \in DOMAIN Commands : o \in Commands[i]
    BY <1>1, <1>3, <2>1, Script DEF After
  <2>2. CASE \A i \in DOMAIN Commands : o \notin Commands[i]
    BY <1>1, <1>3, <2>2
  <2> QED
    BY <2>1, <2>2
<1>5. CASE ~LastLine
  <2>1. line' = line + 1 /\ UNCHANGED <<state, containers, found>>
    BY <1>5 DEF Delete, NextLine
  <2>2. line + 1 \in DOMAIN Commands
    <3>1. line # Len(Commands)
      BY <1>5 DEF LastLine
    <3>2. /\ Len(Commands) \in Nat /\ line \in 1 .. Len(Commands)
          /\ DOMAIN Commands = 1 .. Len(Commands)
      BY <1>1, Script
    <3> QED
      BY <3>1, <3>2, Successor, Zenon
  <2>3. \A i \in DOMAIN Commands : Ahead(i)' = After(i)
    BY <1>1, <2>1, Script DEF Ahead, After
  <2>4. UninstallTypeOK'
    BY <1>1, <1>2, <1>3, <1>4, <2>1, <2>2 DEF UninstallTypeOK
  <2>5. TriedInv'
    BY <1>1, <1>3, <2>1, <2>3 DEF TriedInv
  <2> QED
    BY <1>1, <2>1, <2>4, <2>5 DEF UninstallInd, KillInv, DoneMeansSecretsGone
<1>6. CASE LastLine
  <2>1. Exit(ok)
    BY <1>6 DEF Delete, NextLine
  <2>2. \A i \in DOMAIN Commands : After(i) = 0
    BY <1>1, <1>6, Script DEF LastLine, After
  <2>3. CASE ok /\ state' = "done" /\ UNCHANGED <<line, containers, found>>
    <3>1. \A i \in DOMAIN Commands : Ahead(i)' = 0
      BY <2>3 DEF Ahead
    <3>2. UninstallTypeOK'
      BY <1>1, <1>2, <1>3, <1>4, <2>3 DEF UninstallTypeOK
    <3>3. DoneMeansSecretsGone'
      BY <1>1, <1>2, <1>6, <2>3
      DEF UninstallTypeOK, DoneMeansSecretsGone, AllThere, LastLine
    <3>4. TriedInv'
      BY <1>1, <1>3, <2>2, <2>3, <3>1 DEF TriedInv
    <3> QED
      BY <2>3, <3>2, <3>3, <3>4 DEF UninstallInd, KillInv
  <2>4. CASE /\ MayRestart /\ line' = 1 /\ containers' = containers + 1
             /\ found' = present' /\ state' = state
    <3>1. \A i \in DOMAIN Commands : Ahead(i)' = 1
      BY <1>1, <2>4, Script DEF Ahead
    <3>2. UninstallTypeOK'
      BY <1>1, <1>2, <1>3, <1>4, <2>4, Script DEF UninstallTypeOK, MayRestart
    <3>3. TriedInv'
      BY <1>1, <1>3, <2>2, <2>4, <3>1, Script DEF TriedInv
    <3> QED
      BY <1>1, <2>4, <3>2, <3>3 DEF UninstallInd, KillInv, DoneMeansSecretsGone
  <2>5. CASE state' = "failed" /\ UNCHANGED <<line, containers, found>>
    <3>1. \A i \in DOMAIN Commands : Ahead(i)' = 0
      BY <2>5 DEF Ahead
    <3>2. UninstallTypeOK'
      BY <1>1, <1>2, <1>3, <1>4, <2>5 DEF UninstallTypeOK
    <3>3. TriedInv'
      BY <1>1, <1>3, <2>2, <2>5, <3>1 DEF TriedInv
    <3> QED
      BY <2>5, <3>2, <3>3 DEF UninstallInd, KillInv, DoneMeansSecretsGone
  <2> QED
    BY <2>1, <2>3, <2>4, <2>5 DEF Exit
<1> QED
  BY <1>5, <1>6

LEMMA KilledInd == ASSUME UninstallInd, ContainerKilled PROVE UninstallInd'
<1>1. /\ UninstallTypeOK /\ KillInv /\ TriedInv /\ state = "running" /\ kills < containers
      /\ containers \in Nat /\ kills \in Nat /\ kills' = kills + 1
      /\ UNCHANGED <<present, refused>> /\ faults' \in 0 .. MaxFaults
      /\ \A o \in Objects : refused[o] \in Nat
  BY Script DEF UninstallInd, UninstallTypeOK, KillInv, ContainerKilled
<1>2. CASE MayRestart /\ line' = 1 /\ containers' = containers + 1 /\ found' = present'
           /\ state' = state
  <2>1. \A i \in DOMAIN Commands : Ahead(i)' = 1 /\ Ahead(i) \in {0, 1}
    BY <1>1, <1>2, Script DEF Ahead
  <2>2. UninstallTypeOK'
    BY <1>1, <1>2, Script DEF UninstallTypeOK, MayRestart
  <2>3. TriedInv'
    BY <1>1, <1>2, <2>1, Script DEF TriedInv
  <2> QED
    BY <1>1, <1>2, <2>2, <2>3 DEF UninstallInd, KillInv, DoneMeansSecretsGone
<1>3. CASE state' = "failed" /\ UNCHANGED <<line, containers, found>>
  <2>1. \A i \in DOMAIN Commands : Ahead(i)' = 0 /\ Ahead(i) \in {0, 1}
    BY <1>3 DEF Ahead
  <2>2. UninstallTypeOK'
    BY <1>1, <1>3 DEF UninstallTypeOK
  <2>3. TriedInv'
    BY <1>1, <1>3, <2>1, Script DEF TriedInv
  <2> QED
    BY <1>1, <1>3, <2>2, <2>3 DEF UninstallInd, KillInv, DoneMeansSecretsGone
<1> QED
  BY <1>2, <1>3 DEF ContainerKilled, Exit

LEMMA NextInd == UninstallInd /\ [Next]_vars => UninstallInd'
<1> SUFFICES ASSUME UninstallInd, [Next]_vars PROVE UninstallInd'
  OBVIOUS
<1>1. CASE UNCHANGED vars
  BY <1>1 DEF vars, job, UninstallInd, UninstallTypeOK, DoneMeansSecretsGone, KillInv,
     TriedInv, Ahead
<1> QED
  BY <1>1, DeleteInd, KilledInd DEF Next

LEMMA AlwaysInd == Spec => []UninstallInd
<1> QED
  BY InitInd, NextInd, PTL DEF Spec

\* Lines, containers and counts of the Job stay well-typed.
THEOREM UninstallTypeCorrect == Spec => []UninstallTypeOK
<1>1. UninstallInd => UninstallTypeOK
  BY DEF UninstallInd
<1> QED
  BY <1>1, AlwaysInd, PTL

\* A Job that succeeded found and deleted what the last line of the script names,
\* the two Secrets, in one container.
THEOREM DoneAlwaysMeansGone == Spec => []DoneMeansSecretsGone
<1>1. UninstallInd => DoneMeansSecretsGone
  BY DEF UninstallInd
<1> QED
  BY <1>1, AlwaysInd, PTL

\* What is left of the script's objects was refused in every container that was
\* not killed: a failure keeps no later line from being tried.
THEOREM SurvivorsAlwaysRefused == Spec => []SurvivorsWereRefused
<1>1. UninstallInd => SurvivorsWereRefused
  <2> SUFFICES ASSUME UninstallInd, state # "running", NEW o \in present \ Others
               PROVE  refused[o] >= containers - kills
    BY DEF SurvivorsWereRefused
  <2>1. PICK i \in DOMAIN Commands : o \in Commands[i]
    BY DEF UninstallInd, UninstallTypeOK, Objects
  <2>2. Ahead(i) = 0 /\ refused[o] \in Nat
    BY <2>1, Script DEF Ahead, UninstallInd, UninstallTypeOK
  <2> QED
    BY <2>1, <2>2 DEF UninstallInd, TriedInv
<1> QED
  BY <1>1, AlwaysInd, PTL
=============================================================================
