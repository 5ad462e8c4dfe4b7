------------------------ MODULE ClusterStatusProofs ------------------------
(***************************************************************************)
(* Proofs about the verdict on the cluster, for any number of pods, nodes  *)
(* and containers, any loads and any number of changes.                    *)
(***************************************************************************)
EXTENDS ClusterStatus, FiniteSetTheorems, TLAPS

\* What the code says of one pod is what Sound asks of it.
LEMMA PodFineness ==
  ASSUME NEW pod \in Pods
  PROVE  /\ PodFine(pod) => pod.ip # NoAddr /\ pod.stage # "unstarted"
         /\ PodStatus(pod).status = "Running" /\ PodStatus(pod).ready = PodStatus(pod).total
              <=> PodFine(pod)
<1> DEFINE ready == {c \in Container : pod.containers[c] = "ready"}
<1>1. /\ pod.stage \in {"unstarted", "init", "main"} /\ pod.reason \in {"", "NodeLost"}
      /\ pod.deleting \in BOOLEAN /\ Possible(pod)
  BY DEF Pods, Pod
<1>2. cassandra \in Container /\ IsFiniteSet(Container)
  BY StatusAssumption
<1>3. Cardinality(ready) = Cardinality(Container) <=> \A c \in Container : pod.containers[c] = "ready"
  <2>1. Cardinality(ready) = Cardinality(Container) => ready = Container
    BY <1>2, FS_Subset
  <2> QED
    BY <2>1
<1>4. ASSUME \A c \in Container : pod.containers[c] = "ready"
      PROVE  /\ pod.stage = "main" /\ pod.ip # NoAddr
             /\ ContainerStatus(pod) = "Running" <=> pod.reason = ""
  <2>1. pod.stage = "main" /\ pod.ip # NoAddr
    BY <1>1, <1>2, <1>4 DEF Possible
  <2>2. Troubles(pod) = {}
    BY <1>4 DEF Troubles
  <2>3. ContainerStatus(pod) = IF pod.reason # "" THEN pod.reason ELSE "Running"
    BY <2>1, <2>2 DEF ContainerStatus, Phase
  <2> QED
    BY <1>1, <2>1, <2>3
<1>5. /\ PodStatus(pod).status = StatusOfPod(pod)
      /\ PodStatus(pod).ready = Cardinality(ready)
      /\ PodStatus(pod).total = Cardinality(Container)
  BY DEF PodStatus, ReadyContainers
<1>6. StatusOfPod(pod) = "Running" <=> ~pod.deleting /\ ContainerStatus(pod) = "Running"
  BY <1>1 DEF StatusOfPod
<1> QED
  BY <1>1, <1>3, <1>4, <1>5, <1>6 DEF PodFine

(***************************************************************************)
(* A finite set of loads has a smallest and a largest element.             *)
(***************************************************************************)
LEMMA SmallerLarger ==
  ASSUME NEW a \in Nat, NEW b \in Nat
  PROVE  /\ Smaller(a, b) \in {a, b} /\ Smaller(a, b) <= a /\ Smaller(a, b) <= b
         /\ Larger(a, b) \in {a, b} /\ a <= Larger(a, b) /\ b <= Larger(a, b)
<1> QED
  BY DEF Smaller, Larger

LEMMA OneMoreLoad ==
  ASSUME NEW U \in SUBSET Nat, NEW x \in Nat, NEW least \in U, NEW most \in U,
         \A n \in U : least <= n /\ n <= most
  PROVE  \E low, high \in U \cup {x} : \A n \in U \cup {x} : low <= n /\ n <= high
<1> DEFINE low == Smaller(x, least)
           high == Larger(x, most)
<1>1. /\ low \in {x, least} /\ low \in Nat /\ low <= x /\ low <= least
      /\ high \in {x, most} /\ high \in Nat /\ x <= high /\ most <= high
  BY SmallerLarger
<1> HIDE DEF low, high
<1>2. low \in U \cup {x} /\ high \in U \cup {x}
  BY <1>1
<1>3. ASSUME NEW n \in U \cup {x} PROVE low <= n /\ n <= high
  <2>1. n \in Nat /\ (n = x \/ (least <= n /\ n <= most))
    OBVIOUS
  <2>2. least \in Nat /\ most \in Nat
    OBVIOUS
  <2> QED
    BY <1>1, <2>1, <2>2
<1> QED
  BY <1>2, <1>3

LEMMA Extremes ==
  ASSUME NEW S \in SUBSET Nat, IsFiniteSet(S), S # {}
  PROVE  \E least, most \in S : \A n \in S : least <= n /\ n <= most
<1> DEFINE Bounded(T) == \E least, most \in T : \A n \in T : least <= n /\ n <= most
           Bad == {T \in SUBSET S : T # {} /\ ~Bounded(T)}
<1> SUFFICES ASSUME Bad # {} PROVE FALSE
  BY DEF Bounded
<1>1. Bad \subseteq FiniteSubsetsOf(S)
  BY FS_FiniteSubsetsOfFinite
<1>2. PICK T \in Bad : \A U \in Bad : <<U, T>> \notin StrictSubsetOrdering(S)
  <2> HIDE DEF Bad
  <2> QED
    BY <1>1, FS_StrictSubsetOrderingWellFounded, WFMin
<1>3. PICK x \in T : TRUE
  OBVIOUS
<1>4. T \subseteq S /\ x \in Nat
  OBVIOUS
<1> DEFINE U == T \ {x}
<1>5. CASE U = {}
  <2>1. \A n \in T : n = x
    BY <1>5
  <2> QED
    BY <1>3, <1>4, <2>1
<1>6. CASE U # {}
  <2>1. U \notin Bad
    BY <1>2, <1>3, <1>4 DEF StrictSubsetOrdering
  <2>2. PICK least, most \in U : \A n \in U : least <= n /\ n <= most
    BY <1>4, <1>6, <2>1
  <2>3. U \cup {x} = T /\ U \in SUBSET Nat /\ x \in Nat
    BY <1>3, <1>4
  <2>4. \E low, high \in T : \A n \in T : low <= n /\ n <= high
    <3> HIDE DEF U, Bad
    <3>1. \E low, high \in U \cup {x} : \A n \in U \cup {x} : low <= n /\ n <= high
      BY <2>2, <2>3, OneMoreLoad
    <3> QED
      BY <2>3, <3>1, Zenon
  <2> QED
    BY <2>4
<1> QED
  BY <1>5, <1>6

\* To compare every pair of nodes is to compare the extremes of those above the
\* threshold.
LEMMA PairsAndExtremes ==
  ASSUME NEW rows, IsFiniteSet(DOMAIN rows), \A a \in DOMAIN rows : rows[a] \in Row
  PROVE  (\A a, b \in DOMAIN rows : ~LoadOverThreshold(rows[a].load, rows[b].load))
           <=> Even(rows)
<1> DEFINE Pairs == \A a, b \in DOMAIN rows : ~LoadOverThreshold(rows[a].load, rows[b].load)
<1>1. Threshold \in Nat /\ Loads \subseteq Nat
  BY StatusAssumption
<1>2. \A a \in DOMAIN rows : rows[a].load \in Loads /\ rows[a].load \in Nat
  BY <1>1 DEF Row
<1>3. \A n : n \in Heavy(rows) <=> \E a \in DOMAIN rows : n = rows[a].load /\ n > Threshold
  BY <1>2 DEF Heavy
<1>4. ASSUME NEW m \in Nat, NEW n \in Nat
      PROVE  ~LoadOverThreshold(m, n)
               <=> (m > Threshold /\ n > Threshold => 4 * m <= 5 * n /\ 4 * n <= 5 * m)
  BY <1>1 DEF LoadOverThreshold, Smaller, Larger
<1>5. ASSUME Pairs PROVE Even(rows)
  <2> SUFFICES ASSUME NEW most \in Heavy(rows), NEW least \in Heavy(rows)
               PROVE  4 * most <= 5 * least
    BY DEF Even
  <2>1. PICK a, b \in DOMAIN rows : /\ most = rows[a].load /\ least = rows[b].load
                                   /\ most > Threshold /\ least > Threshold
    BY <1>3
  <2> QED
    BY <1>2, <1>4, <1>5, <2>1
<1>6. ASSUME Even(rows) PROVE Pairs
  <2> SUFFICES ASSUME NEW a \in DOMAIN rows, NEW b \in DOMAIN rows,
                      rows[a].load > Threshold, rows[b].load > Threshold
               PROVE  4 * rows[a].load <= 5 * rows[b].load
    BY <1>2, <1>4
  <2>1. rows[a].load \in Heavy(rows) /\ rows[b].load \in Heavy(rows)
    BY <1>3
  <2>2. Heavy(rows) \in SUBSET Nat /\ IsFiniteSet(Heavy(rows))
    <3> DEFINE load == [c \in DOMAIN rows |-> rows[c].load]
               Values == {rows[c].load : c \in DOMAIN rows}
    <3>1. load \in Surjection(DOMAIN rows, Values)
      BY DEF Surjection
    <3>2. IsFiniteSet(Values)
      BY <3>1, FS_Surjection
    <3>3. Heavy(rows) \subseteq Values
      BY DEF Heavy
    <3> QED
      BY <1>2, <1>3, <3>2, <3>3, FS_Subset
  <2>3. PICK least, most \in Heavy(rows) :
            \A n \in Heavy(rows) : least <= n /\ n <= most
    BY <2>1, <2>2, Extremes
  <2>4. 4 * most <= 5 * least
    BY <1>6, <2>3 DEF Even
  <2>5. /\ least \in Nat /\ most \in Nat /\ rows[a].load \in Nat /\ rows[b].load \in Nat
        /\ rows[a].load <= most /\ least <= rows[b].load
    BY <2>1, <2>2, <2>3
  <2> QED
    BY <2>4, <2>5
<1> QED
  BY <1>5, <1>6

(***************************************************************************)
(* The verdict of the code is that of Sound, as far as loads parse.  The   *)
(* code compares numbers and looks each pod up; as no two pods share an    *)
(* address, as many rows as pods leave no row without a pod.               *)
(***************************************************************************)
Listing(ps) == [p \in DOMAIN ps |-> PodStatus(ps[p])]

PodsOK(ps) ==
    DOMAIN ps \subseteq Ordinals /\ (\A p \in DOMAIN ps : ps[p] \in Pods) /\ Distinct(ps)

AllParse(rows) == \A a \in DOMAIN rows : Parses(rows[a].load)

RowsOK(rows) == DOMAIN rows \subseteq Addr /\ \A a \in DOMAIN rows : rows[a] \in Row

LEMMA SeveralPods ==
  ASSUME NEW S, IsFiniteSet(S)
  PROVE  Cardinality(S) > 1 <=> \E p, q \in S : p # q
<1>1. Cardinality(S) \in Nat
  BY FS_CardinalityType
<1>2. Cardinality(S) = 0 <=> S = {}
  BY FS_EmptySet
<1>3. Cardinality(S) = 1 <=> \E x : S = {x}
  BY FS_Singleton
<1>4. (\E p, q \in S : p # q) <=> S # {} /\ ~\E x : S = {x}
  OBVIOUS
<1> QED
  BY <1>1, <1>2, <1>3, <1>4

LEMMA EachRowItsPod ==
  ASSUME NEW ps, NEW rows, PodsOK(ps), RowsOK(rows),
         \A p \in DOMAIN ps : ps[p].ip # NoAddr /\ ps[p].ip \in DOMAIN rows
  PROVE  Cardinality(DOMAIN ps) = Cardinality(DOMAIN rows)
           <=> DOMAIN rows = {ps[p].ip : p \in DOMAIN ps}
<1> DEFINE home == [p \in DOMAIN ps |-> ps[p].ip]
<1>1. home \in Injection(DOMAIN ps, DOMAIN rows)
  BY DEF Injection, IsInjective, PodsOK, Distinct
<1>2. IsFiniteSet(DOMAIN rows)
  BY StatusAssumption, FS_Subset DEF RowsOK
<1>3. Cardinality(DOMAIN ps) = Cardinality(DOMAIN rows)
        <=> home \in Surjection(DOMAIN ps, DOMAIN rows)
  BY <1>1, <1>2, FS_Injection
<1>4. home \in Surjection(DOMAIN ps, DOMAIN rows)
        <=> DOMAIN rows = {ps[p].ip : p \in DOMAIN ps}
  BY DEF Surjection
<1> QED
  BY <1>3, <1>4

LEMMA VerdictIsSound ==
  ASSUME NEW ps, NEW rows, PodsOK(ps), RowsOK(rows)
  PROVE  Healthy(Listing(ps), rows) <=> Sound(ps, rows) /\ AllParse(rows)
<1> DEFINE l == Listing(ps)
           Homes == {ps[p].ip : p \in DOMAIN ps}
           GoodRow(a) == rows[a].status = "Up" /\ rows[a].state = "Normal"
           Pairs == \A a, b \in DOMAIN rows : ~LoadOverThreshold(rows[a].load, rows[b].load)
<1>1. /\ IsFiniteSet(DOMAIN ps) /\ IsFiniteSet(DOMAIN rows)
      /\ \A p \in DOMAIN ps : ps[p] \in Pods
      /\ \A a \in DOMAIN rows : rows[a] \in Row
  BY StatusAssumption, FS_Subset DEF PodsOK, RowsOK
<1>2. DOMAIN l = DOMAIN ps /\ \A p \in DOMAIN ps : l[p] = PodStatus(ps[p])
  BY DEF Listing
<1>3. \A p \in DOMAIN ps :
         /\ l[p].ip = ps[p].ip
         /\ PodFine(ps[p]) => ps[p].ip # NoAddr
         /\ l[p].status = "Running" /\ l[p].ready = l[p].total <=> PodFine(ps[p])
  <2> SUFFICES ASSUME NEW p \in DOMAIN ps
               PROVE  /\ l[p].ip = ps[p].ip
                      /\ PodFine(ps[p]) => ps[p].ip # NoAddr
                      /\ l[p].status = "Running" /\ l[p].ready = l[p].total
                           <=> PodFine(ps[p])
    OBVIOUS
  <2>1. l[p] = PodStatus(ps[p]) /\ ps[p] \in Pods
    BY <1>1, <1>2
  <2>2. PodStatus(ps[p]).ip = ps[p].ip
    BY DEF PodStatus
  <2> HIDE DEF l
  <2> QED
    BY <2>1, <2>2, PodFineness
<1>4. Pairs <=> Even(rows)
  BY <1>1, PairsAndExtremes
<1>5. Cardinality(DOMAIN ps) > 1 <=> \E p, q \in DOMAIN ps : p # q
  BY <1>1, SeveralPods
<1> HIDE DEF l, Pairs
<1>6. Healthy(l, rows) <=>
         /\ Cardinality(DOMAIN ps) > 1
         /\ Cardinality(DOMAIN ps) = Cardinality(DOMAIN rows)
         /\ \A p \in DOMAIN ps : /\ PodFine(ps[p]) /\ ps[p].ip \in DOMAIN rows
                                 /\ GoodRow(ps[p].ip)
         /\ AllParse(rows)
         /\ Pairs
  BY <1>2, <1>3 DEF Healthy, Pairs, AllParse
<1>7. ASSUME Healthy(l, rows) PROVE Sound(ps, rows) /\ AllParse(rows)
  <2>1. DOMAIN rows = Homes
    <3>1. \A p \in DOMAIN ps : ps[p].ip # NoAddr /\ ps[p].ip \in DOMAIN rows
      BY <1>3, <1>6, <1>7
    <3>2. Cardinality(DOMAIN ps) = Cardinality(DOMAIN rows)
      BY <1>6, <1>7
    <3> QED
      BY <3>1, <3>2, EachRowItsPod, Zenon
  <2>2. \A a \in DOMAIN rows : GoodRow(a)
    BY <1>6, <1>7, <2>1
  <2> QED
    BY <1>4, <1>5, <1>6, <1>7, <2>1, <2>2 DEF Sound
<1>8. ASSUME Sound(ps, rows), AllParse(rows) PROVE Healthy(l, rows)
  <2>1. /\ \A p \in DOMAIN ps : PodFine(ps[p]) /\ ps[p].ip \in DOMAIN rows
        /\ DOMAIN rows = Homes
        /\ \A a \in DOMAIN rows : GoodRow(a)
        /\ Even(rows) /\ \E p, q \in DOMAIN ps : p # q
    BY <1>8 DEF Sound
  <2>2. Cardinality(DOMAIN ps) = Cardinality(DOMAIN rows)
    <3>1. \A p \in DOMAIN ps : ps[p].ip # NoAddr /\ ps[p].ip \in DOMAIN rows
      BY <1>3, <2>1
    <3> QED
      BY <2>1, <3>1, EachRowItsPod, Zenon
  <2> QED
    BY <1>4, <1>5, <1>6, <1>8, <2>1, <2>2
<1> QED
  BY <1>7, <1>8 DEF l

(***************************************************************************)
(* The invariant: a request carries what it read, and its verdict is about *)
(* what it read.                                                           *)
(***************************************************************************)
ReadInv ==
    /\ PodsOK(podsThen) /\ RowsOK(ringThen)
    /\ step # "idle" => listed = Listing(podsThen) /\ verdict = "none"
    /\ step = "judge" => nodes = ringThen

StatusInd ==
    /\ PodsOK(pods) /\ RowsOK(ring)
    /\ ReadInv
    /\ HealthyMeansSound /\ SoundMeansHealthy

LEMMA NothingIsOK == RowsOK(NoRows) /\ PodsOK(NoRows)
<1> QED
  BY DEF RowsOK, PodsOK, NoRows, Distinct

LEMMA StatusBase == StatusInit => StatusInd
<1> SUFFICES ASSUME StatusInit PROVE StatusInd
  OBVIOUS
<1>1. PICK home \in [Ordinals -> Addr] :
          /\ \A p, q \in Ordinals : p # q => home[p] # home[q]
          /\ pods = [p \in Ordinals |-> FinePod(home[p])]
          /\ \E load \in [{home[p] : p \in Ordinals} -> Loads] :
                 ring = [a \in DOMAIN load |->
                            [status |-> "Up", state |-> "Normal", load |-> load[a]]]
  BY DEF StatusInit
<1>2. PodsOK(pods)
  <2>1. \A a \in Addr : FinePod(a) \in Pods /\ FinePod(a).ip = a
    <3> SUFFICES ASSUME NEW a \in Addr PROVE FinePod(a) \in Pods /\ FinePod(a).ip = a
      OBVIOUS
    <3>1. [c \in Container |-> "ready"] \in [Container -> ContainerStates]
      BY StatusAssumption
    <3>2. FinePod(a) \in Pod
      BY <3>1 DEF FinePod, Pod
    <3> QED
      BY <3>2, StatusAssumption DEF FinePod, Pods, Possible
  <2> QED
    BY <1>1, <2>1 DEF PodsOK, Distinct
<1>3. RowsOK(ring)
  <2>1. PICK load \in [{home[p] : p \in Ordinals} -> Loads] :
            ring = [a \in DOMAIN load |->
                       [status |-> "Up", state |-> "Normal", load |-> load[a]]]
    BY <1>1
  <2>2. "Normal" \in RingStates
    BY StatusAssumption
  <2> QED
    BY <1>1, <2>1, <2>2 DEF RowsOK, Row
<1> QED
  BY <1>2, <1>3, NothingIsOK
     DEF StatusInit, StatusInd, ReadInv, HealthyMeansSound, SoundMeansHealthy

(***************************************************************************)
(* The steps of a request.                                                 *)
(***************************************************************************)
LEMMA ListStep == StatusInd /\ ListPods => StatusInd'
<1> SUFFICES ASSUME StatusInd, ListPods PROVE StatusInd'
  OBVIOUS
<1>1. /\ podsThen' = pods /\ ringThen' = NoRows /\ listed' = Listing(pods)
      /\ step' \in {"idle", "exec"}
      /\ step' # "idle" => verdict' = "none"
      /\ verdict' \in {"error", "none"}
      /\ pods' = pods /\ ring' = ring
  BY DEF ListPods, Answer, Listing, environment
<1> QED
  BY <1>1, NothingIsOK DEF StatusInd, ReadInv, HealthyMeansSound, SoundMeansHealthy

LEMMA NodetoolStep == StatusInd /\ Nodetool => StatusInd'
<1> SUFFICES ASSUME StatusInd, Nodetool PROVE StatusInd'
  OBVIOUS
<1>1. /\ pods' = pods /\ ring' = ring /\ listed' = listed
      /\ podsThen' = podsThen /\ ringThen' = ring
      /\ listed = Listing(podsThen) /\ verdict = "none"
  BY DEF Nodetool, environment, StatusInd, ReadInv
<1>2. CASE \A a \in DOMAIN ring : Matches(ring[a])
  <2>1. nodes' = ring /\ step' = "judge" /\ verdict' = "none"
    BY <1>1, <1>2 DEF Nodetool
  <2> QED
    BY <1>1, <2>1 DEF StatusInd, ReadInv, HealthyMeansSound, SoundMeansHealthy
<1>3. CASE ~\A a \in DOMAIN ring : Matches(ring[a])
  <2>1. step' = "idle" /\ verdict' = "panic"
    BY <1>3 DEF Nodetool, Answer
  <2>2. ~Sound(podsThen, ring)
    BY <1>3 DEF Matches, Sound
  <2> QED
    BY <1>1, <2>1, <2>2 DEF StatusInd, ReadInv, HealthyMeansSound, SoundMeansHealthy
<1> QED
  BY <1>2, <1>3

LEMMA PrintStep == StatusInd /\ PrintFails => StatusInd'
<1> SUFFICES ASSUME StatusInd, PrintFails PROVE StatusInd'
  OBVIOUS
<1>1. /\ pods' = pods /\ ring' = ring /\ podsThen' = podsThen /\ ringThen' = ringThen
      /\ step' = "idle" /\ verdict' = "panic"
  BY DEF PrintFails, Answer, environment, history
<1>2. PICK p \in DOMAIN listed : ~listed[p].started
  BY DEF PrintFails
<1>3. listed = Listing(podsThen) /\ PodsOK(podsThen)
  BY DEF PrintFails, StatusInd, ReadInv
<1>4. p \in DOMAIN podsThen /\ podsThen[p].stage = "unstarted"
  BY <1>2, <1>3 DEF Listing, PodStatus
<1>5. ~Sound(podsThen, ringThen)
  BY <1>4 DEF Sound, PodFine
<1> QED
  BY <1>1, <1>5 DEF StatusInd, ReadInv, HealthyMeansSound, SoundMeansHealthy

LEMMA JudgeStep == StatusInd /\ Judge => StatusInd'
<1> SUFFICES ASSUME StatusInd, Judge PROVE StatusInd'
  OBVIOUS
<1>1. /\ pods' = pods /\ ring' = ring /\ podsThen' = podsThen /\ ringThen' = ringThen
      /\ step' = "idle"
      /\ verdict' = IF Healthy(listed, nodes) THEN "healthy" ELSE "unhealthy"
  BY DEF Judge, Answer, environment, history
<1>2. /\ listed = Listing(podsThen) /\ nodes = ringThen
      /\ PodsOK(podsThen) /\ RowsOK(ringThen)
  BY DEF Judge, StatusInd, ReadInv
<1>3. Healthy(listed, nodes) <=> Sound(podsThen, ringThen) /\ AllParse(ringThen)
  BY <1>2, VerdictIsSound
<1> QED
  BY <1>1, <1>3 DEF AllParse, StatusInd, ReadInv, HealthyMeansSound, SoundMeansHealthy

(***************************************************************************)
(* The steps of pods and ring, which leave the request alone.              *)
(***************************************************************************)
LEMMA RequestUntouched ==
  ASSUME StatusInd, PodsOK(pods'), RowsOK(ring'),
         UNCHANGED <<request, history>>
  PROVE  StatusInd'
<1> QED
  BY DEF StatusInd, ReadInv, HealthyMeansSound, SoundMeansHealthy, request, history

LEMMA PodStep == StatusInd /\ (PodChanges \/ PodGone) => StatusInd'
<1> SUFFICES ASSUME StatusInd, PodChanges \/ PodGone PROVE StatusInd'
  OBVIOUS
<1>1. /\ PodsOK(pods) /\ RowsOK(ring')
      /\ UNCHANGED <<request, history>>
  BY DEF StatusInd, PodChanges, PodGone
<1>2. CASE PodChanges
  <2>1. PICK p \in Ordinals, pod \in Pods :
            /\ pods' = [q \in DOMAIN pods \cup {p} |-> IF q = p THEN pod ELSE pods[q]]
            /\ Distinct(pods')
    BY <1>2 DEF PodChanges
  <2>2. PodsOK(pods')
    BY <1>1, <2>1 DEF PodsOK
  <2> QED
    BY <1>1, <2>2, RequestUntouched
<1>3. CASE PodGone
  <2>1. PICK p \in DOMAIN pods : pods' = [q \in DOMAIN pods \ {p} |-> pods[q]]
    BY <1>3 DEF PodGone
  <2>2. PodsOK(pods')
    BY <1>1, <2>1 DEF PodsOK, Distinct
  <2> QED
    BY <1>1, <2>2, RequestUntouched
<1> QED
  BY <1>2, <1>3

LEMMA RingStep == StatusInd /\ RingChanges => StatusInd'
<1> SUFFICES ASSUME StatusInd, RingChanges PROVE StatusInd'
  OBVIOUS
<1>1. /\ PodsOK(pods') /\ RowsOK(ring)
      /\ UNCHANGED <<request, history>>
  BY DEF StatusInd, RingChanges
<1>2. PICK a \in Addr :
          \/ \E row \in Row :
                 ring' = [b \in DOMAIN ring \cup {a} |-> IF b = a THEN row ELSE ring[b]]
          \/ a \in DOMAIN ring /\ ring' = [b \in DOMAIN ring \ {a} |-> ring[b]]
  BY DEF RingChanges
<1>3. RowsOK(ring')
  BY <1>1, <1>2 DEF RowsOK
<1> QED
  BY <1>1, <1>3, RequestUntouched

LEMMA StatusStep == StatusInd /\ [StatusNext]_statusVars => StatusInd'
<1> SUFFICES ASSUME StatusInd, [StatusNext]_statusVars PROVE StatusInd'
  OBVIOUS
<1>1. CASE ListPods
  BY <1>1, ListStep
<1>2. CASE Nodetool
  BY <1>2, NodetoolStep
<1>3. CASE NodetoolFails
  BY <1>3 DEF NodetoolFails, Answer, environment, history,
              StatusInd, ReadInv, HealthyMeansSound, SoundMeansHealthy
<1>4. CASE PrintFails
  BY <1>4, PrintStep
<1>5. CASE Judge
  BY <1>5, JudgeStep
<1>6. CASE PodChanges \/ PodGone
  BY <1>6, PodStep
<1>7. CASE RingChanges
  BY <1>7, RingStep
<1>8. CASE UNCHANGED statusVars
  BY <1>8 DEF statusVars, environment, request, history,
              StatusInd, ReadInv, HealthyMeansSound, SoundMeansHealthy
<1> QED
  BY <1>1, <1>2, <1>3, <1>4, <1>5, <1>6, <1>7, <1>8 DEF StatusNext

LEMMA StatusInvariant == StatusSpec => []StatusInd
<1> QED
  BY StatusBase, StatusStep, PTL DEF StatusSpec

(***************************************************************************)
(* Types.                                                                  *)
(***************************************************************************)
LEMMA ReadyOfTotal ==
  ASSUME NEW pod
  PROVE  PodStatus(pod).ready \in 0 .. PodStatus(pod).total
<1> DEFINE ready == {c \in Container : pod.containers[c] = "ready"}
<1>1. IsFiniteSet(Container) /\ ready \subseteq Container
  BY StatusAssumption
<1>2. IsFiniteSet(ready) /\ Cardinality(ready) <= Cardinality(Container)
  BY <1>1, FS_Subset
<1>3. Cardinality(ready) \in Nat /\ Cardinality(Container) \in Nat
  BY <1>1, <1>2, FS_CardinalityType
<1>4. PodStatus(pod).ready = Cardinality(ready)
      /\ PodStatus(pod).total = Cardinality(Container)
  BY DEF PodStatus, ReadyContainers
<1> QED
  BY <1>2, <1>3, <1>4

LEMMA TypeBase == StatusInit => StatusTypeOK
<1> SUFFICES ASSUME StatusInit PROVE StatusTypeOK
  OBVIOUS
<1>1. PodsOK(pods) /\ RowsOK(ring)
  BY StatusBase DEF StatusInd
<1>2. changes \in 0 .. MaxChanges
  BY StatusAssumption DEF StatusInit
<1> QED
  BY <1>1, <1>2 DEF StatusInit, StatusTypeOK, PodsOK, RowsOK, NoRows

LEMMA TypeStep == StatusTypeOK /\ [StatusNext]_statusVars => StatusTypeOK'
<1> SUFFICES ASSUME StatusTypeOK, [StatusNext]_statusVars PROVE StatusTypeOK'
  OBVIOUS
<1> USE DEF StatusTypeOK, environment, history, Answer
<1>1. CASE ListPods
  <2>1. DOMAIN listed' = DOMAIN pods
        /\ \A p \in DOMAIN listed' : listed'[p] = PodStatus(pods[p])
    BY <1>1 DEF ListPods
  <2>2. \A p \in DOMAIN listed' : listed'[p].ready \in 0 .. listed'[p].total
    BY <2>1, ReadyOfTotal
  <2>3. /\ nodes' = NoRows /\ UNCHANGED environment
        /\ step' \in {"idle", "exec"} /\ verdict' \in {"error", "none"}
    BY <1>1 DEF ListPods
  <2> QED
    BY <2>1, <2>2, <2>3 DEF NoRows
<1>2. CASE Nodetool
  <2>1. /\ nodes' \in {nodes, ring} /\ UNCHANGED <<environment, listed>>
        /\ step' \in {"idle", "judge"} /\ verdict' \in {"panic", verdict}
    BY <1>2 DEF Nodetool
  <2> QED
    BY <2>1
<1>3. CASE NodetoolFails \/ PrintFails \/ Judge
  <2>1. /\ UNCHANGED <<environment, listed, nodes>>
        /\ step' = "idle" /\ verdict' \in {"error", "panic", "healthy", "unhealthy"}
    BY <1>3 DEF NodetoolFails, PrintFails, Judge
  <2> QED
    BY <2>1
<1>4. ASSUME Change PROVE changes' \in 0 .. MaxChanges
  BY <1>4, StatusAssumption DEF Change
<1>5. CASE PodChanges
  BY <1>4, <1>5 DEF PodChanges, request
<1>6. CASE PodGone
  BY <1>4, <1>6 DEF PodGone, request
<1>7. CASE RingChanges
  BY <1>4, <1>7 DEF RingChanges, request
<1>8. CASE UNCHANGED statusVars
  BY <1>8 DEF statusVars, request
<1> QED
  BY <1>1, <1>2, <1>3, <1>5, <1>6, <1>7, <1>8 DEF StatusNext

\* Every state is well-typed; in particular no pod that a request lists has more
\* containers ready than it has (DeterminePodStatus, kubernetes/status.go).
THEOREM StatusTypeCorrect == StatusSpec => []StatusTypeOK
<1> QED
  BY TypeBase, TypeStep, PTL DEF StatusSpec

\* No request calls a cluster healthy (isClusterHealthy, status.go:156-195) of
\* which the pods it listed and the ring it then read were not sound.
THEOREM HealthyIsSound == StatusSpec => []HealthyMeansSound
<1>1. StatusInd => HealthyMeansSound
  BY DEF StatusInd
<1> QED
  BY <1>1, StatusInvariant, PTL

\* No request panics at a cluster that was sound when it looked, or calls it unhealthy
\* unless nodetool printed the load of a node in bytes.
THEOREM SoundIsHealthy == StatusSpec => []SoundMeansHealthy
<1>1. StatusInd => SoundMeansHealthy
  BY DEF StatusInd
<1> QED
  BY <1>1, StatusInvariant, PTL
=============================================================================
