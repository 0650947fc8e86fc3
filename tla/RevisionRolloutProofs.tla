----------------------- MODULE RevisionRolloutProofs -----------------------
(* What holds of every revision, however many phases and objects it has:   *)
(* the types, that the API server takes every status, that a pinned        *)
(* revision writes nothing but what its hash stands for, that the counts   *)
(* are true, and that the deadline is not reported before its time.        *)
EXTENDS RevisionRollout, LeastElement, FiniteSetTheorems, TLAPS

-----------------------------------------------------------------------------
(* Sums.  The counts of a revision are sums over its phases, defined by    *)
(* recursion over sets: that there is such a sum, that it is a number and  *)
(* that it depends on the counts alone follows from a set of least size    *)
(* for which it would not be so.                                           *)

Any(S) == CHOOSE x \in S : TRUE

\* it adds up the field f over the sets of phases in Sets.
AddsUp(it, phases, f, Sets) ==
  it = [S \in Sets |-> IF S = {} THEN 0 ELSE phases[Any(S)].counts[f] + it[S \ {Any(S)}]]

Recurs(it, phases, f, D) ==
  \A S \in SUBSET D :
    it[S] = IF S = {} THEN 0 ELSE phases[Any(S)].counts[f] + it[S \ {Any(S)}]

Smaller(D, n) == {S \in SUBSET D : Cardinality(S) <= n}

SumOf(phases, f) == Status!MapThenSumSet(LAMBDA k : phases[k].counts[f], DOMAIN phases)

LEMMA AnyIsMember ==
  ASSUME NEW S, S # {}
  PROVE  Any(S) \in S
BY DEF Any

\* A part of a finite set without one of its members.
LEMMA WithoutAny ==
  ASSUME NEW D, IsFiniteSet(D), NEW S \in SUBSET D, S # {}
  PROVE  /\ S \ {Any(S)} \in SUBSET D
         /\ Cardinality(S) \in Nat /\ Cardinality(S \ {Any(S)}) = Cardinality(S) - 1
<1>1. IsFiniteSet(S) /\ Any(S) \in S
  BY FS_Subset, AnyIsMember
<1>2. Cardinality(S \ {Any(S)}) = Cardinality(S) - 1 /\ Cardinality(S) \in Nat
  BY <1>1, FS_RemoveElement, FS_CardinalityType
<1>3. QED
  BY <1>2

LEMMA NothingSmaller ==
  ASSUME NEW D, IsFiniteSet(D), NEW S \in Smaller(D, 0)
  PROVE  S = {}
<1>1. IsFiniteSet(S) /\ Cardinality(S) <= 0
  BY FS_Subset DEF Smaller
<1>2. Cardinality(S) = 0
  BY <1>1, FS_CardinalityType
<1>3. QED
  BY <1>1, <1>2, FS_EmptySet

\* A sum over small sets of phases extends to sets with one more.
LEMMA SumExtends ==
  ASSUME NEW D, IsFiniteSet(D), NEW phases, NEW f, NEW n \in Nat, NEW it,
         AddsUp(it, phases, f, Smaller(D, n))
  PROVE  \E next : AddsUp(next, phases, f, Smaller(D, n + 1))
<1> DEFINE next == [S \in Smaller(D, n + 1) |->
                      IF S = {} THEN 0 ELSE phases[Any(S)].counts[f] + it[S \ {Any(S)}]]
<1>1. ASSUME NEW S \in Smaller(D, n + 1), S # {}
      PROVE  S \ {Any(S)} \in Smaller(D, n) /\ S \ {Any(S)} \in Smaller(D, n + 1)
  <2>1. S \in SUBSET D /\ Cardinality(S) <= n + 1
    BY DEF Smaller
  <2>2. /\ S \ {Any(S)} \in SUBSET D
        /\ Cardinality(S) \in Nat /\ Cardinality(S \ {Any(S)}) = Cardinality(S) - 1
    BY <1>1, <2>1, WithoutAny
  <2>3. Cardinality(S \ {Any(S)}) <= n /\ Cardinality(S \ {Any(S)}) <= n + 1
    BY <2>1, <2>2
  <2>4. QED
    BY <2>2, <2>3 DEF Smaller
<1>2. ASSUME NEW S \in Smaller(D, n) PROVE S \in Smaller(D, n + 1) /\ next[S] = it[S]
  <2>1. S \in Smaller(D, n + 1)
    <3>1. S \in SUBSET D /\ Cardinality(S) <= n /\ Cardinality(S) \in Nat
      BY FS_Subset, FS_CardinalityType DEF Smaller
    <3>2. Cardinality(S) <= n + 1
      BY <3>1
    <3>3. QED
      BY <3>1, <3>2 DEF Smaller
  <2>2. it[S] = IF S = {} THEN 0 ELSE phases[Any(S)].counts[f] + it[S \ {Any(S)}]
    <3> DEFINE body(T) == IF T = {} THEN 0 ELSE phases[Any(T)].counts[f] + it[T \ {Any(T)}]
    <3>1. it = [T \in Smaller(D, n) |-> body(T)]
      BY DEF AddsUp
    <3> HIDE DEF body
    <3>2. it[S] = body(S)
      BY <3>1
    <3>3. QED
      BY <3>2 DEF body
  <2>3. QED
    BY <2>1, <2>2
<1>3. ASSUME NEW S \in Smaller(D, n + 1)
      PROVE  next[S] = IF S = {} THEN 0 ELSE phases[Any(S)].counts[f] + next[S \ {Any(S)}]
  <2>1. S # {} => next[S \ {Any(S)}] = it[S \ {Any(S)}]
    <3> HIDE DEF next
    <3>1. QED
      BY <1>1, <1>2
  <2>2. QED
    BY <2>1
<1>4. AddsUp(next, phases, f, Smaller(D, n + 1))
  <2> DEFINE body(S) == IF S = {} THEN 0 ELSE phases[Any(S)].counts[f] + next[S \ {Any(S)}]
  <2>1. next = [S \in Smaller(D, n + 1) |-> next[S]]
    OBVIOUS
  <2>2. \A S \in Smaller(D, n + 1) : next[S] = body(S)
    BY <1>3
  <2> HIDE DEF next, body
  <2>3. next = [S \in Smaller(D, n + 1) |-> body(S)]
    BY <2>1, <2>2
  <2>4. QED
    BY <2>3 DEF AddsUp, body
<1>5. QED
  BY <1>4

\* There is a sum over all the phases.
LEMMA SumExists ==
  ASSUME NEW D, IsFiniteSet(D), NEW phases, NEW f
  PROVE  \E it : AddsUp(it, phases, f, SUBSET D)
<1> DEFINE Bad == {n \in Nat : ~\E it : AddsUp(it, phases, f, Smaller(D, n))}
<1>1. Bad = {}
  <2> SUFFICES ASSUME Bad # {} PROVE FALSE
    OBVIOUS
  <2> DEFINE n == Min(Bad)
  <2>1. n \in Bad /\ \A y \in Bad : n <= y
    <3>1. Bad \subseteq Nat
      OBVIOUS
    <3> HIDE DEF Bad
    <3>2. QED
      BY <3>1, MinIsLeast
  <2> HIDE DEF n
  <2>2. n \in Nat /\ ~\E it : AddsUp(it, phases, f, Smaller(D, n))
    BY <2>1
  <2>3. n # 0
    <3> DEFINE zero == [S \in Smaller(D, 0) |-> 0]
    <3>1. AddsUp(zero, phases, f, Smaller(D, 0))
      <4>1. \A S \in Smaller(D, 0) :
              0 = IF S = {} THEN 0 ELSE phases[Any(S)].counts[f] + zero[S \ {Any(S)}]
        BY NothingSmaller
      <4>2. QED
        BY <4>1, Zenon DEF AddsUp
    <3>2. QED
      BY <2>2, <3>1
  <2>4. n - 1 \in Nat /\ n - 1 \notin Bad
    <3>1. n - 1 \in Nat /\ ~(n <= n - 1)
      BY <2>2, <2>3
    <3> HIDE DEF Bad
    <3>2. QED
      BY <2>1, <3>1
  <2>5. PICK it : AddsUp(it, phases, f, Smaller(D, n - 1))
    BY <2>4
  <2>6. \E next : AddsUp(next, phases, f, Smaller(D, (n - 1) + 1))
    BY <2>4, <2>5, SumExtends
  <2>7. (n - 1) + 1 = n
    BY <2>2
  <2>8. QED
    BY <2>2, <2>6, <2>7
<1>2. Cardinality(D) \in Nat
  BY FS_CardinalityType
<1>3. Smaller(D, Cardinality(D)) = SUBSET D
  <2>1. \A S \in SUBSET D : Cardinality(S) <= Cardinality(D)
    BY FS_Subset
  <2>2. QED
    BY <2>1 DEF Smaller
<1>4. Cardinality(D) \notin Bad
  BY <1>1, Zenon
<1>5. \E it : AddsUp(it, phases, f, Smaller(D, Cardinality(D)))
  BY <1>2, <1>4, Zenon
<1>6. QED
  BY <1>3, <1>5, Zenon

LEMMA SumUnfolds ==
  ASSUME NEW it, NEW phases, NEW f, NEW D, AddsUp(it, phases, f, SUBSET D)
  PROVE  Recurs(it, phases, f, D)
<1> SUFFICES ASSUME NEW S \in SUBSET D
             PROVE  it[S] = IF S = {} THEN 0 ELSE phases[Any(S)].counts[f] + it[S \ {Any(S)}]
  BY DEF Recurs
<1> DEFINE body(T) == IF T = {} THEN 0 ELSE phases[Any(T)].counts[f] + it[T \ {Any(T)}]
<1>1. it = [T \in SUBSET D |-> body(T)]
  BY DEF AddsUp
<1> HIDE DEF body
<1>2. it[S] = body(S)
  BY <1>1
<1>3. QED
  BY <1>2 DEF body

\* The sum of the community modules adds up.
LEMMA SumAddsUp ==
  ASSUME NEW phases, NEW f, NEW D, IsFiniteSet(D), DOMAIN phases = D
  PROVE  \E it : Recurs(it, phases, f, D) /\ SumOf(phases, f) = it[D]
<1> DEFINE it == CHOOSE i : i = [S \in SUBSET (DOMAIN phases) |->
                   IF S = {} THEN 0
                   ELSE phases[CHOOSE x \in S : TRUE].counts[f] + i[S \ {CHOOSE x \in S : TRUE}]]
<1>1. \E i : i = [S \in SUBSET (DOMAIN phases) |->
                   IF S = {} THEN 0
                   ELSE phases[CHOOSE x \in S : TRUE].counts[f] + i[S \ {CHOOSE x \in S : TRUE}]]
  <2>1. PICK i : AddsUp(i, phases, f, SUBSET (DOMAIN phases))
    BY SumExists
  <2>2. i = [S \in SUBSET (DOMAIN phases) |->
               IF S = {} THEN 0
               ELSE phases[CHOOSE x \in S : TRUE].counts[f] + i[S \ {CHOOSE x \in S : TRUE}]]
    BY <2>1 DEF AddsUp, Any
  <2>3. QED
    BY <2>2, Zenon
<1>2. it = [S \in SUBSET (DOMAIN phases) |->
              IF S = {} THEN 0
              ELSE phases[CHOOSE x \in S : TRUE].counts[f] + it[S \ {CHOOSE x \in S : TRUE}]]
  BY <1>1, Zenon
<1>3. SumOf(phases, f) = it[DOMAIN phases]
  BY Zenon DEF SumOf, Status!MapThenSumSet, Status!MapThenFoldSet
<1> HIDE DEF it
<1>4. AddsUp(it, phases, f, SUBSET D)
  BY <1>2 DEF AddsUp, Any
<1>5. QED
  BY <1>3, <1>4, SumUnfolds

\* A least set of phases in a collection of finite ones.
LEMMA LeastSet ==
  ASSUME NEW D, IsFiniteSet(D), NEW Bad, Bad \subseteq SUBSET D, Bad # {}
  PROVE  \E S \in Bad : S # {} => S \ {Any(S)} \notin Bad
<1> DEFINE sizes == {Cardinality(S) : S \in Bad}
<1>1. \A S \in Bad : Cardinality(S) \in Nat
  BY FS_Subset, FS_CardinalityType
<1>2. sizes \subseteq Nat /\ sizes # {}
  BY <1>1
<1>3. Min(sizes) \in sizes /\ \A y \in sizes : Min(sizes) <= y
  <2> HIDE DEF sizes
  <2>1. QED
    BY <1>2, MinIsLeast
<1>4. PICK S \in Bad : \A T \in Bad : Cardinality(S) <= Cardinality(T)
  BY <1>3
<1>5. ASSUME S # {} PROVE ~(Cardinality(S) <= Cardinality(S \ {Any(S)}))
  <2>1. Cardinality(S) \in Nat /\ Cardinality(S \ {Any(S)}) = Cardinality(S) - 1
    BY <1>5, WithoutAny
  <2>2. QED
    BY <2>1
<1>6. QED
  BY <1>4, <1>5

\* The sum of numbers is a number.
LEMMA SumIsNat ==
  ASSUME NEW phases, NEW f, IsFiniteSet(DOMAIN phases),
         \A k \in DOMAIN phases : phases[k].counts[f] \in Nat
  PROVE  SumOf(phases, f) \in Nat
<1> DEFINE D == DOMAIN phases
<1>1. PICK it : Recurs(it, phases, f, D) /\ SumOf(phases, f) = it[D]
  BY SumAddsUp
<1> DEFINE Bad == {S \in SUBSET D : it[S] \notin Nat}
<1>2. ASSUME NEW S \in Bad, S # {} => S \ {Any(S)} \notin Bad PROVE FALSE
  <2>0. S \in SUBSET D
    BY <1>2
  <2>1. it[S] = IF S = {} THEN 0 ELSE phases[Any(S)].counts[f] + it[S \ {Any(S)}]
    BY <1>1, <2>0 DEF Recurs
  <2>2. S # {}
    BY <1>2, <2>1
  <2>3. Any(S) \in D /\ S \ {Any(S)} \in SUBSET D
    BY <2>2, AnyIsMember
  <2>4. it[S \ {Any(S)}] \in Nat
    BY <1>2, <2>2, <2>3
  <2>5. QED
    BY <1>2, <2>1, <2>2, <2>3, <2>4
<1>3. Bad = {}
  <2>1. Bad \subseteq SUBSET D
    OBVIOUS
  <2> HIDE DEF Bad
  <2>2. QED
    BY <1>2, <2>1, LeastSet
<1>4. QED
  BY <1>1, <1>3

\* Two sums of the same numbers are equal.
LEMMA SumIsSame ==
  ASSUME NEW p, NEW q, NEW f, NEW D, IsFiniteSet(D), DOMAIN p = D, DOMAIN q = D,
         \A k \in D : q[k].counts[f] = p[k].counts[f]
  PROVE  SumOf(q, f) = SumOf(p, f)
<1>1. PICK one : Recurs(one, p, f, D) /\ SumOf(p, f) = one[D]
  BY SumAddsUp
<1>2. PICK two : Recurs(two, q, f, D) /\ SumOf(q, f) = two[D]
  BY SumAddsUp
<1> DEFINE Bad == {S \in SUBSET D : one[S] # two[S]}
<1>3. ASSUME NEW S \in Bad, S # {} => S \ {Any(S)} \notin Bad PROVE FALSE
  <2>0. S \in SUBSET D
    BY <1>3
  <2>1. one[S] = IF S = {} THEN 0 ELSE p[Any(S)].counts[f] + one[S \ {Any(S)}]
    BY <1>1, <2>0 DEF Recurs
  <2>2. two[S] = IF S = {} THEN 0 ELSE q[Any(S)].counts[f] + two[S \ {Any(S)}]
    BY <1>2, <2>0 DEF Recurs
  <2>3. S # {}
    BY <1>3, <2>1, <2>2
  <2>4. Any(S) \in D /\ S \ {Any(S)} \in SUBSET D
    BY <2>3, AnyIsMember
  <2>5. one[S \ {Any(S)}] = two[S \ {Any(S)}]
    BY <1>3, <2>3, <2>4
  <2>6. one[S] = two[S]
    BY <2>1, <2>2, <2>3, <2>4, <2>5
  <2>7. QED
    BY <1>3, <2>6
<1>4. Bad = {}
  <2>1. Bad \subseteq SUBSET D
    OBVIOUS
  <2> HIDE DEF Bad
  <2>2. QED
    BY <1>3, <2>1, LeastSet
<1>5. QED
  BY <1>1, <1>2, <1>4
-----------------------------------------------------------------------------
(* The type of a status.  Messages are as long as the API server takes     *)
(* them, but for what a read-only pass says of an object that differs.     *)

Lengths == 0 .. MaxMessage \cup {1 + Spread}

CountRecords == [Status!Fields -> Nat]

DetailMaps == UNION {[S -> SUBSET Lengths] : S \in SUBSET Objects}

PhaseStatuses == {"Unknown", "Invalid", "Superseded", "Pending", "Reconciling",
                  "WaitingForAssertions", "Available", "TearingDown", "TeardownComplete"}

PhaseRecords == [status : PhaseStatuses, message : 0 .. MaxMessage, counts : CountRecords,
                 details : DetailMaps, completedAt : Times]

PhaseLists == {<< >>} \cup [DOMAIN Phases -> PhaseRecords]

Reasons == {"None", "Available", "Unavailable", "Superseded", "InvalidRevision", "Archived",
            "InternalError", "ReconcileError", "TeardownError"}

StatusRecords == [hash : {None} \cup [Objects -> Data],
                  available : {"True", "False", "Unknown"}, reason : Reasons,
                  phases : PhaseLists, counts : {None} \cup CountRecords, completedAt : Times]

\* What the engine reports of an object, and of some objects.
Actions == {"Created", "Updated", "Recovered", "Idle", "Progressed", "Collision"}

ResultRecords == [action : Actions, paused : BOOLEAN, complete : BOOLEAN,
                  probes : SUBSET Nat, differences : {Spread}]

ResultMaps == UNION {[S -> ResultRecords] : S \in SUBSET Objects}

LEMMA Sizes ==
  /\ Cardinality(Objects) \in Nat /\ Objects = 1 .. Cardinality(Objects)
  /\ Last \in Nat /\ Last > 0 /\ DOMAIN Phases = 1 .. Last /\ IsFiniteSet(DOMAIN Phases)
  /\ \A k \in DOMAIN Phases : Phases[k] \subseteq Objects
  /\ MaxMessage \in Nat /\ MaxMessage > 0 /\ Spread \in Nat /\ ProbeMessage \in Nat
<1>1. Cardinality(Objects) \in Nat /\ Objects = 1 .. Cardinality(Objects)
  BY FS_CardinalityType, RolloutAssumption
<1>2. Phases \in Seq(SUBSET Nat) /\ Len(Phases) > 0
  BY RolloutAssumption DEF Last
<1>3. Last \in Nat /\ Last > 0 /\ DOMAIN Phases = 1 .. Last
  BY <1>2 DEF Last
<1>4. IsFiniteSet(DOMAIN Phases)
  BY <1>3, FS_Interval
<1>5. \A k \in DOMAIN Phases : Phases[k] \subseteq Objects
  BY DEF Objects
<1>6. MaxMessage \in Nat /\ MaxMessage > 0 /\ Spread \in Nat /\ ProbeMessage \in Nat
  BY RolloutAssumption DEF Status!ObservedPhasesAssumption
<1>7. QED
  BY <1>1, <1>3, <1>4, <1>5, <1>6

LEMMA SizesOfParts ==
  ASSUME NEW S, S \subseteq Objects
  PROVE  /\ IsFiniteSet(S) /\ Cardinality(S) \in Nat
         /\ Status!Cardinality(S) = Cardinality(S)
<1>1. IsFiniteSet(S)
  BY FS_Subset, RolloutAssumption
<1>2. Status!Cardinality(S) = Cardinality(S)
  BY DEF Status!Cardinality, Cardinality
<1>3. QED
  BY <1>1, <1>2, FS_CardinalityType

LEMMA CountsTyped ==
  ASSUME NEW a \in Nat, NEW b \in Nat, NEW c \in Nat, NEW d \in Nat
  PROVE  Status!Counts(a, b, c, d) \in CountRecords
BY DEF Status!Counts, CountRecords, Status!Fields

LEMMA LengthsAre ==
  /\ 0 \in 0 .. MaxMessage /\ 1 \in 0 .. MaxMessage /\ 1 \in Lengths /\ 1 + Spread \in Lengths
  /\ 0 .. MaxMessage \subseteq Lengths /\ Lengths \subseteq Nat
  /\ \A n \in Nat : Status!Truncated(n) \in 0 .. MaxMessage
BY Sizes DEF Lengths, Status!Truncated

LEMMA NoDetailsTyped == Status!NoDetails \in DetailMaps
<1>1. Status!NoDetails \in [{} -> SUBSET Lengths]
  BY DEF Status!NoDetails
<1>2. QED
  BY <1>1 DEF DetailMaps

LEMMA ObservedTyped ==
  ASSUME NEW s \in PhaseStatuses, NEW m \in 0 .. MaxMessage, NEW c \in CountRecords, NEW d \in DetailMaps
  PROVE  /\ Status!Observed(s, m, c, d) \in PhaseRecords
         /\ Status!Observed(s, m, c, d).counts = c
         /\ Status!Observed(s, m, c, d).completedAt = Never
         /\ Status!Observed(s, m, c, d).status = s
BY DEF Status!Observed, PhaseRecords, Times

LEMMA MessagesTyped ==
  ASSUME NEW x \in ResultRecords
  PROVE  Status!ObjectMessages(x) \in SUBSET Lengths
<1>1. x.probes \in SUBSET Nat /\ x.differences = Spread
  BY DEF ResultRecords
<1>2. Status!PausedObjectMessages(x) \in SUBSET Lengths
  BY <1>1, LengthsAre DEF Status!PausedObjectMessages
<1>3. {1 : why \in {x.action} \cap {"Collision"}} \cup {Status!Truncated(n) : n \in x.probes}
        \in SUBSET Lengths
  BY <1>1, LengthsAre
<1>4. {1} \in SUBSET Lengths
  BY LengthsAre
<1>5. QED
  BY <1>2, <1>3, <1>4 DEF Status!ObjectMessages

LEMMA ResultMapIs ==
  ASSUME NEW r \in ResultMaps
  PROVE  DOMAIN r \subseteq Objects /\ \A o \in DOMAIN r : r[o] \in ResultRecords
BY DEF ResultMaps

\* What the counts of a phase are that was looked at and is not complete.
LEMMA ReconciledIs ==
  ASSUME NEW objects, objects \subseteq Objects, NEW results \in ResultMaps
  PROVE  LET p == Status!ReconciledPhase(objects, results) IN
         /\ p \in PhaseRecords
         /\ p.completedAt = Never /\ p.status \notin {"Available", "Invalid", "Unknown"}
         /\ p.counts = Status!Counts(Cardinality(objects),
                         Cardinality({o \in DOMAIN results : Status!IsPresent(results[o])}),
                         Cardinality({o \in DOMAIN results : Status!IsSynced(results[o])}),
                         Cardinality({o \in DOMAIN results : results[o].complete}))
<1> DEFINE present == {o \in DOMAIN results : Status!IsPresent(results[o])}
           synced == {o \in DOMAIN results : Status!IsSynced(results[o])}
           available == {o \in DOMAIN results : results[o].complete}
           counts == Status!Counts(Cardinality(objects), Cardinality(present),
                                   Cardinality(synced), Cardinality(available))
           details == [o \in {q \in DOMAIN results : ~results[q].complete} |->
                         Status!ObjectMessages(results[o])]
<1>1. DOMAIN results \subseteq Objects /\ \A o \in DOMAIN results : results[o] \in ResultRecords
  BY ResultMapIs
<1>2. present \subseteq Objects /\ synced \subseteq Objects /\ available \subseteq Objects
  BY <1>1
<1>3. /\ Status!Cardinality(objects) = Cardinality(objects) /\ Cardinality(objects) \in Nat
      /\ Status!Cardinality(present) = Cardinality(present) /\ Cardinality(present) \in Nat
      /\ Status!Cardinality(synced) = Cardinality(synced) /\ Cardinality(synced) \in Nat
      /\ Status!Cardinality(available) = Cardinality(available) /\ Cardinality(available) \in Nat
  <2> HIDE DEF present, synced, available
  <2>1. QED
    BY <1>2, SizesOfParts
<1>4. counts \in CountRecords
  <2> HIDE DEF present, synced, available
  <2>1. QED
    BY <1>3, CountsTyped
<1>5. details \in DetailMaps
  <2> DEFINE S == {q \in DOMAIN results : ~results[q].complete}
  <2>1. S \in SUBSET Objects
    BY <1>1
  <2>2. \A o \in S : Status!ObjectMessages(results[o]) \in SUBSET Lengths
    BY <1>1, MessagesTyped
  <2> HIDE DEF S
  <2>3. [o \in S |-> Status!ObjectMessages(results[o])] \in [S -> SUBSET Lengths]
    BY <2>2
  <2>4. [o \in S |-> Status!ObjectMessages(results[o])] \in DetailMaps
    BY <2>1, <2>3 DEF DetailMaps
  <2>5. QED
    BY <2>4 DEF S
<1>6. Status!ReconciledPhase(objects, results) =
        IF \E o \in DOMAIN results : results[o].paused
        THEN Status!Observed("Pending", 1, counts, details)
        ELSE Status!Observed(IF counts.synced = counts.total THEN "WaitingForAssertions"
                             ELSE "Reconciling", 0, counts, details)
  BY <1>3 DEF Status!ReconciledPhase
<1>7. PICK s \in PhaseStatuses, m \in 0 .. MaxMessage :
        /\ s \notin {"Available", "Invalid", "Unknown"}
        /\ Status!ReconciledPhase(objects, results) = Status!Observed(s, m, counts, details)
  <2> DEFINE paused == \E o \in DOMAIN results : results[o].paused
             s == IF paused THEN "Pending"
                  ELSE IF counts.synced = counts.total THEN "WaitingForAssertions" ELSE "Reconciling"
             m == IF paused THEN 1 ELSE 0
  <2> HIDE DEF counts, details, paused
  <2>1. Status!ReconciledPhase(objects, results) =
          IF paused THEN Status!Observed("Pending", 1, counts, details)
          ELSE Status!Observed(IF counts.synced = counts.total THEN "WaitingForAssertions"
                               ELSE "Reconciling", 0, counts, details)
    BY <1>6 DEF paused
  <2>2. s \in PhaseStatuses /\ m \in 0 .. MaxMessage /\ s \notin {"Available", "Invalid", "Unknown"}
    <3>1. m \in 0 .. MaxMessage
      BY Sizes
    <3>2. s \in PhaseStatuses /\ s \notin {"Available", "Invalid", "Unknown"}
      BY DEF PhaseStatuses
    <3>3. QED
      BY <3>1, <3>2
  <2>3. Status!ReconciledPhase(objects, results) = Status!Observed(s, m, counts, details)
    BY <2>1
  <2> HIDE DEF s, m
  <2>4. QED
    BY <2>2, <2>3
<1>8. QED
  <2> HIDE DEF counts, details
  <2>1. Status!ReconciledPhase(objects, results) \in PhaseRecords
    BY <1>4, <1>5, <1>7, ObservedTyped
  <2>2. /\ Status!ReconciledPhase(objects, results).counts = counts
        /\ Status!ReconciledPhase(objects, results).completedAt = Never
        /\ Status!ReconciledPhase(objects, results).status \notin {"Available", "Invalid", "Unknown"}
    BY <1>4, <1>5, <1>7, ObservedTyped
  <2>3. QED
    BY <2>1, <2>2 DEF counts, present, synced, available

\* What validation may say of a phase, and of some objects.
Refusals == [phase : Nat, objects : UNION {[S -> SUBSET Nat] : S \in SUBSET Objects}]

IsReported(x) ==
  x.objects \in ResultMaps /\ (x.refusal = Status!NoRefusal \/ x.refusal \in Refusals)

LEMMA InvalidIs ==
  ASSUME NEW total \in Nat, NEW refusal \in Refusals
  PROVE  LET p == Status!InvalidPhase(total, refusal) IN
         /\ p \in PhaseRecords /\ p.completedAt = Never
         /\ p.status = "Invalid" /\ p.counts = Status!Counts(total, 0, 0, 0)
<1> DEFINE details == [o \in DOMAIN refusal.objects |->
                         {Status!Truncated(n) : n \in refusal.objects[o]}]
           counts == Status!Counts(total, 0, 0, 0)
<1>1. /\ refusal.phase \in Nat /\ DOMAIN refusal.objects \in SUBSET Objects
      /\ \A o \in DOMAIN refusal.objects : refusal.objects[o] \subseteq Nat
  BY DEF Refusals
<1>2. details \in [DOMAIN refusal.objects -> SUBSET Lengths]
  BY <1>1, LengthsAre
<1>3. details \in DetailMaps
  BY <1>1, <1>2 DEF DetailMaps
<1>4. counts \in CountRecords
  BY CountsTyped
<1>5. Status!Truncated(refusal.phase) \in 0 .. MaxMessage /\ "Invalid" \in PhaseStatuses
  BY <1>1, LengthsAre DEF PhaseStatuses
<1>6. Status!InvalidPhase(total, refusal) =
        Status!Observed("Invalid", Status!Truncated(refusal.phase), counts, details)
  BY DEF Status!InvalidPhase
<1> HIDE DEF details, counts
<1>7. QED
  BY <1>3, <1>4, <1>5, <1>6, ObservedTyped DEF counts

LEMMA IncompleteIs ==
  ASSUME NEW objects, objects \subseteq Objects, NEW x, IsReported(x)
  PROVE  /\ Status!IncompletePhase(objects, x) \in PhaseRecords
         /\ Status!IncompletePhase(objects, x).completedAt = Never
<1>1. Status!Cardinality(objects) \in Nat
  BY SizesOfParts
<1>2. QED
  BY <1>1, ReconciledIs, InvalidIs DEF Status!IncompletePhase, IsReported

-----------------------------------------------------------------------------
(* From a result to phases.                                                *)

\* Phases as the mapping leaves them: without a time.
Fresh == {p \in PhaseRecords : p.completedAt = Never}

FreshLists == {<< >>} \cup [DOMAIN Phases -> Fresh]

IsResult(r) ==
  /\ r # Status!NoResult
  /\ \A k \in DOMAIN r.errors : r.errors[k] \in Refusals
  /\ DOMAIN r.phases \subseteq DOMAIN Phases
  /\ \A k \in DOMAIN r.phases : IsReported(r.phases[k])

IsTeardownResult(r) ==
  /\ DOMAIN r.phases \subseteq DOMAIN Phases
  /\ \A k \in DOMAIN r.phases : r.phases[k].waiting \subseteq Objects

LEMMA FreshObserved ==
  ASSUME NEW s \in PhaseStatuses, NEW m \in 0 .. MaxMessage, NEW c \in CountRecords,
         NEW d \in DetailMaps
  PROVE  Status!Observed(s, m, c, d) \in Fresh
BY ObservedTyped DEF Fresh

LEMMA FreshList ==
  ASSUME NEW list, list = [k \in DOMAIN Phases |-> list[k]], \A k \in DOMAIN Phases : list[k] \in Fresh
  PROVE  list \in FreshLists
<1>1. list \in [DOMAIN Phases -> Fresh]
  OBVIOUS
<1>2. QED
  BY <1>1 DEF FreshLists

\* A phase of which only the number of its objects is known.
LEMMA TotalTyped ==
  ASSUME NEW k \in DOMAIN Phases, NEW n \in Nat
  PROVE  /\ Status!Cardinality(Phases[k]) \in Nat
         /\ Status!Counts(Status!Cardinality(Phases[k]), n, 0, 0) \in CountRecords
         /\ Status!Counts(0, 0, 0, 0) \in CountRecords
<1>1. Status!Cardinality(Phases[k]) \in Nat
  BY Sizes, SizesOfParts
<1>2. QED
  BY <1>1, CountsTyped

LEMMA MapSpecPhasesTyped ==
  ASSUME NEW reported, NEW complete, NEW incomplete, NEW m \in 0 .. MaxMessage,
         DOMAIN reported \subseteq DOMAIN Phases,
         \A k \in DOMAIN reported : complete[k] \in Fresh /\ incomplete[k] \in Fresh
  PROVE  /\ Status!MapSpecPhases(Phases, reported, complete, incomplete, m) \in FreshLists
         /\ \A k \in DOMAIN reported :
              Status!MapSpecPhases(Phases, reported, complete, incomplete, m)[k] =
                IF reported[k].complete THEN complete[k] ELSE incomplete[k]
         /\ \A k \in DOMAIN Phases \ DOMAIN reported :
              Status!MapSpecPhases(Phases, reported, complete, incomplete, m)[k] =
                Status!Observed("Unknown", m, Status!Counts(Status!Cardinality(Phases[k]), 0, 0, 0),
                                Status!NoDetails)
<1> DEFINE at(k) == IF k \notin DOMAIN reported
                    THEN Status!Observed("Unknown", m,
                           Status!Counts(Status!Cardinality(Phases[k]), 0, 0, 0), Status!NoDetails)
                    ELSE IF reported[k].complete THEN complete[k] ELSE incomplete[k]
           list == Status!MapSpecPhases(Phases, reported, complete, incomplete, m)
<1>1. list = [k \in DOMAIN Phases |-> at(k)]
  BY DEF Status!MapSpecPhases
<1>2. ASSUME NEW k \in DOMAIN Phases PROVE at(k) \in Fresh
  <2>1. CASE k \in DOMAIN reported
    BY <2>1
  <2>2. CASE k \notin DOMAIN reported
    <3>1. "Unknown" \in PhaseStatuses
      BY DEF PhaseStatuses
    <3>2. QED
      BY <2>2, <3>1, TotalTyped, NoDetailsTyped, FreshObserved
  <2>3. QED
    BY <2>1, <2>2
<1>3. /\ \A k \in DOMAIN reported :
           at(k) = IF reported[k].complete THEN complete[k] ELSE incomplete[k]
      /\ \A k \in DOMAIN Phases \ DOMAIN reported :
           at(k) = Status!Observed("Unknown", m,
                     Status!Counts(Status!Cardinality(Phases[k]), 0, 0, 0), Status!NoDetails)
  OBVIOUS
<1> HIDE DEF at, list
<1>4. list = [k \in DOMAIN Phases |-> list[k]] /\ \A k \in DOMAIN Phases : list[k] = at(k)
  BY <1>1
<1>5. list \in FreshLists
  BY <1>2, <1>4, FreshList
<1>6. QED
  BY <1>3, <1>4, <1>5 DEF list

LEMMA CompletePhases ==
  ASSUME NEW k \in DOMAIN Phases
  PROVE  LET n == Status!Cardinality(Phases[k])
             p == Status!Observed("Available", 0, Status!Counts(n, n, n, n), Status!NoDetails)
         IN  /\ p \in Fresh
             /\ p.counts.present = Cardinality(Phases[k])
             /\ p.counts.synced = Cardinality(Phases[k])
             /\ p.counts.available = Cardinality(Phases[k])
<1> DEFINE n == Status!Cardinality(Phases[k])
           c == Status!Counts(n, n, n, n)
           p == Status!Observed("Available", 0, c, Status!NoDetails)
<1>1. n \in Nat /\ n = Cardinality(Phases[k])
  BY Sizes, SizesOfParts
<1>2. c.present = n /\ c.synced = n /\ c.available = n
  BY DEF Status!Counts
<1>3. c \in CountRecords
  <2> HIDE DEF n
  <2>1. QED
    BY <1>1, CountsTyped
<1>4. "Available" \in PhaseStatuses
  BY DEF PhaseStatuses
<1> HIDE DEF n, c
<1>5. p \in Fresh /\ p.counts = c
  BY <1>3, <1>4, LengthsAre, NoDetailsTyped, FreshObserved, ObservedTyped
<1> HIDE DEF p
<1>6. QED
  BY <1>1, <1>2, <1>5 DEF n, c, p

LEMMA BuiltPhases ==
  ASSUME NEW reported, DOMAIN reported \subseteq DOMAIN Phases,
         \A k \in DOMAIN reported : IsReported(reported[k])
  PROVE  /\ Status!BuildObservedPhases(Phases, reported) \in FreshLists
         /\ \A k \in DOMAIN reported :
              LET p == Status!BuildObservedPhases(Phases, reported)[k]
                  n == Status!Cardinality(Phases[k])
              IN  p = IF reported[k].complete
                      THEN Status!Observed("Available", 0, Status!Counts(n, n, n, n), Status!NoDetails)
                      ELSE Status!IncompletePhase(Phases[k], reported[k])
         /\ \A k \in DOMAIN Phases \ DOMAIN reported :
              Status!BuildObservedPhases(Phases, reported)[k] =
                Status!Observed("Unknown", 1, Status!Counts(Status!Cardinality(Phases[k]), 0, 0, 0),
                                Status!NoDetails)
<1> DEFINE all == [k \in DOMAIN Phases |-> Status!Cardinality(Phases[k])]
           complete == [k \in DOMAIN Phases |->
             Status!Observed("Available", 0, Status!Counts(all[k], all[k], all[k], all[k]),
                             Status!NoDetails)]
           incomplete == [k \in DOMAIN reported |->
             Status!IncompletePhase(Phases[k], reported[k])]
           list == Status!BuildObservedPhases(Phases, reported)
<1>1. list = Status!MapSpecPhases(Phases, reported, complete, incomplete, 1)
  BY DEF Status!BuildObservedPhases
<1>2. \A k \in DOMAIN reported : incomplete[k] \in Fresh
  BY IncompleteIs, Sizes DEF Fresh
<1>3. \A k \in DOMAIN reported : complete[k] \in Fresh
  BY CompletePhases
<1>4. /\ \A k \in DOMAIN reported :
           LET n == Status!Cardinality(Phases[k])
           IN  complete[k] = Status!Observed("Available", 0, Status!Counts(n, n, n, n), Status!NoDetails)
      /\ \A k \in DOMAIN reported :
           incomplete[k] = Status!IncompletePhase(Phases[k], reported[k])
  OBVIOUS
<1> HIDE DEF all, complete, incomplete, list
<1>5. /\ list \in FreshLists
      /\ \A k \in DOMAIN reported :
           list[k] = IF reported[k].complete THEN complete[k] ELSE incomplete[k]
      /\ \A k \in DOMAIN Phases \ DOMAIN reported :
           list[k] = Status!Observed("Unknown", 1,
                       Status!Counts(Status!Cardinality(Phases[k]), 0, 0, 0), Status!NoDetails)
  BY <1>1, <1>2, <1>3, LengthsAre, MapSpecPhasesTyped
<1>6. QED
  BY <1>4, <1>5 DEF list

LEMMA AllPhasesTyped ==
  ASSUME NEW s \in PhaseStatuses
  PROVE  Status!AllPhasesWithStatus(Phases, s) \in FreshLists
<1> DEFINE at(k) == Status!Observed(s, 0, Status!Counts(Status!Cardinality(Phases[k]), 0, 0, 0),
                                    Status!NoDetails)
           list == Status!AllPhasesWithStatus(Phases, s)
<1>1. list = [k \in DOMAIN Phases |-> at(k)]
  BY DEF Status!AllPhasesWithStatus
<1>2. \A k \in DOMAIN Phases : at(k) \in Fresh
  BY TotalTyped, LengthsAre, NoDetailsTyped, FreshObserved
<1> HIDE DEF at, list
<1>3. list = [k \in DOMAIN Phases |-> list[k]] /\ \A k \in DOMAIN Phases : list[k] = at(k)
  BY <1>1
<1>4. list \in FreshLists
  BY <1>2, <1>3, FreshList
<1>5. QED
  BY <1>4 DEF list

LEMMA InvalidTyped ==
  ASSUME NEW errors, \A k \in DOMAIN errors : errors[k] \in Refusals
  PROVE  Status!InvalidPhases(Phases, errors) \in FreshLists
<1> DEFINE none == Status!Counts(0, 0, 0, 0)
           at(k) == IF k \in DOMAIN errors
                    THEN Status!InvalidPhase(0, errors[k])
                    ELSE Status!Observed("Unknown", 1, none, Status!NoDetails)
           list == Status!InvalidPhases(Phases, errors)
<1>1. list = [k \in DOMAIN Phases |-> at(k)]
  BY DEF Status!InvalidPhases
<1>2. ASSUME NEW k \in DOMAIN Phases PROVE at(k) \in Fresh
  <2>1. none \in CountRecords
    BY CountsTyped
  <2>2. "Unknown" \in PhaseStatuses
    BY DEF PhaseStatuses
  <2>3. CASE k \in DOMAIN errors
    BY <2>3, InvalidIs DEF Fresh
  <2>4. CASE k \notin DOMAIN errors
    <3> HIDE DEF none
    <3>1. QED
      BY <2>1, <2>2, <2>4, LengthsAre, NoDetailsTyped, FreshObserved
  <2>5. QED
    BY <2>3, <2>4
<1> HIDE DEF at, list
<1>3. list = [k \in DOMAIN Phases |-> list[k]] /\ \A k \in DOMAIN Phases : list[k] = at(k)
  BY <1>1
<1>4. list \in FreshLists
  BY <1>2, <1>3, FreshList
<1>5. QED
  BY <1>4 DEF list

LEMMA ReconcileResultTyped ==
  ASSUME NEW r, r = Status!NoResult \/ IsResult(r)
  PROVE  Status!FromReconcileResult(Phases, r) \in FreshLists
<1>1. CASE r = Status!NoResult
  <2>1. Status!FromReconcileResult(Phases, r) = << >>
    BY <1>1 DEF Status!FromReconcileResult
  <2>2. QED
    BY <2>1 DEF FreshLists
<1>2. CASE IsResult(r)
  <2>1. r # Status!NoResult /\ \A k \in DOMAIN r.errors : r.errors[k] \in Refusals
    BY <1>2 DEF IsResult
  <2>2. DOMAIN r.phases \subseteq DOMAIN Phases /\ \A k \in DOMAIN r.phases : IsReported(r.phases[k])
    BY <1>2 DEF IsResult
  <2>3. CASE DOMAIN r.errors # {}
    <3>1. Status!FromReconcileResult(Phases, r) = Status!InvalidPhases(Phases, r.errors)
      BY <2>1, <2>3 DEF Status!FromReconcileResult
    <3>2. QED
      BY <2>1, <3>1, InvalidTyped
  <2>4. CASE DOMAIN r.errors = {} /\ r.progressed
    <3>1. Status!FromReconcileResult(Phases, r) = Status!AllPhasesWithStatus(Phases, "Superseded")
      BY <2>1, <2>4 DEF Status!FromReconcileResult
    <3>2. QED
      BY <3>1, AllPhasesTyped DEF PhaseStatuses
  <2>5. CASE DOMAIN r.errors = {} /\ ~r.progressed
    <3>1. Status!FromReconcileResult(Phases, r) = Status!BuildObservedPhases(Phases, r.phases)
      BY <2>1, <2>5 DEF Status!FromReconcileResult
    <3>2. QED
      BY <2>2, <3>1, BuiltPhases
  <2>6. QED
    BY <2>3, <2>4, <2>5
<1>3. QED
  BY <1>1, <1>2

LEMMA TearingDownTyped ==
  ASSUME NEW k \in DOMAIN Phases, NEW waiting, waiting \subseteq Objects, NEW active \in BOOLEAN
  PROVE  Status!TearingDownPhase(Phases[k], waiting, active) \in Fresh
<1> DEFINE details == [o \in waiting |-> {1}]
           counts == Status!Counts(Status!Cardinality(Phases[k]), Status!Cardinality(waiting), 0, 0)
           s == IF active THEN "TearingDown" ELSE "Pending"
           m == IF active THEN 0 ELSE 1
<1>1. details \in DetailMaps
  <2>1. {1} \in SUBSET Lengths
    BY LengthsAre
  <2>2. details \in [waiting -> SUBSET Lengths]
    BY <2>1
  <2>3. QED
    BY <2>2 DEF DetailMaps
<1>2. counts \in CountRecords
  BY SizesOfParts, TotalTyped
<1>3. s \in PhaseStatuses /\ m \in 0 .. MaxMessage
  BY LengthsAre DEF PhaseStatuses
<1>4. Status!TearingDownPhase(Phases[k], waiting, active) = Status!Observed(s, m, counts, details)
  BY DEF Status!TearingDownPhase
<1> HIDE DEF details, counts, s, m
<1>5. QED
  BY <1>1, <1>2, <1>3, <1>4, FreshObserved

LEMMA TeardownResultTyped ==
  ASSUME NEW r, r = Status!NoResult \/ IsTeardownResult(r)
  PROVE  Status!FromTeardownResult(Phases, r) \in FreshLists
<1>1. CASE r = Status!NoResult
  <2>1. Status!FromTeardownResult(Phases, r) = << >>
    BY <1>1 DEF Status!FromTeardownResult
  <2>2. QED
    BY <2>1 DEF FreshLists
<1>2. CASE r # Status!NoResult /\ IsTeardownResult(r)
  <2> DEFINE complete == [k \in DOMAIN Phases |->
               Status!Observed("TeardownComplete", 0,
                 Status!Counts(Status!Cardinality(Phases[k]), 0, 0, 0), Status!NoDetails)]
             incomplete == [k \in DOMAIN r.phases |->
               Status!TearingDownPhase(Phases[k], r.phases[k].waiting, k = r.active)]
  <2>1. DOMAIN r.phases \subseteq DOMAIN Phases /\ \A k \in DOMAIN r.phases : r.phases[k].waiting \subseteq Objects
    BY <1>2 DEF IsTeardownResult
  <2>2. Status!FromTeardownResult(Phases, r) = Status!MapSpecPhases(Phases, r.phases, complete, incomplete, 0)
    BY <1>2 DEF Status!FromTeardownResult
  <2>3. "TeardownComplete" \in PhaseStatuses
    BY DEF PhaseStatuses
  <2>4. \A k \in DOMAIN r.phases : complete[k] \in Fresh
    BY <2>1, <2>3, TotalTyped, LengthsAre, NoDetailsTyped, FreshObserved
  <2>5. \A k \in DOMAIN r.phases : incomplete[k] \in Fresh
    BY <2>1, TearingDownTyped
  <2> HIDE DEF complete, incomplete
  <2>6. QED
    BY <2>1, <2>2, <2>4, <2>5, LengthsAre, MapSpecPhasesTyped
<1>3. QED
  BY <1>1, <1>2

-----------------------------------------------------------------------------
(* What becomes of a status: what is kept once set is kept.                *)

LEMMA TimesAre ==
  /\ Progress!Promised \in Nat /\ 0 \in Ages /\ Ages \subseteq Nat /\ Progress!Promised \in Ages
  /\ Never \notin Nat /\ Never \in Times /\ 0 \in Times /\ Ages \subseteq Times
<1>1. Minutes \in Nat /\ Unit \in Nat
  BY RolloutAssumption DEF Progress!DeadlineAssumption
<1>2. Progress!Promised \in Nat
  BY <1>1 DEF Progress!Promised
<1>3. Never \notin Nat
  BY RolloutAssumption DEF Status!ObservedPhasesAssumption
<1>4. QED
  BY <1>2, <1>3 DEF Ages, Times

\* A list of phases is empty or has one for each of the spec.
LEMMA ListIs ==
  ASSUME NEW list, list \in PhaseLists \/ list \in FreshLists
  PROVE  \/ list = << >> /\ DOMAIN list = {}
         \/ /\ list # << >> /\ DOMAIN list = DOMAIN Phases /\ list = [k \in DOMAIN list |-> list[k]]
            /\ \A k \in DOMAIN list : list[k] \in PhaseRecords
<1>1. CASE list = << >>
  BY <1>1
<1>2. CASE list \in [DOMAIN Phases -> PhaseRecords]
  <2>1. 1 \in DOMAIN Phases
    BY Sizes
  <2>2. list # << >>
    BY <1>2, <2>1
  <2>3. QED
    BY <1>2, <2>2
<1>3. CASE list \in [DOMAIN Phases -> Fresh]
  <2>1. list \in [DOMAIN Phases -> PhaseRecords]
    BY <1>3 DEF Fresh
  <2>2. QED
    BY <1>2, <2>1
<1>4. QED
  BY <1>1, <1>2, <1>3 DEF PhaseLists, FreshLists

KeepsTimes(old, new) ==
  \A k \in DOMAIN new :
    k \in DOMAIN old => Status!KeptOnceSet(old[k].completedAt, new[k].completedAt, Never)

\* A phase with another time.
LEMMA Stamped ==
  ASSUME NEW p \in PhaseRecords, NEW t \in Times
  PROVE  /\ [p EXCEPT !.completedAt = t] \in PhaseRecords
         /\ [p EXCEPT !.completedAt = t].completedAt = t
         /\ [p EXCEPT !.completedAt = t].counts = p.counts
         /\ [p EXCEPT !.completedAt = t].status = p.status
BY DEF PhaseRecords

LEMMA Preserved ==
  ASSUME NEW old \in PhaseLists, NEW new \in FreshLists
  PROVE  /\ Status!PreserveCompletionTimes(old, new) \in PhaseLists
         /\ DOMAIN Status!PreserveCompletionTimes(old, new) = DOMAIN new
         /\ \A k \in DOMAIN new :
              /\ Status!PreserveCompletionTimes(old, new)[k].counts = new[k].counts
              /\ Status!PreserveCompletionTimes(old, new)[k].status = new[k].status
         /\ KeepsTimes(old, Status!PreserveCompletionTimes(old, new))
<1> DEFINE list == Status!PreserveCompletionTimes(old, new)
           at(k) == IF k \in DOMAIN old /\ old[k].completedAt # Never
                    THEN [new[k] EXCEPT !.completedAt = old[k].completedAt]
                    ELSE IF new[k].status = "Available" THEN [new[k] EXCEPT !.completedAt = 0]
                    ELSE new[k]
<1>1. list = [k \in DOMAIN new |-> at(k)]
  BY DEF Status!PreserveCompletionTimes
<1>2. ASSUME NEW k \in DOMAIN new
      PROVE  /\ at(k) \in PhaseRecords /\ at(k).counts = new[k].counts /\ at(k).status = new[k].status
             /\ k \in DOMAIN old => Status!KeptOnceSet(old[k].completedAt, at(k).completedAt, Never)
  <2>1. new[k] \in PhaseRecords
    BY ListIs
  <2>2. k \in DOMAIN old => old[k].completedAt \in Times
    BY ListIs DEF PhaseRecords
  <2>3. CASE k \in DOMAIN old /\ old[k].completedAt # Never
    BY <2>1, <2>2, <2>3, Stamped DEF Status!KeptOnceSet
  <2>4. CASE ~(k \in DOMAIN old /\ old[k].completedAt # Never)
    <3>1. k \in DOMAIN old => Status!KeptOnceSet(old[k].completedAt, at(k).completedAt, Never)
      BY <2>4, Zenon DEF Status!KeptOnceSet
    <3>2. at(k) = IF new[k].status = "Available" THEN [new[k] EXCEPT !.completedAt = 0] ELSE new[k]
      BY <2>4
    <3>3. at(k) \in PhaseRecords /\ at(k).counts = new[k].counts /\ at(k).status = new[k].status
      <4> HIDE DEF at
      <4>1. QED
        BY <2>1, <3>2, TimesAre, Stamped
    <3>4. QED
      BY <3>1, <3>3
  <2>5. QED
    BY <2>3, <2>4
<1> HIDE DEF list, at
<1>3. DOMAIN list = DOMAIN new /\ \A k \in DOMAIN new : list[k] = at(k)
  BY <1>1
<1>4. list \in PhaseLists
  <2>1. CASE new = << >>
    <3>1. DOMAIN new = {}
      BY <2>1
    <3>2. list = << >>
      BY <1>1, <3>1
    <3>3. QED
      BY <3>2 DEF PhaseLists
  <2>2. CASE new # << >>
    <3>1. DOMAIN new = DOMAIN Phases
      BY <2>2, ListIs
    <3>2. list \in [DOMAIN Phases -> PhaseRecords]
      BY <1>1, <1>2, <3>1
    <3>3. QED
      BY <3>2 DEF PhaseLists
  <2>3. QED
    BY <2>1, <2>2
<1>5. KeepsTimes(old, list)
  BY <1>2, <1>3 DEF KeepsTimes
<1>6. QED
  BY <1>2, <1>3, <1>4, <1>5 DEF list

\* The counts of a revision are there if its phases are, and their sums.
LEMMA SumsTyped ==
  ASSUME NEW list \in PhaseLists
  PROVE  /\ Status!SumObjectCounts(list) \in {None} \cup CountRecords
         /\ (list = << >>) = (Status!SumObjectCounts(list) = None)
         /\ list # << >> => \A f \in Status!Fields : Status!SumObjectCounts(list)[f] = SumOf(list, f)
<1>1. CASE list = << >>
  BY <1>1 DEF Status!SumObjectCounts
<1>2. CASE list # << >>
  <2>1. DOMAIN list = DOMAIN Phases /\ \A k \in DOMAIN list : list[k].counts \in CountRecords
    BY <1>2, ListIs DEF PhaseRecords
  <2>2. Status!SumObjectCounts(list) = [f \in Status!Fields |-> SumOf(list, f)]
    BY <1>2 DEF Status!SumObjectCounts, SumOf
  <2>3. ASSUME NEW f \in Status!Fields PROVE SumOf(list, f) \in Nat
    <3>1. IsFiniteSet(DOMAIN list)
      BY <2>1, Sizes
    <3>2. \A k \in DOMAIN list : list[k].counts[f] \in Nat
      BY <2>1 DEF CountRecords
    <3>3. QED
      BY <3>1, <3>2, SumIsNat
  <2>4. Status!SumObjectCounts(list) \in CountRecords
    BY <2>2, <2>3 DEF CountRecords
  <2>5. None \notin CountRecords
    BY RolloutAssumption DEF Status!ObservedPhasesAssumption, CountRecords
  <2>6. QED
    BY <1>2, <2>2, <2>4, <2>5
<1>3. QED
  BY <1>1, <1>2

\* A status that the API server takes after old.
Follows(old, new) ==
  /\ new \in StatusRecords
  /\ Status!KeptOnceSet(old.completedAt, new.completedAt, Never)
  /\ Status!KeptOnceSet(old.hash, new.hash, None)
  /\ new.counts = Status!SumObjectCounts(new.phases)
  /\ KeepsTimes(old.phases, new.phases)

LEMMA AppliedFollows ==
  ASSUME NEW s \in StatusRecords, NEW list \in PhaseLists, KeepsTimes(s.phases, list)
  PROVE  /\ Follows(s, Status!Apply(s, list))
         /\ Status!Apply(s, list).hash = s.hash /\ Status!Apply(s, list).phases = list
<1> DEFINE c == Status!SumObjectCounts(list)
<1>1. c \in {None} \cup CountRecords
  BY SumsTyped
<1>2. PICK u : u = [s EXCEPT !.phases = list, !.counts = c]
  OBVIOUS
<1>3. Status!Apply(s, list) = u
  BY <1>2 DEF Status!Apply
<1> HIDE DEF c
<1>4. /\ u \in StatusRecords /\ u.phases = list /\ u.counts = c /\ u.hash = s.hash
      /\ u.completedAt = s.completedAt
  BY <1>1, <1>2 DEF StatusRecords
<1>5. Follows(s, u)
  BY <1>4 DEF Follows, Status!KeptOnceSet, c
<1>6. QED
  BY <1>3, <1>4, <1>5

LEMMA ConditionFollows ==
  ASSUME NEW old, NEW u, Follows(old, u),
         NEW a \in {"True", "False", "Unknown"}, NEW r \in Reasons
  PROVE  /\ Follows(old, Status!Condition(u, a, r))
         /\ Status!Condition(u, a, r).hash = u.hash
         /\ Status!Condition(u, a, r).phases = u.phases
         /\ Status!Condition(u, a, r).reason = r
<1>1. PICK n : n = [u EXCEPT !.available = a, !.reason = r]
  OBVIOUS
<1>2. Status!Condition(u, a, r) = n
  BY <1>1 DEF Status!Condition
<1>3. u \in StatusRecords
  BY DEF Follows
<1>4. /\ n \in StatusRecords /\ n.phases = u.phases /\ n.counts = u.counts /\ n.hash = u.hash
      /\ n.completedAt = u.completedAt /\ n.reason = r
  BY <1>1, <1>3 DEF StatusRecords
<1>5. QED
  BY <1>2, <1>4 DEF Follows

LEMMA CompletedFollows ==
  ASSUME NEW old, NEW u, Follows(old, u)
  PROVE  /\ Follows(old, Status!Completed(u))
         /\ Status!Completed(u).hash = u.hash
         /\ Status!Completed(u).phases = u.phases
         /\ Status!Completed(u).reason = u.reason
<1> DEFINE t == IF u.completedAt = Never THEN 0 ELSE u.completedAt
<1>1. PICK n : n = [u EXCEPT !.completedAt = t]
  OBVIOUS
<1>2. u \in StatusRecords
  BY DEF Follows
<1>3. Status!Completed(u) = n
  BY <1>1, <1>2 DEF Status!Completed, StatusRecords
<1>4. t \in Times
  BY <1>2, TimesAre DEF StatusRecords
<1>5. old.completedAt # Never => t = old.completedAt
  BY DEF Follows, Status!KeptOnceSet
<1> HIDE DEF t
<1>6. /\ n \in StatusRecords /\ n.phases = u.phases /\ n.counts = u.counts /\ n.hash = u.hash
      /\ n.completedAt = t /\ n.reason = u.reason
  BY <1>1, <1>2, <1>4 DEF StatusRecords
<1>7. QED
  BY <1>3, <1>5, <1>6 DEF Follows, Status!KeptOnceSet

\* The condition does not count for what has to be kept.
LEMMA ConditionAside ==
  ASSUME NEW s \in StatusRecords, NEW a \in {"True", "False", "Unknown"}, NEW r \in Reasons
  PROVE  /\ Status!Condition(s, a, r) \in StatusRecords
         /\ Status!Condition(s, a, r).phases = s.phases
         /\ Status!Condition(s, a, r).hash = s.hash
         /\ \A n : Follows(Status!Condition(s, a, r), n) => Follows(s, n)
<1>1. PICK n : n = [s EXCEPT !.available = a, !.reason = r]
  OBVIOUS
<1>2. Status!Condition(s, a, r) = n
  BY <1>1 DEF Status!Condition
<1>3. /\ n \in StatusRecords /\ n.phases = s.phases /\ n.hash = s.hash
      /\ n.completedAt = s.completedAt
  BY <1>1 DEF StatusRecords
<1>4. QED
  BY <1>2, <1>3 DEF Follows

\* Errors before the engine: the phases are kept, or dropped.
LEMMA EarlyErrorFollows ==
  ASSUME NEW s \in StatusRecords
  PROVE  /\ Follows(s, Status!ResolutionErrorUpdate(s, s.hash))
         /\ Follows(s, Status!InternalErrorUpdate(s))
<1>1. s.phases \in PhaseLists /\ << >> \in PhaseLists
  BY DEF StatusRecords, PhaseLists
<1>2. KeepsTimes(s.phases, s.phases) /\ KeepsTimes(s.phases, << >>)
  BY DEF KeepsTimes, Status!KeptOnceSet
<1>3. ASSUME NEW a \in {"True", "False", "Unknown"}, NEW r \in Reasons
      PROVE  /\ Follows(s, Status!Apply(Status!Condition(s, a, r), s.phases))
             /\ Follows(s, Status!Apply(Status!Condition(s, a, r), << >>))
  <2> DEFINE c == Status!Condition(s, a, r)
  <2>1. c \in StatusRecords /\ c.phases = s.phases /\ \A n : Follows(c, n) => Follows(s, n)
    BY ConditionAside
  <2> HIDE DEF c
  <2>2. Follows(c, Status!Apply(c, s.phases)) /\ Follows(c, Status!Apply(c, << >>))
    BY <1>1, <1>2, <2>1, AppliedFollows
  <2>3. Follows(s, Status!Apply(c, s.phases)) /\ Follows(s, Status!Apply(c, << >>))
    BY <2>1, <2>2
  <2>4. QED
    BY <2>3 DEF c
<1>4. "InvalidRevision" \in Reasons /\ "InternalError" \in Reasons
  BY DEF Reasons
<1>5. QED
  BY <1>3, <1>4 DEF Status!ResolutionErrorUpdate, Status!InternalErrorUpdate

LEMMA ReconcileFollows ==
  ASSUME NEW s \in StatusRecords, NEW r, NEW error \in {"resolution", "internal", "object", "none"},
         error \in {"object", "none"} => IsResult(r)
  PROVE  Follows(s, Status!FromReconcile(s, Phases, r, error))
<1> DEFINE fresh == Status!FromReconcileResult(Phases, r)
           list == Status!PreserveCompletionTimes(s.phases, fresh)
           u == Status!Apply(s, list)
           new == Status!FromReconcile(s, Phases, r, error)
<1>1. CASE error = "resolution"
  <2>1. new = Status!ResolutionErrorUpdate(s, s.hash)
    BY <1>1 DEF Status!FromReconcile
  <2>2. QED
    BY <2>1, EarlyErrorFollows
<1>2. CASE error = "internal"
  <2>1. new = Status!InternalErrorUpdate(s)
    BY <1>2 DEF Status!FromReconcile
  <2>2. QED
    BY <2>1, EarlyErrorFollows
<1>3. ASSUME IsResult(r) PROVE Follows(s, u)
  <2>1. fresh \in FreshLists /\ s.phases \in PhaseLists
    BY <1>3, ReconcileResultTyped DEF StatusRecords
  <2> HIDE DEF fresh
  <2>2. list \in PhaseLists /\ KeepsTimes(s.phases, list)
    BY <2>1, Preserved
  <2> HIDE DEF list
  <2>3. QED
    BY <2>2, AppliedFollows
<1>4. \A reason \in {"ReconcileError", "InvalidRevision", "Superseded", "Available", "Unavailable"} :
        reason \in Reasons
  BY DEF Reasons
<1>5. CASE error = "object"
  <2>1. new = Status!Condition(u, "Unknown", "ReconcileError")
    BY <1>5 DEF Status!FromReconcile
  <2> HIDE DEF u, new
  <2>2. Follows(s, new)
    BY <1>3, <1>4, <1>5, <2>1, ConditionFollows
  <2>3. QED
    BY <2>2 DEF new
<1>6. CASE error = "none"
  <2>1. new = IF DOMAIN r.errors # {} THEN Status!Condition(u, "False", "InvalidRevision")
              ELSE IF r.progressed THEN Status!Condition(u, "False", "Superseded")
              ELSE IF r.complete THEN Status!Completed(Status!Condition(u, "True", "Available"))
              ELSE Status!Condition(u, "False", "Unavailable")
    BY <1>6 DEF Status!FromReconcile
  <2> HIDE DEF u, new
  <2>2. Follows(s, new)
    BY <1>3, <1>4, <1>6, <2>1, ConditionFollows, CompletedFollows
  <2>3. QED
    BY <2>2 DEF new
<1>7. QED
  BY <1>1, <1>2, <1>5, <1>6

LEMMA TeardownFollows ==
  ASSUME NEW s \in StatusRecords, NEW r, NEW error \in {"internal", "none"},
         error = "none" => IsTeardownResult(r)
  PROVE  Follows(s, Status!FromTeardown(s, Phases, r, error))
<1> DEFINE fresh == Status!FromTeardownResult(Phases, r)
           list == Status!PreserveCompletionTimes(s.phases, fresh)
           u == Status!Apply(s, list)
           new == Status!FromTeardown(s, Phases, r, error)
<1>1. CASE error = "internal"
  <2>1. new = Status!InternalErrorUpdate(s)
    BY <1>1 DEF Status!FromTeardown
  <2>2. QED
    BY <2>1, EarlyErrorFollows
<1>2. CASE error = "none"
  <2>1. fresh \in FreshLists /\ s.phases \in PhaseLists
    BY <1>2, TeardownResultTyped DEF StatusRecords
  <2>2. list \in PhaseLists /\ KeepsTimes(s.phases, list)
    <3> HIDE DEF fresh
    <3>1. QED
      BY <2>1, Preserved
  <2>3. Follows(s, u)
    <3> HIDE DEF list
    <3>1. QED
      BY <2>2, AppliedFollows
  <2>4. new = Status!Condition(u, "False", "Archived")
    BY <1>2 DEF Status!FromTeardown
  <2>5. "Archived" \in Reasons
    BY DEF Reasons
  <2> HIDE DEF u, new
  <2>6. Follows(s, new)
    BY <2>3, <2>4, <2>5, ConditionFollows
  <2>7. QED
    BY <2>6 DEF new
<1>3. QED
  BY <1>1, <1>2

\* What follows is taken, if the longest of the messages fits.
LEMMA FollowsAdmitted ==
  ASSUME NEW old, old.phases \in PhaseLists, NEW new, Follows(old, new), 1 + Spread <= MaxMessage
  PROVE  Status!Admitted(old, new)
<1>1. /\ new \in StatusRecords /\ new.phases \in PhaseLists
      /\ new.counts = Status!SumObjectCounts(new.phases) /\ KeepsTimes(old.phases, new.phases)
  BY DEF Follows, StatusRecords
<1>2. Lengths = 0 .. MaxMessage
  BY Sizes DEF Lengths
<1>3. (new.phases = << >>) = (new.counts = None)
  BY <1>1, SumsTyped
<1>4. new.phases # << >> =>
        \A f \in Status!Fields :
          new.counts[f] = Status!MapThenSumSet(LAMBDA k : new.phases[k].counts[f], DOMAIN new.phases)
  BY <1>1, SumsTyped DEF SumOf
<1>5. ASSUME NEW k \in DOMAIN new.phases
      PROVE  Status!ObservedPhaseAdmitted(
               IF k \in DOMAIN old.phases THEN old.phases[k] ELSE new.phases[k], new.phases[k])
  <2>1. new.phases[k] \in PhaseRecords
    BY <1>1, ListIs
  <2>2. new.phases[k].message \in 0 .. MaxMessage /\ new.phases[k].details \in DetailMaps
    BY <2>1 DEF PhaseRecords
  <2>3. new.phases[k].message <= MaxMessage
    BY <2>2, Sizes
  <2>4. \A o \in DOMAIN new.phases[k].details : new.phases[k].details[o] \subseteq 0 .. MaxMessage
    BY <1>2, <2>2 DEF DetailMaps
  <2>5. \A o \in DOMAIN new.phases[k].details : \A n \in new.phases[k].details[o] : n <= MaxMessage
    BY <2>4, Sizes
  <2>6. k \in DOMAIN old.phases =>
          Status!KeptOnceSet(old.phases[k].completedAt, new.phases[k].completedAt, Never)
    BY <1>1 DEF KeepsTimes
  <2>7. Status!KeptOnceSet(new.phases[k].completedAt, new.phases[k].completedAt, Never)
    BY DEF Status!KeptOnceSet
  <2>8. QED
    BY <2>3, <2>5, <2>6, <2>7 DEF Status!ObservedPhaseAdmitted
<1>6. QED
  BY <1>3, <1>4, <1>5 DEF Follows, Status!Admitted

-----------------------------------------------------------------------------
(* A pass of the engine.                                                   *)

Holders == {"nobody", "ours", "newer", "foreign"}

ObjectRecords == [holder : Holders, content : Data \cup {Other}, ready : BOOLEAN]

LEMMA ActionTyped ==
  ASSUME NEW x \in ObjectRecords, NEW want
  PROVE  Action(x, want) \in Actions
<1>1. x.holder \in Holders
  BY DEF ObjectRecords
<1>2. QED
  BY <1>1 DEF Action, Actions, Holders

LEMMA WrittenTyped ==
  ASSUME obj \in [Objects -> ObjectRecords], NEW o \in Objects, NEW want \in Data
  PROVE  /\ Written(o, want) \in ObjectRecords
         /\ Written(o, want).holder # "nobody"
         /\ Written(o, want) # obj[o] => Written(o, want).content = want
<1>1. obj[o] \in ObjectRecords /\ obj[o].holder \in Holders /\ obj[o].ready \in BOOLEAN
  BY DEF ObjectRecords
<1>2. CASE Action(obj[o], want) \in Writes
  <2>1. PICK n : n = [holder |-> "ours", content |-> want, ready |-> obj[o].ready \/ o \notin Gates]
    OBVIOUS
  <2>2. Written(o, want) = n
    BY <1>2, <2>1 DEF Written
  <2>3. n \in ObjectRecords /\ n.holder # "nobody" /\ n.content = want
    BY <1>1, <2>1 DEF ObjectRecords, Holders
  <2>4. QED
    BY <2>2, <2>3
<1>3. CASE Action(obj[o], want) \notin Writes
  <2>1. Written(o, want) = obj[o]
    BY <1>3 DEF Written
  <2>2. obj[o].holder # "nobody"
    BY <1>3 DEF Action, Writes
  <2>3. QED
    BY <1>1, <2>1, <2>2
<1>4. QED
  BY <1>2, <1>3

LEMMA ObjectResultTyped ==
  ASSUME obj \in [Objects -> ObjectRecords], NEW o \in Objects, NEW want, NEW paused \in BOOLEAN,
         NEW x \in ObjectRecords
  PROVE  ObjectResult(o, want, paused, x) \in ResultRecords
<1>1. Action(obj[o], want) \in Actions
  BY ActionTyped
<1>2. Fits(x, want) \in BOOLEAN
  BY DEF Fits, ObjectRecords
<1>3. (IF x.ready THEN {} ELSE {ProbeMessage}) \in SUBSET Nat
  BY Sizes
<1>4. QED
  BY <1>1, <1>2, <1>3 DEF ObjectResult, ResultRecords

LEMMA LookedTyped ==
  ASSUME obj \in [Objects -> ObjectRecords], NEW k \in DOMAIN Phases, NEW want \in [Objects -> Data],
         NEW paused \in BOOLEAN, NEW missed
  PROVE  LET seen == Looked(k, want, paused, missed)
         IN  /\ seen.objects \in ResultMaps /\ seen.refusal = Status!NoRefusal
             /\ DOMAIN seen.objects = Phases[k] \ missed
             /\ \A o \in Phases[k] \ missed : seen.objects[o] =
                  ObjectResult(o, want[o], paused, IF paused THEN obj[o] ELSE Written(o, want[o]))
             /\ seen.complete = Status!IsComplete(Phases[k], seen.objects)
<1> DEFINE at(o) == ObjectResult(o, want[o], paused, IF paused THEN obj[o] ELSE Written(o, want[o]))
           results == [o \in Phases[k] \ missed |-> at(o)]
           seen == Looked(k, want, paused, missed)
<1>1. /\ seen.objects = results /\ seen.refusal = Status!NoRefusal
      /\ seen.complete = Status!IsComplete(Phases[k], results)
  BY DEF Looked
<1>2. Phases[k] \ missed \in SUBSET Objects
  BY Sizes
<1>3. ASSUME NEW o \in Objects PROVE at(o) \in ResultRecords
  <2>1. obj[o] \in ObjectRecords /\ Written(o, want[o]) \in ObjectRecords
    BY WrittenTyped
  <2>2. QED
    BY <2>1, ObjectResultTyped
<1>4. results \in ResultMaps
  <2> HIDE DEF at
  <2>1. results \in [Phases[k] \ missed -> ResultRecords]
    BY <1>2, <1>3
  <2>2. QED
    BY <1>2, <2>1 DEF ResultMaps
<1>5. QED
  BY <1>1, <1>4

LEMMA RefusalTyped ==
  ASSUME NEW k \in DOMAIN Phases
  PROVE  /\ Refusal(k) \in Refusals
         /\ Refused(k).objects \in ResultMaps /\ Refused(k).refusal = Refusal(k) /\ ~Refused(k).complete
         /\ IsReported(Refused(k))
<1>1. [o \in Phases[k] |-> {ProbeMessage}] \in [Phases[k] -> SUBSET Nat]
  BY Sizes
<1>2. Phases[k] \in SUBSET Objects
  BY Sizes
<1>3. Refusal(k) \in Refusals
  BY <1>1, <1>2, Sizes DEF Refusal, Refusals
<1>4. [o \in {} |-> Absent] \in [{} -> ResultRecords]
  OBVIOUS
<1>5. [o \in {} |-> Absent] \in ResultMaps
  BY <1>4 DEF ResultMaps
<1>6. QED
  BY <1>3, <1>5 DEF Refused, IsReported

\* The gated pass ends with a phase of the spec, the drift pass not before it.
LEMMA EndsAre ==
  ASSUME NEW want, NEW stamped, NEW refused \in SUBSET (1 .. Last)
  PROVE  /\ GatedEnd(want, refused) \in 1 .. Last
         /\ WrittenEnd(want, stamped, refused) \in 1 .. Last
<1>1. Last \in Nat /\ Last > 0
  BY Sizes
<1>2. GatedEnd(want, refused) \in 1 .. Last
  <2> DEFINE S == {Last} \cup refused \cup
                  {k \in 1 .. Last : \E o \in Phases[k] : ~Fits(Written(o, want[o]), want[o])}
  <2>1. S \subseteq 1 .. Last /\ S # {} /\ S \subseteq Nat
    <3>1. {Last} \subseteq 1 .. Last /\ refused \subseteq 1 .. Last /\ 1 .. Last \subseteq Nat
      BY <1>1
    <3>2. {k \in 1 .. Last : \E o \in Phases[k] : ~Fits(Written(o, want[o]), want[o])} \subseteq 1 .. Last
      OBVIOUS
    <3>3. QED
      BY <3>1, <3>2, Zenon
  <2>2. GatedEnd(want, refused) = Min(S)
    BY DEF GatedEnd
  <2> HIDE DEF S
  <2>3. QED
    BY <2>1, <2>2, MinIsLeast
<1>3. ASSUME NEW g \in 1 .. Last
      PROVE  Min({Last} \cup {k \in g + 1 .. Last : k \notin stamped}) \in 1 .. Last
  <2> DEFINE S == {Last} \cup {k \in g + 1 .. Last : k \notin stamped}
  <2>1. S \subseteq 1 .. Last /\ S # {} /\ S \subseteq Nat
    BY <1>1, <1>3
  <2> HIDE DEF S
  <2>2. Min(S) \in 1 .. Last
    BY <2>1, MinIsLeast
  <2>3. QED
    BY <2>2 DEF S
<1>4. QED
  BY <1>2, <1>3 DEF WrittenEnd

LEMMA ReachIs == work.at = "engine" => Reach \in 1 .. Last
BY EndsAre DEF Reach

LEMMA ResultTyped ==
  ASSUME obj \in [Objects -> ObjectRecords], NEW want \in [Objects -> Data], NEW stamped,
         NEW refused \in SUBSET (1 .. Last), NEW end \in 1 .. Last, NEW missed
  PROVE  LET r == Result(want, stamped, refused, end, missed)
         IN  /\ IsResult(r) /\ DOMAIN r.errors = {} /\ DOMAIN r.phases = 1 .. end
             /\ \A k \in 1 .. end :
                  r.phases[k] = IF k \in refused THEN Refused(k)
                                ELSE Looked(k, want, k > WrittenEnd(want, stamped, refused),
                                            IF k = end THEN missed ELSE {})
             /\ missed # {} => ~r.progressed
<1> DEFINE r == Result(want, stamped, refused, end, missed)
           written == WrittenEnd(want, stamped, refused)
           at(k) == IF k \in refused THEN Refused(k)
                    ELSE Looked(k, want, k > written, IF k = end THEN missed ELSE {})
<1>1. /\ r.errors = NoErrors /\ DOMAIN r = {"errors", "progressed", "complete", "phases"}
      /\ r.phases = [k \in 1 .. end |-> at(k)]
      /\ missed # {} => ~r.progressed
  BY DEF Result
<1>2. DOMAIN r.errors = {}
  BY <1>1 DEF NoErrors
<1>3. "errors" \notin DOMAIN Status!NoResult
  BY DEF Status!NoResult
<1>4. r # Status!NoResult
  BY <1>1, <1>3
<1>5. 1 .. end \subseteq DOMAIN Phases
  BY Sizes
<1>6. \A k \in 1 .. end : at(k) = IF k \in refused THEN Refused(k)
                                  ELSE Looked(k, want, k > written, IF k = end THEN missed ELSE {})
  OBVIOUS
<1> HIDE DEF r, at, written
<1>7. DOMAIN r.phases = 1 .. end /\ \A k \in 1 .. end : r.phases[k] = at(k)
  BY <1>1
<1>8. ASSUME NEW k \in 1 .. end PROVE IsReported(at(k))
  <2>1. k \in DOMAIN Phases
    BY <1>5
  <2>2. CASE k \in refused
    BY <1>6, <2>1, <2>2, RefusalTyped
  <2>3. CASE k \notin refused
    <3> DEFINE paused == k > written
    <3>1. paused \in BOOLEAN
      OBVIOUS
    <3>2. PICK some : some = IF k = end THEN missed ELSE {}
      OBVIOUS
    <3>3. at(k) = Looked(k, want, paused, some)
      BY <1>6, <2>3, <3>2
    <3> HIDE DEF paused
    <3>4. QED
      BY <2>1, <3>1, <3>3, LookedTyped DEF IsReported
  <2>4. QED
    BY <2>2, <2>3
<1>9. IsResult(r)
  BY <1>1, <1>2, <1>4, <1>5, <1>7, <1>8 DEF IsResult
<1>10. QED
  BY <1>1, <1>2, <1>6, <1>7, <1>9 DEF r, written

-----------------------------------------------------------------------------
(* The invariant.                                                          *)

Copies == [archived : BOOLEAN, finalizer : BOOLEAN, status : StatusRecords]

Works ==
  {Idle} \cup [at : {"resolve"}, self : Copies, got : Seq(Data)]
         \cup [at : {"engine"}, self : Copies, got : [Objects -> Data]]
         \cup [at : {"teardown", "free"}, self : Copies]
         \cup [at : {"report", "release"}, self : Copies, status : StatusRecords, again : BOOLEAN]

Typed ==
  /\ cos \in Copies /\ cache \in Copies /\ work \in Works
  /\ obj \in [Objects -> ObjectRecords]
  /\ age \in Ages /\ quiet \in Ages /\ alarm \in Ages

\* An object is missing while objects are resolved; the engine has the content
\* of the hash if there was one; what is reported follows what was read.
WorkSound(w) ==
  /\ w.at = "resolve" => Len(w.got) < Cardinality(Objects)
  /\ w.at = "engine" => w.self.status.hash \in {None, w.got}
  /\ w.at \in {"report", "release"} => Follows(w.self.status, w.status)

\* A hash that a copy has is the one of the API server.
Behind(c, s) == c.status.hash # None => s.status.hash = c.status.hash

Pins == Behind(cache, cos) /\ (work # Idle => Behind(work.self, cos))

\* Since one of the milestones nothing happened, or nothing since the deadline.
QuietEnough(q, a, status) ==
  q >= Progress!Promised \/ \E t \in {a} \cup Stamps(status) : t <= q

IInv == Typed /\ WorkSound(work) /\ Pins /\ QuietEnough(quiet, age, cos.status)

LEMMA WorkIs ==
  ASSUME NEW w \in Works
  PROVE  /\ w.at \in {"idle", "resolve", "engine", "teardown", "report", "release", "free"}
         /\ w = Idle <=> w.at = "idle"
         /\ w # Idle => w.self \in Copies /\ w.self.status \in StatusRecords
         /\ w.at = "resolve" => w.got \in Seq(Data) /\ DOMAIN w = {"at", "self", "got"}
         /\ w.at = "engine" => w.got \in [Objects -> Data]
         /\ w.at \in {"report", "release"} => w.status \in StatusRecords /\ w.again \in BOOLEAN
<1>1. CASE w = Idle
  BY <1>1 DEF Idle
<1>2. CASE w \in [at : {"resolve"}, self : Copies, got : Seq(Data)]
  BY <1>2 DEF Idle, Copies
<1>3. CASE w \in [at : {"engine"}, self : Copies, got : [Objects -> Data]]
  BY <1>3 DEF Idle, Copies
<1>4. CASE w \in [at : {"teardown", "free"}, self : Copies]
  BY <1>4 DEF Idle, Copies
<1>5. CASE w \in [at : {"report", "release"}, self : Copies, status : StatusRecords, again : BOOLEAN]
  BY <1>5 DEF Idle, Copies
<1>6. QED
  BY <1>1, <1>2, <1>3, <1>4, <1>5 DEF Works

\* What a reconcile ends with.
LEMMA ReportSound ==
  ASSUME NEW c \in Copies, NEW s, Follows(c.status, s), NEW again \in BOOLEAN,
         NEW at \in {"report", "release"}, NEW w,
         w = [at |-> at, self |-> c, status |-> s, again |-> again]
  PROVE  w \in Works /\ WorkSound(w) /\ w # Idle /\ w.self = c
<1>1. s \in StatusRecords
  BY DEF Follows
<1>2. /\ w \in [at : {"report", "release"}, self : Copies, status : StatusRecords, again : BOOLEAN]
      /\ w.at = at /\ w.self = c /\ w.status = s
  BY <1>1
<1>3. w \in Works
  BY <1>2 DEF Works
<1>4. w # Idle /\ WorkSound(w)
  BY <1>2 DEF Idle, WorkSound
<1>5. QED
  BY <1>2, <1>3, <1>4

LEMMA PinnedFollows ==
  ASSUME NEW w \in Works, w.at = "engine", WorkSound(w)
  PROVE  /\ Pinned(w) \in StatusRecords /\ Pinned(w).phases = w.self.status.phases
         /\ \A n : Follows(Pinned(w), n) => Follows(w.self.status, n)
<1>1. w.self.status \in StatusRecords /\ w.got \in [Objects -> Data]
  BY WorkIs
<1> DEFINE h == IF w.self.status.hash = None THEN w.got ELSE w.self.status.hash
<1>2. PICK n : n = [w.self.status EXCEPT !.hash = h]
  OBVIOUS
<1>3. Pinned(w) = n
  BY <1>1, <1>2 DEF Pinned, StatusRecords
<1>4. h \in {None} \cup [Objects -> Data]
  BY <1>1 DEF StatusRecords
<1>5. w.self.status.hash # None => h = w.self.status.hash
  OBVIOUS
<1> HIDE DEF h
<1>6. /\ n \in StatusRecords /\ n.phases = w.self.status.phases /\ n.hash = h
      /\ n.completedAt = w.self.status.completedAt
  BY <1>1, <1>2, <1>4 DEF StatusRecords
<1>7. QED
  BY <1>3, <1>5, <1>6 DEF Follows, Status!KeptOnceSet

LEMMA InitInv ==
  ASSUME Init
  PROVE  IInv
<1>1. Status!NewStatus \in StatusRecords
  BY TimesAre DEF Status!NewStatus, StatusRecords, PhaseLists, Reasons
<1>2. cos \in Copies /\ cache = cos
  BY <1>1 DEF Init, Copies
<1>3. work \in Works /\ work = Idle /\ work.at = "idle"
  BY DEF Init, Works, Idle
<1>4. Absent \in ObjectRecords
  BY DEF Absent, ObjectRecords, Holders
<1>5. obj \in [Objects -> ObjectRecords]
  BY <1>4 DEF Init
<1>6. age = 0 /\ quiet = 0 /\ alarm = 0
  BY DEF Init
<1>7. Typed
  BY <1>2, <1>3, <1>5, <1>6, TimesAre DEF Typed
<1>8. WorkSound(work) /\ Pins
  BY <1>2, <1>3 DEF WorkSound, Pins, Behind
<1>9. QuietEnough(quiet, age, cos.status)
  BY <1>6 DEF QuietEnough
<1>10. QED
  BY <1>7, <1>8, <1>9 DEF IInv

\* A step of the worker, with what it leaves in work.
LEMMA WorkerStep ==
  ASSUME IInv, NEW w \in Works, WorkSound(w), w # Idle => Behind(w.self, cos), work' = w,
         obj' \in [Objects -> ObjectRecords], UNCHANGED <<cos, cache, age, quiet, alarm>>
  PROVE  IInv'
<1>1. Typed'
  BY DEF IInv, Typed
<1>2. WorkSound(work)'
  BY DEF WorkSound
<1>3. Pins'
  BY DEF IInv, Pins, Behind
<1>4. QuietEnough(quiet, age, cos.status)'
  BY DEF IInv, QuietEnough, Stamps, StampedPhases
<1>5. QED
  BY <1>1, <1>2, <1>3, <1>4 DEF IInv

LEMMA BeginStep ==
  ASSUME IInv, Begin
  PROVE  IInv'
<1>1. /\ work' = CASE ~cache.finalizer -> Idle
                   [] cache.finalizer /\ cache.archived -> [at |-> "teardown", self |-> cache]
                   [] cache.finalizer /\ ~cache.archived ->
                        [at |-> "resolve", self |-> cache, got |-> << >>]
      /\ UNCHANGED <<cos, cache, age, quiet, alarm, obj>>
  BY DEF Begin, world, deployment
<1>2. cache \in Copies /\ Behind(cache, cos) /\ obj \in [Objects -> ObjectRecords]
  BY DEF IInv, Typed, Pins
<1>3. cache.finalizer \in BOOLEAN /\ cache.archived \in BOOLEAN
  BY <1>2 DEF Copies
<1>4. CASE ~cache.finalizer
  <2>1. work' = Idle
    BY <1>1, <1>4
  <2>2. Idle \in Works /\ WorkSound(Idle)
    BY DEF Works, WorkSound, Idle
  <2>3. QED
    BY <1>1, <1>2, <2>1, <2>2, WorkerStep
<1>5. CASE cache.finalizer /\ cache.archived
  <2>1. PICK w : w = [at |-> "teardown", self |-> cache]
    OBVIOUS
  <2>2. work' = w
    BY <1>1, <1>5, <2>1
  <2>3. w \in Works /\ w.self = cache /\ w.at = "teardown"
    BY <1>2, <2>1 DEF Works
  <2>4. WorkSound(w) /\ Behind(w.self, cos)
    BY <1>2, <2>3 DEF WorkSound
  <2>5. QED
    BY <1>1, <1>2, <2>2, <2>3, <2>4, WorkerStep
<1>6. CASE cache.finalizer /\ ~cache.archived
  <2>1. PICK w : w = [at |-> "resolve", self |-> cache, got |-> << >>]
    OBVIOUS
  <2>2. work' = w
    BY <1>1, <1>6, <2>1
  <2>3. w \in Works /\ w.self = cache /\ w.at = "resolve" /\ w.got = << >>
    BY <1>2, <2>1 DEF Works
  <2>4. Cardinality(Objects) > 0
    <3>1. 1 \in DOMAIN Phases /\ Phases[1] # {} /\ Phases[1] \subseteq Objects
      BY Sizes, RolloutAssumption
    <3>2. Objects # {}
      BY <3>1
    <3>3. QED
      BY <3>2, Sizes
  <2>5. WorkSound(w) /\ Behind(w.self, cos)
    BY <1>2, <2>3, <2>4 DEF WorkSound
  <2>6. QED
    BY <1>1, <1>2, <2>2, <2>3, <2>5, WorkerStep
<1>7. QED
  BY <1>3, <1>4, <1>5, <1>6

\* Any report that follows what was read.
LEMMA ReportStep ==
  ASSUME IInv, work # Idle, NEW s, Follows(work.self.status, s), NEW again \in BOOLEAN,
         NEW at \in {"report", "release"},
         work' = [at |-> at, self |-> work.self, status |-> s, again |-> again],
         obj' \in [Objects -> ObjectRecords], UNCHANGED <<cos, cache, age, quiet, alarm>>
  PROVE  IInv'
<1>1. work.self \in Copies /\ Behind(work.self, cos)
  BY WorkIs DEF IInv, Typed, Pins
<1>2. PICK w : w = [at |-> at, self |-> work.self, status |-> s, again |-> again]
  OBVIOUS
<1>3. w \in Works /\ WorkSound(w) /\ w # Idle /\ w.self = work.self
  BY <1>1, <1>2, ReportSound
<1>4. QED
  BY <1>1, <1>2, <1>3, WorkerStep

LEMMA ResolveStep ==
  ASSUME IInv, Resolve
  PROVE  IInv'
<1> DEFINE o == Len(work.got) + 1
           data == Resolver!ResolveObject(SliceOf[o], o, Manifest[o], mapped)
           got == Append(work.got, data)
           fails == data = Failure \/ (o = Cardinality(Objects)
                                       /\ ~Resolver!VerifyHash(work.self.status.hash, got, None))
<1>1. work.at = "resolve" /\ work \in Works
  BY DEF Resolve, IInv, Typed
<1>2. /\ work # Idle /\ work.self \in Copies /\ work.self.status \in StatusRecords
      /\ work.got \in Seq(Data) /\ DOMAIN work = {"at", "self", "got"}
      /\ Len(work.got) < Cardinality(Objects) /\ Behind(work.self, cos)
  BY <1>1, WorkIs DEF IInv, WorkSound, Pins
<1>3. UNCHANGED <<cos, cache, age, quiet, alarm, obj>> /\ obj' \in [Objects -> ObjectRecords]
  BY DEF Resolve, world, deployment, IInv, Typed
<1>4. data \in Data \cup {Failure}
  BY DEF Resolver!ResolveObject, Resolver!Unmarshalled
<1>5. IF fails THEN ResolutionFails
      ELSE work' = [work EXCEPT !.got = got, !.at = IF o = Cardinality(Objects) THEN "engine" ELSE @]
  BY DEF Resolve
<1>6. CASE fails
  <2>1. work' = [at |-> "report", self |-> work.self, again |-> TRUE,
                 status |-> Status!FromReconcile(work.self.status, Phases, Status!NoResult, "resolution")]
    <3> HIDE DEF fails
    <3>1. QED
      BY <1>5, <1>6 DEF ResolutionFails, Report
  <2>2. Follows(work.self.status,
                Status!FromReconcile(work.self.status, Phases, Status!NoResult, "resolution"))
    BY <1>2, ReconcileFollows
  <2>3. QED
    BY <1>2, <1>3, <2>1, <2>2, ReportStep
<1>7. CASE ~fails
  <2>1. data \in Data
    BY <1>4, <1>7
  <2>2. o = Cardinality(Objects) =>
          work.self.status.hash = None \/ work.self.status.hash = got
    BY <1>7 DEF Resolver!VerifyHash
  <2>3. PICK w : w = [work EXCEPT !.got = got, !.at = IF o = Cardinality(Objects) THEN "engine" ELSE @]
    OBVIOUS
  <2>4. work' = w
    <3> HIDE DEF fails
    <3>1. QED
      BY <1>5, <1>7, <2>3
  <2> HIDE DEF data, fails
  <2>5. got \in Seq(Data) /\ Len(got) = o /\ o \in Nat /\ o <= Cardinality(Objects)
    BY <1>2, <2>1, Sizes
  <2> HIDE DEF got, o
  <2>6. work.at = "resolve" /\ work.self \in Copies /\ DOMAIN w = {"at", "self", "got"}
    BY <1>1, <1>2, <2>3
  <2>7. w.at = (IF o = Cardinality(Objects) THEN "engine" ELSE "resolve") /\ w.self = work.self /\ w.got = got
    BY <1>1, <1>2, <2>3
  <2>8. w = [at |-> w.at, self |-> w.self, got |-> w.got]
    BY <1>2, <1>1, <2>3 DEF Works, Idle
  <2>9. w \in Works /\ WorkSound(w)
    <3>1. CASE o = Cardinality(Objects)
      <4>1. got \in [Objects -> Data]
        BY <2>5, <3>1, Sizes
      <4>2. w \in [at : {"engine"}, self : Copies, got : [Objects -> Data]]
        BY <1>2, <2>7, <2>8, <3>1, <4>1
      <4>3. WorkSound(w)
        BY <2>2, <2>7, <3>1 DEF WorkSound
      <4>4. QED
        BY <4>2, <4>3 DEF Works
    <3>2. CASE o # Cardinality(Objects)
      <4>1. w \in [at : {"resolve"}, self : Copies, got : Seq(Data)]
        BY <1>2, <2>5, <2>7, <2>8, <3>2
      <4>2. WorkSound(w)
        BY <2>5, <2>7, <3>2, Sizes DEF WorkSound
      <4>3. QED
        BY <4>1, <4>2 DEF Works
    <3>3. QED
      BY <3>1, <3>2
  <2>10. Behind(w.self, cos)
    BY <1>2, <2>7
  <2>11. QED
    BY <1>3, <2>4, <2>9, <2>10, WorkerStep
<1>8. QED
  BY <1>6, <1>7

\* What the engine is called with.
LEMMA AtEngine ==
  ASSUME IInv, work.at = "engine"
  PROVE  /\ work # Idle /\ work.got \in [Objects -> Data] /\ obj \in [Objects -> ObjectRecords]
         /\ work.self.status \in StatusRecords /\ Pinned(work) \in StatusRecords
         /\ \A n : Follows(Pinned(work), n) => Follows(work.self.status, n)
<1>1. work \in Works /\ WorkSound(work) /\ obj \in [Objects -> ObjectRecords]
  BY DEF IInv, Typed
<1>2. work # Idle /\ work.got \in [Objects -> Data] /\ work.self.status \in StatusRecords
  BY <1>1, WorkIs
<1>3. Pinned(work) \in StatusRecords /\ \A n : Follows(Pinned(work), n) => Follows(work.self.status, n)
  BY <1>1, PinnedFollows
<1>4. QED
  BY <1>1, <1>2, <1>3

LEMMA EngineFailsStep ==
  ASSUME IInv, EngineFails
  PROVE  IInv'
<1>1. UNCHANGED <<cos, cache, age, quiet, alarm, obj>> /\ obj' \in [Objects -> ObjectRecords]
  BY DEF EngineFails, world, deployment, IInv, Typed
<1>2. work.at \in {"engine", "teardown"} /\ work \in Works
  BY DEF EngineFails, IInv, Typed
<1>3. CASE work.at = "engine"
  <2>1. work' = [at |-> "report", self |-> work.self, again |-> TRUE,
                 status |-> Status!FromReconcile(Pinned(work), Phases, Status!NoResult, "internal")]
    BY <1>3 DEF EngineFails, Report
  <2>2. Follows(Pinned(work), Status!FromReconcile(Pinned(work), Phases, Status!NoResult, "internal"))
    BY <1>3, AtEngine, ReconcileFollows
  <2>3. Follows(work.self.status,
                Status!FromReconcile(Pinned(work), Phases, Status!NoResult, "internal"))
    BY <1>3, <2>2, AtEngine
  <2>4. work # Idle
    BY <1>3, AtEngine
  <2>5. QED
    BY <1>1, <2>1, <2>3, <2>4, ReportStep
<1>4. CASE work.at = "teardown"
  <2>1. work' = [at |-> "report", self |-> work.self, again |-> TRUE,
                 status |-> Status!FromTeardown(work.self.status, Phases, Status!NoResult, "internal")]
    BY <1>4 DEF EngineFails, Report
  <2>2. work # Idle /\ work.self.status \in StatusRecords
    BY <1>2, <1>4, WorkIs
  <2>3. Follows(work.self.status,
                Status!FromTeardown(work.self.status, Phases, Status!NoResult, "internal"))
    BY <2>2, TeardownFollows
  <2>4. QED
    BY <1>1, <2>1, <2>2, <2>3, ReportStep
<1>5. QED
  BY <1>2, <1>3, <1>4

LEMMA ObjectsWritten ==
  ASSUME obj \in [Objects -> ObjectRecords], NEW want \in [Objects -> Data], NEW these,
         WriteObjects(these, want)
  PROVE  /\ obj' \in [Objects -> ObjectRecords]
         /\ \A o \in Objects : obj'[o] = IF o \in these THEN Written(o, want[o]) ELSE obj[o]
<1> DEFINE at(o) == IF o \in these THEN Written(o, want[o]) ELSE obj[o]
<1>1. obj' = [o \in Objects |-> at(o)]
  BY DEF WriteObjects
<1>2. ASSUME NEW o \in Objects PROVE at(o) \in ObjectRecords
  <2>1. Written(o, want[o]) \in ObjectRecords /\ obj[o] \in ObjectRecords
    BY WrittenTyped
  <2>2. QED
    BY <2>1
<1>3. \A o \in Objects : at(o) = IF o \in these THEN Written(o, want[o]) ELSE obj[o]
  OBVIOUS
<1> HIDE DEF at
<1>4. obj' \in [Objects -> ObjectRecords] /\ \A o \in Objects : obj'[o] = at(o)
  BY <1>1, <1>2
<1>5. QED
  BY <1>3, <1>4

LEMMA PassStep ==
  ASSUME IInv, NEW refused \in SUBSET (1 .. Last), NEW end \in 1 .. Last, NEW missed,
         NEW error \in {"none", "object"}, Pass(refused, end, missed, error)
  PROVE  IInv'
<1> DEFINE stamped == StampedPhases(work.self.status)
           these == UpTo(Min({end, WrittenEnd(work.got, stamped, refused)})) \
                      (missed \cup UNION {Phases[k] : k \in refused})
           result == Result(work.got, stamped, refused, end, missed)
           s == Status!FromReconcile(Pinned(work), Phases, result, error)
           again == error # "none"
<1>1. /\ UNCHANGED <<cos, cache, age, quiet, alarm>> /\ work.at = "engine"
      /\ WriteObjects(these, work.got)
      /\ work' = [at |-> "report", self |-> work.self, status |-> s, again |-> again]
  BY DEF Pass, Report, deployment
<1>2. again \in BOOLEAN
  OBVIOUS
<1> HIDE DEF stamped, these, again
<1>3. obj' \in [Objects -> ObjectRecords]
  BY <1>1, AtEngine, ObjectsWritten
<1>4. IsResult(result)
  BY <1>1, AtEngine, ResultTyped
<1> HIDE DEF result
<1>5. Follows(Pinned(work), s)
  BY <1>1, <1>4, AtEngine, ReconcileFollows
<1>6. Follows(work.self.status, s) /\ work # Idle
  BY <1>1, <1>5, AtEngine
<1> HIDE DEF s
<1>7. QED
  BY <1>1, <1>2, <1>3, <1>6, ReportStep

\* The passes there are, and what the failed ones cost.
LEMMA PassesAre ==
  ASSUME work.at = "engine", ReconcilePhases \/ WriteFails \/ LookFails \/ PhaseRefused
  PROVE  \E refused \in SUBSET (1 .. Last), end \in 1 .. Last, error \in {"none", "object"} :
           \E missed \in SUBSET Phases[end] :
             /\ Pass(refused, end, missed, error)
             /\ refused # {} => end = Last /\ missed = {}
             /\ end = Last \/ missed # {}
             /\ error = "object" => missed # {}
             /\ refused # {} \/ missed # {} => Spend("fault")
<1>1. Last \in 1 .. Last /\ Reach \in 1 .. Last /\ Last \in Nat /\ {} \in SUBSET (1 .. Last)
  BY ReachIs, Sizes
<1>2. CASE ReconcilePhases
  <2>1. Pass({}, Last, {}, "none")
    BY <1>2 DEF ReconcilePhases
  <2>2. QED
    BY <1>1, <2>1
<1>3. CASE WriteFails
  <2>1. Spend("fault")
    BY <1>3 DEF WriteFails
  <2>2. PICK k \in 1 .. Reach : \E o \in Phases[k] : Pass({}, k, {o}, "object")
    BY <1>3 DEF WriteFails
  <2>3. PICK o \in Phases[k] : Pass({}, k, {o}, "object")
    BY <2>2
  <2>4. k \in 1 .. Last /\ {o} \in SUBSET Phases[k] /\ {o} # {}
    BY <1>1
  <2>5. QED
    BY <1>1, <2>1, <2>3, <2>4
<1>4. CASE LookFails
  <2>1. Spend("fault")
    BY <1>4 DEF LookFails
  <2>2. PICK k \in Reach + 1 .. Last : \E missed \in (SUBSET Phases[k]) \ {{}} : Pass({}, k, missed, "none")
    BY <1>4 DEF LookFails
  <2>3. PICK missed \in (SUBSET Phases[k]) \ {{}} : Pass({}, k, missed, "none")
    BY <2>2
  <2>4. k \in 1 .. Last /\ missed \in SUBSET Phases[k] /\ missed # {}
    BY <1>1
  <2>5. QED
    BY <1>1, <2>1, <2>3, <2>4
<1>5. CASE PhaseRefused
  <2>1. Spend("fault")
    BY <1>5 DEF PhaseRefused
  <2>2. PICK k \in 1 .. Last : Pass({k}, Last, {}, "none")
    BY <1>5 DEF PhaseRefused
  <2>3. {k} \in SUBSET (1 .. Last) /\ {} \in SUBSET Phases[Last] /\ {k} # {}
    OBVIOUS
  <2>4. QED
    BY <1>1, <2>1, <2>2, <2>3
<1>6. QED
  BY <1>2, <1>3, <1>4, <1>5

LEMMA EnginePassStep ==
  ASSUME IInv, ReconcilePhases \/ WriteFails \/ LookFails \/ PhaseRefused
  PROVE  IInv'
<1>1. work.at = "engine"
  BY DEF ReconcilePhases, Pass, WriteFails, LookFails, PhaseRefused
<1>2. PICK refused \in SUBSET (1 .. Last), end \in 1 .. Last, error \in {"none", "object"} :
        \E missed \in SUBSET Phases[end] : Pass(refused, end, missed, error)
  BY <1>1, PassesAre
<1>3. PICK missed : Pass(refused, end, missed, error)
  BY <1>2
<1>4. QED
  BY <1>3, PassStep

LEMMA PreflightRefusesStep ==
  ASSUME IInv, PreflightRefuses
  PROVE  IInv'
<1> DEFINE result(k) == [errors |-> [j \in {k} |-> Refusal(k)], progressed |-> FALSE,
                         complete |-> FALSE, phases |-> << >>]
           s(k) == Status!FromReconcile(Pinned(work), Phases, result(k), "none")
<1>1. UNCHANGED <<cos, cache, age, quiet, alarm, obj>> /\ work.at = "engine"
  BY DEF PreflightRefuses, world, deployment
<1>2. PICK k \in 1 .. Last :
        work' = [at |-> "report", self |-> work.self, status |-> s(k), again |-> FALSE]
  BY DEF PreflightRefuses, Report
<1>3. IsResult(result(k))
  <2>1. "errors" \notin DOMAIN Status!NoResult /\ "errors" \in DOMAIN result(k)
    BY DEF Status!NoResult
  <2>2. result(k) # Status!NoResult
    BY <2>1
  <2>3. \A j \in DOMAIN result(k).errors : result(k).errors[j] \in Refusals
    BY Sizes, RefusalTyped
  <2>4. result(k).phases = << >>
    OBVIOUS
  <2> HIDE DEF result
  <2>5. QED
    BY <2>2, <2>3, <2>4 DEF IsResult
<1> HIDE DEF result
<1>4. Follows(Pinned(work), s(k))
  BY <1>1, <1>3, AtEngine, ReconcileFollows
<1>5. Follows(work.self.status, s(k)) /\ work # Idle /\ obj' \in [Objects -> ObjectRecords]
  BY <1>1, <1>4, AtEngine
<1> HIDE DEF s
<1>6. QED
  BY <1>1, <1>2, <1>5, ReportStep

LEMMA TeardownPhasesStep ==
  ASSUME IInv, TeardownPhases
  PROVE  IInv'
<1> DEFINE left == {k \in 1 .. Last : \E o \in Phases[k] : obj[o].holder = "ours"}
           active == IF left = {} THEN 0 ELSE Max(left)
           There(k) == {o \in Phases[k] : obj[o].holder # "nobody"}
           mine == {o \in Objects : active # 0 /\ o \in Phases[active] /\ obj[o].holder = "ours"}
           phases == [k \in 1 .. Last |->
                       [complete |-> k > active, waiting |-> IF k = active THEN mine ELSE There(k)]]
           result == [active |-> active, phases |-> phases]
           s == Status!FromTeardown(work.self.status, Phases, result, "none")
           at == IF left = {} THEN "release" ELSE "report"
<1>1. /\ UNCHANGED <<cos, cache, age, quiet, alarm>> /\ work.at = "teardown"
      /\ work' = [at |-> at, self |-> work.self, again |-> left # {}, status |-> s]
  BY DEF TeardownPhases, deployment
<1>2. PICK gone : obj' = [o \in Objects |-> IF o \in gone THEN Absent ELSE obj[o]]
  BY DEF TeardownPhases
<1>3. obj \in [Objects -> ObjectRecords] /\ work \in Works
  BY DEF IInv, Typed
<1>4. Absent \in ObjectRecords
  BY DEF Absent, ObjectRecords, Holders
<1>5. obj' \in [Objects -> ObjectRecords]
  BY <1>2, <1>3, <1>4
<1>6. work # Idle /\ work.self.status \in StatusRecords
  BY <1>1, <1>3, WorkIs
<1>7. IsTeardownResult(result)
  <2>1. \A k \in DOMAIN Phases : There(k) \subseteq Objects
    BY Sizes
  <2>2. mine \subseteq Objects
    OBVIOUS
  <2>3. DOMAIN Phases = 1 .. Last
    BY Sizes
  <2> HIDE DEF active, There, mine
  <2>4. result.phases = phases /\ DOMAIN phases = DOMAIN Phases
    BY <2>3
  <2>5. \A k \in DOMAIN Phases : phases[k].waiting \subseteq Objects
    BY <2>1, <2>2, <2>3
  <2> HIDE DEF phases, result
  <2>6. QED
    BY <2>4, <2>5 DEF IsTeardownResult
<1> HIDE DEF result
<1>8. Follows(work.self.status, s)
  BY <1>6, <1>7, TeardownFollows
<1>9. at \in {"report", "release"} /\ (left # {}) \in BOOLEAN
  OBVIOUS
<1> DEFINE again == left # {}
<1> HIDE DEF s, at, left
<1>10. again \in BOOLEAN
  OBVIOUS
<1>11. work' = [at |-> at, self |-> work.self, status |-> s, again |-> again]
  BY <1>1
<1> HIDE DEF again
<1>12. QED
  BY <1>1, <1>5, <1>6, <1>8, <1>9, <1>10, <1>11, ReportStep

-----------------------------------------------------------------------------
(* The status update, and the time since a milestone.                      *)

LEMMA StampsAre ==
  ASSUME NEW s \in StatusRecords
  PROVE  /\ Stamps(s) \subseteq Ages
         /\ \A t : Further(s, t) \subseteq Stamps(s)
         /\ \A k \in StampedPhases(s) : k \in DOMAIN s.phases /\ s.phases[k].completedAt \in Stamps(s)
<1>1. s.phases \in PhaseLists
  BY DEF StatusRecords
<1>2. \A k \in DOMAIN s.phases : s.phases[k].completedAt \in Times
  BY <1>1, ListIs DEF PhaseRecords
<1>3. \A k \in StampedPhases(s) : k \in DOMAIN s.phases /\ s.phases[k].completedAt \in Ages
  BY <1>2 DEF StampedPhases, Times
<1>4. QED
  BY <1>3 DEF Stamps, Further

\* Nobody has been idle for longer than since the last milestone.
LEMMA QuietKept ==
  ASSUME NEW old \in StatusRecords, NEW new \in StatusRecords, Status!Admitted(old, new),
         Further(old, new) = {}, NEW q \in Ages, NEW a \in Ages, QuietEnough(q, a, old)
  PROVE  /\ Min({q} \cup Further(new, old)) \in Ages
         /\ QuietEnough(Min({q} \cup Further(new, old)), a, new)
<1> DEFINE S == {q} \cup Further(new, old)
           r == Min(S)
<1>1. Further(new, old) \subseteq Stamps(new) /\ Stamps(new) \subseteq Ages
  BY StampsAre
<1>2. S \subseteq Nat /\ S # {} /\ S \subseteq Ages
  BY <1>1, TimesAre
<1> HIDE DEF S
<1>3. r \in S /\ r \in Ages
  BY <1>2, MinIsLeast
<1> HIDE DEF r
<1>4. ASSUME r = q PROVE QuietEnough(r, a, new)
  <2>1. CASE q >= Progress!Promised
    BY <1>4, <2>1 DEF QuietEnough
  <2>2. CASE ~(q >= Progress!Promised)
    <3>1. PICK t \in {a} \cup Stamps(old) : t <= q
      BY <2>2 DEF QuietEnough
    <3>2. t \in {a} \cup Stamps(new)
      <4>1. CASE t \in Stamps(old)
        <5>1. PICK k \in StampedPhases(old) : t = old.phases[k].completedAt
          BY <4>1 DEF Stamps
        <5>2. k \in StampedPhases(new)
          BY DEF Further
        <5>3. k \in DOMAIN old.phases /\ k \in DOMAIN new.phases /\ old.phases[k].completedAt # Never
          BY <5>2 DEF StampedPhases
        <5>4. Status!ObservedPhaseAdmitted(old.phases[k], new.phases[k])
          BY <5>3 DEF Status!Admitted
        <5>5. new.phases[k].completedAt = t
          BY <5>1, <5>3, <5>4 DEF Status!ObservedPhaseAdmitted, Status!KeptOnceSet
        <5>6. QED
          BY <5>2, <5>5, StampsAre
      <4>2. QED
        BY <3>1, <4>1
    <3>3. QED
      BY <1>4, <3>1, <3>2 DEF QuietEnough
  <2>3. QED
    BY <2>1, <2>2
<1>5. ASSUME r \in Further(new, old) PROVE QuietEnough(r, a, new)
  <2>1. r \in Stamps(new) /\ r <= r
    BY <1>1, <1>3, <1>5, TimesAre
  <2>2. QED
    BY <2>1 DEF QuietEnough
<1>6. r \in Ages /\ QuietEnough(r, a, new)
  BY <1>3, <1>4, <1>5 DEF S
<1>7. QED
  BY <1>6 DEF r, S

LEMMA UpdateStatusStep ==
  ASSUME IInv, UpdateStatus
  PROVE  IInv'
<1> DEFINE sent == work.status # work.self.status
           ok == ~sent \/ (~Conflicts /\ Accepted)
<1>1. /\ work.at \in {"report", "release"} /\ UNCHANGED <<cache, age, alarm, obj>>
      /\ cos' = IF sent /\ ok THEN [cos EXCEPT !.status = work.status] ELSE cos
      /\ quiet' = IF ~(sent /\ ok) THEN quiet
                  ELSE IF Further(cos.status, work.status) # {} THEN Progress!Promised
                  ELSE Min({quiet} \cup Further(work.status, cos.status))
      /\ \/ ok /\ work' = [at |-> "free", self |-> [work.self EXCEPT !.status = work.status]]
         \/ work' = Idle
  BY DEF UpdateStatus, world, deployment
<1>2. /\ cos \in Copies /\ cache \in Copies /\ work \in Works /\ obj \in [Objects -> ObjectRecords]
      /\ age \in Ages /\ quiet \in Ages /\ alarm \in Ages
      /\ Behind(cache, cos) /\ QuietEnough(quiet, age, cos.status)
  BY DEF IInv, Typed, Pins
<1>3. /\ work # Idle /\ work.self \in Copies /\ work.self.status \in StatusRecords
      /\ work.status \in StatusRecords /\ Behind(work.self, cos)
  BY <1>1, <1>2, WorkIs DEF IInv, Pins
<1>4. Idle \in Works /\ WorkSound(Idle)
  BY DEF Works, WorkSound, Idle
<1>5. PICK c : c = [work.self EXCEPT !.status = work.status]
  OBVIOUS
<1>6. c \in Copies /\ c.status = work.status
  BY <1>3, <1>5 DEF Copies
<1>7. PICK w : w = [at |-> "free", self |-> c]
  OBVIOUS
<1>8. w \in Works /\ WorkSound(w) /\ w.self = c
  BY <1>6, <1>7 DEF Works, WorkSound
<1>9. (ok /\ work' = w) \/ work' = Idle
  BY <1>1, <1>5, <1>7
<1>10. CASE ~(sent /\ ok)
  <2>1. UNCHANGED <<cos, cache, age, quiet, alarm, obj>>
    <3> HIDE DEF sent, ok
    <3>1. QED
      BY <1>1, <1>10
  <2>2. ok => work.status = work.self.status
    BY <1>10
  <2>3. work' = w => Behind(w.self, cos)
    <3>1. CASE ok
      BY <1>3, <1>6, <1>8, <2>2, <3>1 DEF Behind
    <3>2. CASE ~ok
      <4>1. w # Idle
        BY <1>7 DEF Idle
      <4>2. QED
        BY <1>9, <3>2, <4>1
    <3>3. QED
      BY <3>1, <3>2
  <2> HIDE DEF sent, ok
  <2>4. QED
    BY <1>2, <1>4, <1>8, <1>9, <2>1, <2>3, WorkerStep
<1>11. CASE sent /\ ok
  <2>1. cos = work.self /\ Status!Admitted(cos.status, work.status)
    BY <1>11 DEF Conflicts, Accepted
  <2>2. cos' = c
    <3> HIDE DEF sent, ok
    <3>1. QED
      BY <1>1, <1>5, <1>11, <2>1
  <2>3. quiet' = IF Further(cos.status, work.status) # {} THEN Progress!Promised
                 ELSE Min({quiet} \cup Further(work.status, cos.status))
    <3> HIDE DEF sent, ok
    <3>1. QED
      BY <1>1, <1>11
  <2>4. quiet' \in Ages /\ QuietEnough(quiet', age, work.status)
    <3>1. CASE Further(cos.status, work.status) # {}
      <4>1. quiet' = Progress!Promised
        BY <2>3, <3>1
      <4>2. quiet' \in Ages /\ quiet' >= Progress!Promised
        BY <4>1, TimesAre
      <4>3. QED
        BY <4>2 DEF QuietEnough
    <3>2. CASE Further(cos.status, work.status) = {}
      <4>1. quiet' = Min({quiet} \cup Further(work.status, cos.status))
        BY <2>3, <3>2
      <4>2. QED
        BY <1>2, <1>3, <2>1, <3>2, <4>1, QuietKept
    <3>3. QED
      BY <3>1, <3>2
  <2>5. Typed' /\ WorkSound(work)'
    BY <1>1, <1>2, <1>4, <1>6, <1>8, <1>9, <2>2, <2>4 DEF Typed, WorkSound
  <2>6. Pins'
    <3>1. Behind(cache, c)
      BY <1>2, <1>6, <2>1 DEF Behind, Status!Admitted, Status!KeptOnceSet
    <3>2. work' # Idle => work'.self = c
      BY <1>8, <1>9
    <3>3. cache' = cache
      BY <1>1
    <3>4. QED
      BY <2>2, <3>1, <3>2, <3>3 DEF Pins, Behind
  <2>7. QuietEnough(quiet, age, cos.status)'
    <3>1. cos'.status = work.status /\ age' = age
      BY <1>1, <1>6, <2>2
    <3>2. QuietEnough(quiet', age', cos'.status)
      BY <2>4, <3>1
    <3>3. QED
      BY <3>2 DEF QuietEnough, Stamps, StampedPhases
  <2>8. QED
    BY <2>5, <2>6, <2>7 DEF IInv
<1>12. QED
  BY <1>10, <1>11

LEMMA UpdateFailsStep ==
  ASSUME IInv, UpdateFails
  PROVE  IInv'
<1>1. work' = Idle /\ UNCHANGED <<cos, cache, age, quiet, alarm, obj>>
  BY DEF UpdateFails, world, deployment
<1>2. Idle \in Works /\ WorkSound(Idle)
  BY DEF Works, WorkSound, Idle
<1>3. obj' \in [Objects -> ObjectRecords]
  BY <1>1 DEF IInv, Typed
<1>4. QED
  BY <1>1, <1>2, <1>3, WorkerStep

\* The API server's copy changes in something else than its status.
LEMMA SpecStep ==
  ASSUME IInv, NEW c \in Copies, cos' = c, c.status = cos.status,
         UNCHANGED <<cache, age, quiet, alarm, obj>>, work' = work \/ work' = Idle
  PROVE  IInv'
<1>1. Idle \in Works /\ WorkSound(Idle)
  BY DEF Works, WorkSound, Idle
<1>2. Typed' /\ WorkSound(work)'
  BY <1>1 DEF IInv, Typed, WorkSound
<1>3. Pins'
  BY DEF IInv, Pins, Behind
<1>4. QuietEnough(quiet, age, cos.status)'
  BY DEF IInv, QuietEnough, Stamps, StampedPhases
<1>5. QED
  BY <1>2, <1>3, <1>4 DEF IInv

LEMMA ReleaseStep ==
  ASSUME IInv, Release
  PROVE  IInv'
<1>1. /\ work' = Idle /\ UNCHANGED <<cache, age, quiet, alarm, obj>>
      /\ cos' = cos \/ cos' = [cos EXCEPT !.finalizer = FALSE]
  BY DEF Release, world, deployment
<1>2. cos \in Copies
  BY DEF IInv, Typed
<1>3. cos' \in Copies /\ cos'.status = cos.status
  BY <1>1, <1>2 DEF Copies
<1>4. QED
  BY <1>1, <1>3, SpecStep

LEMMA ArchiveStep ==
  ASSUME IInv, Archive
  PROVE  IInv'
<1>1. /\ UNCHANGED <<cache, age, quiet, alarm, obj, work>>
      /\ cos' = [cos EXCEPT !.archived = TRUE]
  BY DEF Archive, world, deployment
<1>2. cos \in Copies
  BY DEF IInv, Typed
<1>3. cos' \in Copies /\ cos'.status = cos.status
  BY <1>1, <1>2 DEF Copies
<1>4. QED
  BY <1>1, <1>3, SpecStep

\* A copy is brought up to date; the worker goes on, or is lost.
LEMMA CopyStep ==
  ASSUME IInv, cache' = cos, UNCHANGED <<cos, age, quiet, obj>>, alarm' \in Ages,
         work' = work \/ work' = Idle
  PROVE  IInv'
<1>1. Idle \in Works /\ WorkSound(Idle)
  BY DEF Works, WorkSound, Idle
<1>2. Typed' /\ WorkSound(work)'
  BY <1>1 DEF IInv, Typed, WorkSound
<1>3. Pins'
  BY DEF IInv, Pins, Behind
<1>4. QuietEnough(quiet, age, cos.status)'
  BY DEF IInv, QuietEnough, Stamps, StampedPhases
<1>5. QED
  BY <1>2, <1>3, <1>4 DEF IInv

LEMMA DeliverCOSStep ==
  ASSUME IInv, DeliverCOS
  PROVE  IInv'
<1>1. cache' = cos /\ UNCHANGED <<cos, age, quiet, obj, alarm, work>> /\ alarm \in Ages
  BY DEF DeliverCOS, world, IInv, Typed
<1>2. QED
  BY <1>1, CopyStep

LEMMA RestartStep ==
  ASSUME IInv, Restart
  PROVE  IInv'
<1>1. cache' = cos /\ UNCHANGED <<cos, age, quiet, obj>> /\ alarm' = 0 /\ work' = Idle
  BY DEF Restart
<1>2. QED
  BY <1>1, TimesAre, CopyStep

\* The cluster's objects change, or something the invariant does not see.
LEMMA WorldStep ==
  ASSUME IInv, UNCHANGED <<cos, cache, work, age, quiet>>, alarm' \in Ages,
         obj' \in [Objects -> ObjectRecords]
  PROVE  IInv'
<1>1. Typed' /\ WorkSound(work)'
  BY DEF IInv, Typed, WorkSound
<1>2. Pins'
  BY DEF IInv, Pins, Behind
<1>3. QuietEnough(quiet, age, cos.status)'
  BY DEF IInv, QuietEnough, Stamps, StampedPhases
<1>4. QED
  BY <1>1, <1>2, <1>3 DEF IInv

LEMMA SlicesStep ==
  ASSUME IInv, \E s \in Slices : DeliverSlice(s) \/ ReplaceSlice(s)
  PROVE  IInv'
<1>1. UNCHANGED <<cos, cache, work, age, quiet, alarm, obj>>
  BY DEF DeliverSlice, ReplaceSlice, deployment
<1>2. alarm' \in Ages /\ obj' \in [Objects -> ObjectRecords]
  BY <1>1 DEF IInv, Typed
<1>3. QED
  BY <1>1, <1>2, WorldStep

LEMMA ChangeStep ==
  ASSUME IInv, NEW o \in Objects, NEW x \in ObjectRecords, Change(o, x)
  PROVE  IInv'
<1>1. UNCHANGED <<cos, cache, work, age, quiet, alarm>> /\ obj' = [obj EXCEPT ![o] = x]
  BY DEF Change, deployment
<1>2. alarm' \in Ages /\ obj' \in [Objects -> ObjectRecords]
  BY <1>1 DEF IInv, Typed
<1>3. QED
  BY <1>1, <1>2, WorldStep

LEMMA OthersStep ==
  ASSUME IInv, NEW o \in Objects, OpenGate(o) \/ Drift(o) \/ Take(o)
  PROVE  IInv'
<1>1. obj[o] \in ObjectRecords
  BY DEF IInv, Typed
<1>2. Absent \in ObjectRecords
  BY DEF Absent, ObjectRecords, Holders
<1>3. CASE OpenGate(o)
  <2>1. PICK x : x = [obj[o] EXCEPT !.ready = TRUE]
    OBVIOUS
  <2>2. x \in ObjectRecords
    BY <1>1, <2>1 DEF ObjectRecords
  <2>3. Change(o, x)
    BY <1>3, <2>1 DEF OpenGate
  <2>4. QED
    BY <2>2, <2>3, ChangeStep
<1>4. CASE Drift(o)
  <2>1. PICK x \in {Absent, [obj[o] EXCEPT !.content = Other]} \cup
                   {[obj[o] EXCEPT !.ready = FALSE] : p \in {o} \cap Gates} : Change(o, x)
    BY <1>4 DEF Drift
  <2>2. x = Absent \/ x = [obj[o] EXCEPT !.content = Other] \/ x = [obj[o] EXCEPT !.ready = FALSE]
    OBVIOUS
  <2>3. x \in ObjectRecords
    BY <1>1, <1>2, <2>2 DEF ObjectRecords
  <2>4. QED
    BY <2>1, <2>3, ChangeStep
<1>5. CASE Take(o)
  <2> DEFINE h == IF obj[o].holder = "ours" THEN "newer" ELSE "foreign"
  <2>1. PICK x : x = [obj[o] EXCEPT !.holder = h, !.ready = TRUE]
    OBVIOUS
  <2>2. h \in Holders
    BY DEF Holders
  <2>3. x = [obj[o] EXCEPT !.holder = IF @ = "ours" THEN "newer" ELSE "foreign", !.ready = TRUE]
    BY <1>1, <2>1 DEF ObjectRecords
  <2>4. Change(o, x)
    BY <1>5, <2>3 DEF Take
  <2> HIDE DEF h
  <2>5. x \in ObjectRecords
    BY <1>1, <2>1, <2>2 DEF ObjectRecords
  <2>6. QED
    BY <2>4, <2>5, ChangeStep
<1>6. QED
  BY <1>3, <1>4, <1>5

-----------------------------------------------------------------------------
(* The deadline.                                                           *)

\* A product that is cut off is not more than the product.
LEMMA DeadlineAtMostPromised ==
  Progress!Deadline \in Int /\ Progress!Deadline <= Progress!Promised
<1> DEFINE n == Minutes * Unit
           M == 2 ^ Width
<1>1. Minutes \in Nat /\ Unit \in Nat /\ M \in Nat \ {0}
  BY RolloutAssumption DEF Progress!DeadlineAssumption
<1>2. n \in Nat
  BY <1>1
<1> DEFINE half == 2 ^ (Width - 1)
<1>3. Progress!Deadline = IF n % M >= half THEN (n % M) - M ELSE n % M
  BY DEF Progress!Deadline, Progress!Wrapped
<1>4. Progress!Promised = n
  BY DEF Progress!Promised
<1> HIDE DEF n, M, half
<1>5. n % M \in Nat /\ n % M <= n
  BY <1>1, <1>2
<1>6. QED
  BY <1>1, <1>2, <1>3, <1>4, <1>5

\* The last milestone is among the creation and the phases found complete.
LEMMA MilestoneIs ==
  ASSUME NEW a \in Ages, NEW stamps, stamps \subseteq Ages
  PROVE  /\ Progress!SinceMilestone(a, stamps) \in Nat
         /\ \A t \in {a} \cup stamps : Progress!SinceMilestone(a, stamps) <= t
<1> DEFINE S == {a} \cup stamps
<1>1. S \subseteq Nat /\ S # {}
  BY TimesAre
<1>2. Progress!SinceMilestone(a, stamps) = Min(S)
  BY DEF Progress!SinceMilestone, Progress!Min, Min
<1> HIDE DEF S
<1>3. Min(S) \in Nat /\ \A t \in S : Min(S) <= t
  BY <1>1, MinIsLeast
<1>4. QED
  BY <1>2, <1>3 DEF S

LEMMA RequeueTyped ==
  ASSUME NEW c \in Copies, age \in Ages
  PROVE  Evaluation(c).requeueAfter \in Ages
<1> DEFINE stamps == Stamps(c.status)
           elapsed == Progress!SinceMilestone(age, stamps)
<1>1. stamps \subseteq Ages
  BY StampsAre DEF Copies
<1> HIDE DEF stamps
<1>2. elapsed \in Nat
  BY <1>1, MilestoneIs
<1>3. \/ Evaluation(c).requeueAfter = 0
      \/ ~(elapsed >= Progress!Deadline) /\ Evaluation(c).requeueAfter = Progress!Deadline - elapsed
  BY DEF Evaluation, Progress!EvaluateDeadline, Progress!Verdict, stamps
<1> HIDE DEF elapsed
<1>4. CASE Evaluation(c).requeueAfter = 0
  BY <1>4, TimesAre
<1>5. CASE ~(elapsed >= Progress!Deadline) /\ Evaluation(c).requeueAfter = Progress!Deadline - elapsed
  <2>1. Progress!Deadline - elapsed \in 0 .. Progress!Promised
    BY <1>2, <1>5, DeadlineAtMostPromised, TimesAre
  <2>2. QED
    BY <1>5, <2>1 DEF Ages
<1>6. QED
  BY <1>3, <1>4, <1>5

LEMMA ReconcileDeploymentStep ==
  ASSUME IInv, NEW fails \in BOOLEAN, ReconcileDeployment(fails)
  PROVE  IInv'
<1>1. /\ UNCHANGED <<cos, cache, work, age, quiet, obj>>
      /\ alarm' = IF fails THEN 0 ELSE Evaluation(cache).requeueAfter
  BY DEF ReconcileDeployment, world
<1>2. cache \in Copies /\ age \in Ages
  BY DEF IInv, Typed
<1>3. alarm' \in Ages /\ obj' \in [Objects -> ObjectRecords]
  <2>1. obj' \in [Objects -> ObjectRecords]
    BY <1>1 DEF IInv, Typed
  <2>2. alarm' \in Ages
    BY <1>1, <1>2, RequeueTyped, TimesAre
  <2>3. QED
    BY <2>1, <2>2
<1>4. QED
  BY <1>1, <1>3, WorldStep

-----------------------------------------------------------------------------
(* Time passes, for the API server's copy, the informer's and the worker's *)
(* alike.                                                                  *)

LEMMA OlderAre ==
  /\ \A t \in Ages : Older(t) \in Ages /\ (t >= Progress!Promised => Older(t) >= Progress!Promised)
  /\ \A t, u \in Ages : t <= u => Older(t) <= Older(u)
  /\ \A t \in Times : Older(t) \in Times /\ (Older(t) = Never <=> t = Never)
<1>1. ASSUME NEW t \in Ages
      PROVE  Older(t) = IF t + 1 <= Progress!Promised THEN t + 1 ELSE Progress!Promised
  <2> DEFINE S == {t + 1, Progress!Promised}
  <2>1. t \in Nat /\ t # Never
    BY TimesAre
  <2>2. S \subseteq Nat /\ S # {}
    BY <2>1, TimesAre
  <2>3. Older(t) = Min(S)
    BY <2>1 DEF Older
  <2>4. Min(S) \in S /\ \A y \in S : Min(S) <= y
    <3> HIDE DEF S
    <3>1. QED
      BY <2>2, MinIsLeast
  <2>5. Min(S) \in {t + 1, Progress!Promised} /\ Min(S) <= t + 1 /\ Min(S) <= Progress!Promised
    BY <2>4
  <2> HIDE DEF S
  <2>6. QED
    BY <2>1, <2>3, <2>5, TimesAre
<1>2. ASSUME NEW t \in Ages
      PROVE  Older(t) \in Ages /\ (t >= Progress!Promised => Older(t) >= Progress!Promised)
  BY <1>1, TimesAre DEF Ages
<1>3. ASSUME NEW t \in Ages, NEW u \in Ages, t <= u PROVE Older(t) <= Older(u)
  BY <1>1, <1>3, TimesAre DEF Ages
<1>4. Older(Never) = Never
  BY DEF Older
<1>5. ASSUME NEW t \in Times PROVE Older(t) \in Times /\ (Older(t) = Never <=> t = Never)
  BY <1>2, <1>4, TimesAre DEF Times
<1>6. QED
  BY <1>2, <1>3, <1>5

\* Sums of the same counts.
LEMMA SumsSame ==
  ASSUME NEW p \in PhaseLists, NEW q \in PhaseLists, DOMAIN p = DOMAIN q,
         \A k \in DOMAIN p : q[k].counts = p[k].counts
  PROVE  Status!SumObjectCounts(q) = Status!SumObjectCounts(p) /\ (q = << >> <=> p = << >>)
<1>1. q = << >> <=> p = << >>
  <2>1. 1 \in DOMAIN Phases
    BY Sizes
  <2>2. QED
    BY <2>1, ListIs
<1>2. CASE p = << >>
  BY <1>1, <1>2 DEF Status!SumObjectCounts
<1>3. CASE p # << >>
  <2>1. IsFiniteSet(DOMAIN p)
    BY <1>3, ListIs, Sizes
  <2>2. ASSUME NEW f PROVE SumOf(q, f) = SumOf(p, f)
    <3>1. \A k \in DOMAIN p : q[k].counts[f] = p[k].counts[f]
      OBVIOUS
    <3>2. QED
      BY <2>1, <3>1, SumIsSame
  <2>3. /\ Status!SumObjectCounts(p) = [f \in Status!Fields |-> SumOf(p, f)]
        /\ Status!SumObjectCounts(q) = [f \in Status!Fields |-> SumOf(q, f)]
    BY <1>1, <1>3 DEF Status!SumObjectCounts, SumOf
  <2>4. QED
    BY <1>1, <2>2, <2>3
<1>4. QED
  BY <1>2, <1>3

LEMMA OlderStatusIs ==
  ASSUME NEW s \in StatusRecords
  PROVE  LET o == OlderStatus(s) IN
         /\ o \in StatusRecords /\ o.hash = s.hash /\ o.counts = s.counts
         /\ o.completedAt = Older(s.completedAt)
         /\ DOMAIN o.phases = DOMAIN s.phases
         /\ \A k \in DOMAIN s.phases :
              o.phases[k].completedAt = Older(s.phases[k].completedAt)
         /\ Status!SumObjectCounts(o.phases) = Status!SumObjectCounts(s.phases)
<1> DEFINE at(k) == OlderPhase(s.phases[k])
           list == [k \in DOMAIN s.phases |-> at(k)]
           t == Older(s.completedAt)
<1>1. s.phases \in PhaseLists /\ s.completedAt \in Times
  BY DEF StatusRecords
<1>2. t \in Times
  BY <1>1, OlderAre
<1>3. ASSUME NEW k \in DOMAIN s.phases
      PROVE  /\ at(k) \in PhaseRecords /\ at(k).completedAt = Older(s.phases[k].completedAt)
             /\ at(k).counts = s.phases[k].counts
  <2>1. s.phases[k] \in PhaseRecords /\ s.phases[k].completedAt \in Times
    BY <1>1, ListIs DEF PhaseRecords
  <2>2. at(k) = [s.phases[k] EXCEPT !.completedAt = Older(s.phases[k].completedAt)]
    BY <2>1 DEF OlderPhase, PhaseRecords
  <2>3. Older(s.phases[k].completedAt) \in Times
    BY <2>1, OlderAre
  <2> HIDE DEF at
  <2>4. QED
    BY <2>1, <2>2, <2>3, Stamped
<1> HIDE DEF at
<1>4. DOMAIN list = DOMAIN s.phases /\ \A k \in DOMAIN s.phases : list[k] = at(k)
  OBVIOUS
<1>5. list \in PhaseLists
  <2>1. CASE s.phases = << >>
    <3>1. DOMAIN s.phases = {}
      BY <2>1
    <3>2. list = << >>
      BY <3>1
    <3>3. QED
      BY <3>2 DEF PhaseLists
  <2>2. CASE s.phases # << >>
    <3>1. DOMAIN s.phases = DOMAIN Phases
      BY <1>1, <2>2, ListIs
    <3>2. list \in [DOMAIN Phases -> PhaseRecords]
      BY <1>3, <3>1
    <3>3. QED
      BY <3>2 DEF PhaseLists
  <2>3. QED
    BY <2>1, <2>2
<1>6. PICK o : o = [s EXCEPT !.completedAt = t, !.phases = list]
  OBVIOUS
<1>7. OlderStatus(s) = o
  BY <1>6 DEF OlderStatus, StatusRecords, at
<1> HIDE DEF list, t
<1>8. o \in StatusRecords /\ o.hash = s.hash /\ o.counts = s.counts /\ o.completedAt = t /\ o.phases = list
  BY <1>2, <1>5, <1>6 DEF StatusRecords
<1>9. Status!SumObjectCounts(list) = Status!SumObjectCounts(s.phases)
  BY <1>1, <1>3, <1>4, <1>5, SumsSame
<1>10. QED
  BY <1>3, <1>4, <1>7, <1>8, <1>9 DEF t

LEMMA OlderFollows ==
  ASSUME NEW old \in StatusRecords, NEW new, Follows(old, new)
  PROVE  Follows(OlderStatus(old), OlderStatus(new))
<1> DEFINE o == OlderStatus(old)
           n == OlderStatus(new)
<1>1. new \in StatusRecords
  BY DEF Follows
<1>2. /\ o.hash = old.hash /\ o.completedAt = Older(old.completedAt)
      /\ DOMAIN o.phases = DOMAIN old.phases
      /\ \A k \in DOMAIN old.phases : o.phases[k].completedAt = Older(old.phases[k].completedAt)
  BY OlderStatusIs
<1>3. /\ n \in StatusRecords /\ n.hash = new.hash /\ n.completedAt = Older(new.completedAt)
      /\ DOMAIN n.phases = DOMAIN new.phases
      /\ \A k \in DOMAIN new.phases : n.phases[k].completedAt = Older(new.phases[k].completedAt)
      /\ n.counts = new.counts /\ Status!SumObjectCounts(n.phases) = Status!SumObjectCounts(new.phases)
  BY <1>1, OlderStatusIs
<1> HIDE DEF o, n
<1>4. n.counts = Status!SumObjectCounts(n.phases)
  BY <1>3 DEF Follows
<1>5. Status!KeptOnceSet(o.hash, n.hash, None)
  BY <1>2, <1>3 DEF Follows
<1>6. old.completedAt \in Times /\ old.phases \in PhaseLists
  BY DEF StatusRecords
<1>7. Status!KeptOnceSet(o.completedAt, n.completedAt, Never)
  BY <1>2, <1>3, <1>6, OlderAre DEF Follows, Status!KeptOnceSet
<1>8. ASSUME NEW k \in DOMAIN n.phases, k \in DOMAIN o.phases
      PROVE  Status!KeptOnceSet(o.phases[k].completedAt, n.phases[k].completedAt, Never)
  <2>1. k \in DOMAIN old.phases /\ k \in DOMAIN new.phases
    BY <1>2, <1>3, <1>8
  <2>2. old.phases[k].completedAt \in Times
    BY <1>6, <2>1, ListIs DEF PhaseRecords
  <2>3. Status!KeptOnceSet(old.phases[k].completedAt, new.phases[k].completedAt, Never)
    BY <2>1 DEF Follows, KeepsTimes
  <2>4. QED
    BY <1>2, <1>3, <2>1, <2>2, <2>3, OlderAre DEF Status!KeptOnceSet
<1>9. KeepsTimes(o.phases, n.phases)
  BY <1>8 DEF KeepsTimes
<1>10. QED
  BY <1>3, <1>4, <1>5, <1>7, <1>9 DEF Follows, o, n

OlderCopy(c) == [c EXCEPT !.status = OlderStatus(c.status)]

LEMMA OlderCopyIs ==
  ASSUME NEW c \in Copies
  PROVE  /\ OlderCopy(c) \in Copies /\ OlderCopy(c).status = OlderStatus(c.status)
         /\ OlderCopy(c).status.hash = c.status.hash
         /\ [c EXCEPT !.status = OlderStatus(@)] = OlderCopy(c)
<1>1. c.status \in StatusRecords
  BY DEF Copies
<1>2. PICK s : s = OlderStatus(c.status)
  OBVIOUS
<1>3. s \in StatusRecords /\ s.hash = c.status.hash
  BY <1>1, <1>2, OlderStatusIs
<1>4. OlderCopy(c) = [c EXCEPT !.status = s]
  BY <1>2 DEF OlderCopy
<1>5. [c EXCEPT !.status = s] \in Copies /\ [c EXCEPT !.status = s].status = s
  BY <1>3 DEF Copies
<1>6. [c EXCEPT !.status = OlderStatus(@)] = OlderCopy(c)
  BY DEF OlderCopy, Copies
<1>7. QED
  BY <1>2, <1>3, <1>4, <1>5, <1>6

LEMMA OlderWorkIs ==
  ASSUME NEW w, w = OlderWork, work \in Works, WorkSound(work)
  PROVE  /\ w \in Works /\ WorkSound(w) /\ (w = Idle <=> work = Idle)
         /\ w # Idle => w.self.status.hash = work.self.status.hash
<1>1. CASE work = Idle
  <2>1. w = Idle
    BY <1>1 DEF OlderWork
  <2>2. QED
    BY <1>1, <2>1
<1>2. CASE work # Idle
  <2>1. PICK c : c = OlderCopy(work.self)
    OBVIOUS
  <2>2. work.self \in Copies /\ work.self.status \in StatusRecords
    BY <1>2, WorkIs
  <2>3. c \in Copies /\ c.status = OlderStatus(work.self.status) /\ c.status.hash = work.self.status.hash
    BY <2>1, <2>2, OlderCopyIs
  <2>4. PICK v : v = [work EXCEPT !.self = c]
    OBVIOUS
  <2>5. [work EXCEPT !.self.status = OlderStatus(@)] = v
    <3>1. [work.self EXCEPT !.status = OlderStatus(work.self.status)] = c
      BY <2>1 DEF OlderCopy
    <3>2. [work EXCEPT !.self.status = OlderStatus(work.self.status)] = [work EXCEPT !.self = c]
      BY <3>1
    <3>3. QED
      BY <2>4, <3>2
  <2>6. w = IF work.at \in {"report", "release"} THEN [v EXCEPT !.status = OlderStatus(@)] ELSE v
    BY <1>2, <2>5 DEF OlderWork
  <2>7. CASE work \in [at : {"resolve"}, self : Copies, got : Seq(Data)]
    <3>1. /\ v \in [at : {"resolve"}, self : Copies, got : Seq(Data)] /\ v.got = work.got
          /\ v.at = "resolve" /\ v.self = c /\ work.at = "resolve"
      BY <2>3, <2>4, <2>7
    <3>2. w = v
      BY <2>6, <3>1
    <3>3. w \in Works /\ w # Idle
      BY <3>1, <3>2 DEF Works, Idle
    <3>4. WorkSound(w)
      BY <3>1, <3>2 DEF WorkSound
    <3>5. QED
      BY <1>2, <2>3, <3>1, <3>2, <3>3, <3>4
  <2>8. CASE work \in [at : {"engine"}, self : Copies, got : [Objects -> Data]]
    <3>1. /\ v \in [at : {"engine"}, self : Copies, got : [Objects -> Data]] /\ v.got = work.got
          /\ v.at = "engine" /\ v.self = c /\ work.at = "engine"
      BY <2>3, <2>4, <2>8
    <3>2. w = v
      BY <2>6, <3>1
    <3>3. w \in Works /\ w # Idle
      BY <3>1, <3>2 DEF Works, Idle
    <3>4. WorkSound(w)
      BY <2>3, <3>1, <3>2 DEF WorkSound
    <3>5. QED
      BY <1>2, <2>3, <3>1, <3>2, <3>3, <3>4
  <2>9. CASE work \in [at : {"teardown", "free"}, self : Copies]
    <3>1. /\ v \in [at : {"teardown", "free"}, self : Copies]
          /\ v.self = c /\ v.at = work.at /\ work.at \in {"teardown", "free"}
      BY <2>3, <2>4, <2>9
    <3>2. w = v
      BY <2>6, <3>1
    <3>3. w \in Works /\ w # Idle
      BY <3>1, <3>2 DEF Works, Idle
    <3>4. WorkSound(w)
      BY <3>1, <3>2 DEF WorkSound
    <3>5. QED
      BY <1>2, <2>3, <3>1, <3>2, <3>3, <3>4
  <2>10. CASE work \in [at : {"report", "release"}, self : Copies, status : StatusRecords,
                       again : BOOLEAN]
    <3>1. /\ v \in [at : {"report", "release"}, self : Copies, status : StatusRecords,
                    again : BOOLEAN]
          /\ v.self = c /\ v.status = work.status /\ work.status \in StatusRecords
          /\ v.at = work.at /\ work.at \in {"report", "release"}
      BY <2>3, <2>4, <2>10
    <3>2. PICK s : s = OlderStatus(work.status)
      OBVIOUS
    <3>3. s \in StatusRecords
      BY <3>1, <3>2, OlderStatusIs
    <3>4. w = [v EXCEPT !.status = s]
      BY <2>6, <3>1, <3>2
    <3>5. /\ w \in [at : {"report", "release"}, self : Copies, status : StatusRecords,
                    again : BOOLEAN]
          /\ w.self = c /\ w.status = s /\ w.at = work.at
      BY <3>1, <3>3, <3>4
    <3>6. w \in Works /\ w # Idle
      BY <3>1, <3>5 DEF Works, Idle
    <3>7. Follows(work.self.status, work.status)
      BY <3>1 DEF WorkSound
    <3>8. Follows(c.status, s)
      BY <2>2, <2>3, <3>2, <3>7, OlderFollows
    <3>9. WorkSound(w)
      BY <3>1, <3>5, <3>8 DEF WorkSound
    <3>10. QED
      BY <1>2, <2>3, <3>5, <3>6, <3>9
  <2>11. QED
    BY <1>2, <2>7, <2>8, <2>9, <2>10 DEF Works
<1>3. QED
  BY <1>1, <1>2

LEMMA OlderQuiet ==
  ASSUME NEW q \in Ages, NEW a \in Ages, NEW s \in StatusRecords, QuietEnough(q, a, s)
  PROVE  QuietEnough(Older(q), Older(a), OlderStatus(s))
<1>1. CASE q >= Progress!Promised
  BY <1>1, OlderAre DEF QuietEnough
<1>2. CASE ~(q >= Progress!Promised)
  <2>1. PICK t \in {a} \cup Stamps(s) : t <= q
    BY <1>2 DEF QuietEnough
  <2>2. t \in Ages
    BY StampsAre
  <2>3. Older(t) <= Older(q)
    BY <2>1, <2>2, OlderAre
  <2>4. t \in Stamps(s) => Older(t) \in Stamps(OlderStatus(s))
    <3> SUFFICES ASSUME t \in Stamps(s) PROVE Older(t) \in Stamps(OlderStatus(s))
      OBVIOUS
    <3>1. PICK k \in StampedPhases(s) : t = s.phases[k].completedAt
      BY DEF Stamps
    <3>2. k \in DOMAIN s.phases
      BY DEF StampedPhases
    <3>3. /\ k \in DOMAIN OlderStatus(s).phases
          /\ OlderStatus(s).phases[k].completedAt = Older(t)
      BY <3>1, <3>2, OlderStatusIs
    <3>4. Older(t) # Never
      BY <2>2, OlderAre, TimesAre
    <3>5. k \in StampedPhases(OlderStatus(s))
      BY <3>3, <3>4 DEF StampedPhases
    <3>6. QED
      BY <3>3, <3>5 DEF Stamps
  <2>5. Older(t) \in {Older(a)} \cup Stamps(OlderStatus(s))
    BY <2>1, <2>4
  <2>6. QED
    BY <2>3, <2>5 DEF QuietEnough
<1>3. QED
  BY <1>1, <1>2

LEMMA TickStep ==
  ASSUME IInv, Tick
  PROVE  IInv'
<1>1. /\ age' = Older(age) /\ quiet' = Older(quiet) /\ obj' = obj
      /\ cos' = [cos EXCEPT !.status = OlderStatus(@)]
      /\ cache' = [cache EXCEPT !.status = OlderStatus(@)]
      /\ work' = OlderWork
      /\ alarm' = IF alarm > 0 THEN alarm - 1 ELSE 0
  BY DEF Tick, world
<1>2. /\ cos \in Copies /\ cache \in Copies /\ work \in Works /\ obj \in [Objects -> ObjectRecords]
      /\ age \in Ages /\ quiet \in Ages /\ alarm \in Ages
      /\ Behind(cache, cos) /\ (work # Idle => Behind(work.self, cos))
      /\ QuietEnough(quiet, age, cos.status) /\ WorkSound(work) /\ cos.status \in StatusRecords
  BY DEF IInv, Typed, Pins, Copies
<1>3. PICK w : w = OlderWork
  OBVIOUS
<1>4. /\ w \in Works /\ WorkSound(w) /\ (w = Idle <=> work = Idle)
      /\ w # Idle => w.self.status.hash = work.self.status.hash
  BY <1>2, <1>3, OlderWorkIs
<1>5. cos' = OlderCopy(cos) /\ cache' = OlderCopy(cache)
  BY <1>1, <1>2, OlderCopyIs
<1>6. /\ cos' \in Copies /\ cos'.status = OlderStatus(cos.status)
      /\ cos'.status.hash = cos.status.hash
      /\ cache' \in Copies /\ cache'.status.hash = cache.status.hash
  BY <1>2, <1>5, OlderCopyIs
<1>7. age' \in Ages /\ quiet' \in Ages
  BY <1>1, <1>2, OlderAre
<1>8. alarm' \in Ages
  BY <1>1, <1>2, TimesAre DEF Ages
<1>9. work' = w
  BY <1>1, <1>3
<1>10. Typed' /\ WorkSound(work)'
  BY <1>1, <1>2, <1>4, <1>6, <1>7, <1>8, <1>9 DEF Typed, WorkSound
<1>11. Pins'
  BY <1>2, <1>4, <1>6, <1>9 DEF Pins, Behind
<1>12. QuietEnough(quiet, age, cos.status)'
  <2>1. QuietEnough(Older(quiet), Older(age), OlderStatus(cos.status))
    BY <1>2, OlderQuiet
  <2>2. QuietEnough(quiet', age', cos'.status)
    BY <1>1, <1>6, <2>1
  <2>3. QED
    BY <2>2 DEF QuietEnough, Stamps, StampedPhases
<1>13. QED
  BY <1>10, <1>11, <1>12 DEF IInv

-----------------------------------------------------------------------------
(* What holds always.                                                      *)

LEMMA NextInv ==
  ASSUME IInv, [Next]_vars
  PROVE  IInv'
<1>1. CASE UNCHANGED vars
  <2>1. /\ UNCHANGED <<cos, cache, work, age, quiet, alarm, obj>>
    BY <1>1 DEF vars, world, deployment
  <2>2. alarm' \in Ages /\ obj' \in [Objects -> ObjectRecords]
    BY <2>1 DEF IInv, Typed
  <2>3. QED
    BY <2>1, <2>2, WorldStep
<1>2. CASE Work
  BY <1>2, BeginStep, ResolveStep, EnginePassStep, TeardownPhasesStep, UpdateStatusStep,
     ReleaseStep DEF Work
<1>3. CASE Mishap
  BY <1>3, EngineFailsStep, EnginePassStep, PreflightRefusesStep, UpdateFailsStep, RestartStep
     DEF Mishap
<1>4. CASE \E fails \in BOOLEAN : ReconcileDeployment(fails)
  BY <1>4, ReconcileDeploymentStep
<1>5. CASE Tick \/ DeliverCOS \/ Archive
  BY <1>5, TickStep, DeliverCOSStep, ArchiveStep
<1>6. CASE \E s \in Slices : DeliverSlice(s) \/ ReplaceSlice(s)
  BY <1>6, SlicesStep
<1>7. CASE \E o \in Objects : OpenGate(o) \/ Drift(o) \/ Take(o)
  BY <1>7, OthersStep
<1>8. QED
  BY <1>1, <1>2, <1>3, <1>4, <1>5, <1>6, <1>7 DEF Next

\* Everything keeps its type; the engine has the content of the hash; what is
\* reported follows what was read; and the deadline counts from a milestone.
THEOREM RolloutInvariant == Spec => []IInv
BY InitInv, NextInv, PTL DEF Spec

LEMMA CountsAre ==
  ASSUME NEW c \in CountRecords
  PROVE  IsCounts(c)
BY DEF CountRecords, IsCounts

LEMMA StatusIs ==
  ASSUME NEW s \in StatusRecords
  PROVE  IsStatus(s)
<1>1. /\ s.hash \in {None} \cup [Objects -> Data] /\ s.completedAt \in Times
      /\ s.counts \in {None} \cup CountRecords /\ s.phases \in PhaseLists
  BY DEF StatusRecords
<1>2. s.hash = None \/ (DOMAIN s.hash = Objects /\ \A o \in Objects : s.hash[o] \in Data)
  BY <1>1
<1>3. s.counts = None \/ IsCounts(s.counts)
  BY <1>1, CountsAre
<1>4. s.phases = << >> \/ DOMAIN s.phases = DOMAIN Phases
  BY <1>1, ListIs
<1>5. \A k \in DOMAIN s.phases :
        IsCounts(s.phases[k].counts) /\ s.phases[k].completedAt \in Times
  <2>1. \A k \in DOMAIN s.phases :
          s.phases[k].counts \in CountRecords /\ s.phases[k].completedAt \in Times
    BY <1>1, ListIs DEF PhaseRecords
  <2>2. QED
    BY <2>1, CountsAre
<1>6. QED
  BY <1>1, <1>2, <1>3, <1>4, <1>5 DEF IsStatus

LEMMA CopyIs ==
  ASSUME NEW c \in Copies
  PROVE  IsCopy(c)
BY StatusIs DEF IsCopy, Copies

\* Stored and reported statuses have one phase for each of the spec or none,
\* and a hash for every object or none, whatever the engine returned.
THEOREM TypeCorrect == Spec => []TypeOK
<1>1. IInv => TypeOK
  <2> SUFFICES ASSUME IInv PROVE TypeOK
    OBVIOUS
  <2>1. /\ cos \in Copies /\ cache \in Copies /\ work \in Works /\ WorkSound(work)
        /\ obj \in [Objects -> ObjectRecords] /\ age \in Ages /\ quiet \in Ages /\ alarm \in Ages
    BY DEF IInv, Typed
  <2>2. obj \in [Objects -> [holder : {"nobody", "ours", "newer", "foreign"},
                             content : Data \cup {Other}, ready : BOOLEAN]]
    BY <2>1 DEF ObjectRecords, Holders
  <2>3. IsCopy(cos) /\ IsCopy(cache) /\ (work # Idle => IsCopy(work.self))
    BY <2>1, WorkIs, CopyIs
  <2>4. work.at \in {"idle", "resolve", "engine", "teardown", "report", "release", "free"}
    BY <2>1, WorkIs
  <2>5. work.at \in {"report", "release"} => IsStatus(work.status)
    BY <2>1, WorkIs, StatusIs
  <2>6. work.at = "resolve" => Len(work.got) < Cardinality(Objects)
    BY <2>1 DEF WorkSound
  <2>7. QED
    BY <2>1, <2>2, <2>3, <2>4, <2>5, <2>6 DEF TypeOK
<1>2. QED
  BY <1>1, RolloutInvariant, PTL

\* What a read-only pass lists of one object fits into a message.
DifferencesFit == 1 + Spread <= MaxMessage

\* The API server never refuses a status whose copy is not behind, as long as
\* the differences of an object fit into a message, which nothing cuts off.
THEOREM StatusesAdmitted ==
  ASSUME DifferencesFit
  PROVE  Spec => []StatusAdmitted
<1>1. IInv => StatusAdmitted
  <2> SUFFICES ASSUME IInv, work.at \in {"report", "release"}, cos = work.self
               PROVE  Status!Admitted(cos.status, work.status)
    BY DEF StatusAdmitted, Conflicts, Accepted
  <2>1. Follows(cos.status, work.status)
    BY DEF IInv, WorkSound
  <2>2. cos.status.phases \in PhaseLists
    BY DEF IInv, Typed, Copies, StatusRecords
  <2>3. QED
    BY <2>1, <2>2, FollowsAdmitted DEF DifferencesFit
<1>2. QED
  BY <1>1, RolloutInvariant, PTL

-----------------------------------------------------------------------------
(* What a pass of the engine may do.                                       *)

LEMMA OnlyEngineReports ==
  ASSUME IInv, [Next]_vars, work.at = "engine", work'.at = "report"
  PROVE  \/ ReconcilePhases \/ WriteFails \/ LookFails \/ PhaseRefused
         \/ EngineFails \/ PreflightRefuses
<1>1. work \in Works /\ work # Idle /\ "engine" # "report" /\ Idle.at = "idle"
  BY AtEngine DEF IInv, Typed, Idle
<1>2. CASE UNCHANGED vars
  BY <1>1, <1>2 DEF vars
<1>3. CASE Work
  BY <1>1, <1>3 DEF Work, Begin, Resolve, TeardownPhases, UpdateStatus, Release
<1>4. CASE Mishap
  BY <1>1, <1>4 DEF Mishap, UpdateFails, Restart
<1>5. CASE \E fails \in BOOLEAN : ReconcileDeployment(fails)
  BY <1>5 DEF ReconcileDeployment
<1>6. CASE Tick
  <2>1. PICK w : w = [work EXCEPT !.self.status = OlderStatus(@)]
    OBVIOUS
  <2>2. work' = w
    BY <1>1, <1>6, <2>1 DEF Tick, OlderWork
  <2>3. "at" \in DOMAIN work
    BY <1>1 DEF Works, Idle
  <2>4. w.at = work.at
    BY <2>1, <2>3
  <2>5. QED
    BY <2>2, <2>4
<1>7. CASE DeliverCOS \/ Archive
  BY <1>7 DEF DeliverCOS, Archive
<1>8. CASE \E s \in Slices : DeliverSlice(s) \/ ReplaceSlice(s)
  BY <1>8 DEF DeliverSlice, ReplaceSlice
<1>9. CASE \E o \in Objects : OpenGate(o) \/ Drift(o) \/ Take(o)
  BY <1>9 DEF OpenGate, Drift, Take, Change
<1>10. QED
  BY <1>2, <1>3, <1>4, <1>5, <1>6, <1>7, <1>8, <1>9 DEF Next

\* Whatever a pass changes has what was resolved.
LEMMA PassWrites ==
  ASSUME IInv, work.at = "engine",
         \/ ReconcilePhases \/ WriteFails \/ LookFails \/ PhaseRefused
         \/ EngineFails \/ PreflightRefuses,
         NEW o \in Objects, obj'[o] # obj[o]
  PROVE  obj'[o].content = work.got[o]
<1>1. work.got \in [Objects -> Data] /\ obj \in [Objects -> ObjectRecords]
  BY AtEngine
<1>2. ~EngineFails /\ ~PreflightRefuses
  BY DEF EngineFails, PreflightRefuses, world
<1>3. \E these : WriteObjects(these, work.got)
  BY <1>2, PassesAre DEF Pass
<1>4. PICK these : WriteObjects(these, work.got)
  BY <1>3
<1>5. obj'[o] = Written(o, work.got[o])
  BY <1>1, <1>4, ObjectsWritten
<1>6. QED
  BY <1>1, <1>5, WrittenTyped

\* Once a reconcile has read the hash, it writes only what the hash stands for,
\* whatever slices were deleted and created since.
THEOREM PinnedContentWritten == Spec => PinnedContent
<1>1. IInv /\ [Next]_vars =>
        [work.at = "engine" /\ work'.at = "report" /\ work.self.status.hash # None =>
           \A o \in Objects : obj'[o] # obj[o] => obj'[o].content = cos.status.hash[o]]_vars
  <2> SUFFICES ASSUME IInv, [Next]_vars, work.at = "engine", work'.at = "report",
                      work.self.status.hash # None, NEW o \in Objects, obj'[o] # obj[o]
               PROVE  obj'[o].content = cos.status.hash[o]
    OBVIOUS
  <2>1. obj'[o].content = work.got[o]
    BY OnlyEngineReports, PassWrites
  <2>2. work.got = work.self.status.hash
    BY DEF IInv, WorkSound
  <2>3. cos.status.hash = work.self.status.hash
    BY AtEngine DEF IInv, Pins, Behind
  <2>4. QED
    BY <2>1, <2>2, <2>3
<1>2. QED
  BY <1>1, RolloutInvariant, PTL DEF Spec, PinnedContent

-----------------------------------------------------------------------------
(* The deadline.                                                           *)

\* The deadline fits into a time.Duration.
NoOverflow == Progress!Deadline = Progress!Promised

LEMMA OnlyDeploymentSays ==
  ASSUME [Next]_vars, cod' # cod
  PROVE  \E fails \in BOOLEAN : ReconcileDeployment(fails)
<1>1. ~UNCHANGED vars /\ ~Work /\ ~Mishap /\ ~Tick /\ ~DeliverCOS /\ ~Archive
  BY DEF vars, deployment, Work, Begin, Resolve, ReconcilePhases, Pass, TeardownPhases,
         UpdateStatus, Release, Mishap, EngineFails, WriteFails, LookFails, PhaseRefused,
         PreflightRefuses, UpdateFails, Restart, Tick, DeliverCOS, Archive
<1>2. ~\E s \in Slices : DeliverSlice(s) \/ ReplaceSlice(s)
  BY DEF DeliverSlice, ReplaceSlice, deployment
<1>3. ~\E o \in Objects : OpenGate(o) \/ Drift(o) \/ Take(o)
  BY DEF OpenGate, Drift, Take, Change, deployment
<1>4. QED
  BY <1>1, <1>2, <1>3 DEF Next

\* The deployment's condition is not ProgressDeadlineExceeded before the
\* promised minutes without a milestone have passed, as far as the cache shows.
THEOREM DeadlineIsKept ==
  ASSUME NoOverflow
  PROVE  Spec => DeadlineKept
<1>1. IInv /\ [Next]_vars =>
        [cod.says # "DeadlineExceeded" /\ cod'.says = "DeadlineExceeded" =>
           quiet >= Progress!Promised \/ cache # cos]_vars
  <2> SUFFICES ASSUME IInv, [Next]_vars, cod.says # "DeadlineExceeded",
                      cod'.says = "DeadlineExceeded", cache = cos
               PROVE  quiet >= Progress!Promised
    OBVIOUS
  <2>1. PICK fails \in BOOLEAN : ReconcileDeployment(fails)
    BY OnlyDeploymentSays
  <2>2. Evaluation(cos).says = "DeadlineExceeded"
    BY <2>1 DEF ReconcileDeployment
  <2> DEFINE elapsed == Progress!SinceMilestone(age, Stamps(cos.status))
  <2>3. elapsed >= Progress!Deadline
    BY <2>2 DEF Evaluation, Progress!EvaluateDeadline, Progress!Verdict
  <2>4. /\ age \in Ages /\ quiet \in Ages /\ Stamps(cos.status) \subseteq Ages
        /\ QuietEnough(quiet, age, cos.status)
    BY StampsAre DEF IInv, Typed, Copies
  <2>5. elapsed \in Nat /\ \A t \in {age} \cup Stamps(cos.status) : elapsed <= t
    BY <2>4, MilestoneIs
  <2> HIDE DEF elapsed
  <2>6. CASE quiet >= Progress!Promised
    BY <2>6
  <2>7. CASE ~(quiet >= Progress!Promised)
    <3>1. PICK t \in {age} \cup Stamps(cos.status) : t <= quiet
      BY <2>4, <2>7 DEF QuietEnough
    <3>2. t \in Nat /\ quiet \in Nat /\ elapsed <= t
      BY <2>4, <2>5, TimesAre
    <3>3. elapsed >= Progress!Promised
      BY <2>3 DEF NoOverflow
    <3>4. QED
      BY <2>5, <3>1, <3>2, <3>3, TimesAre
  <2>8. QED
    BY <2>6, <2>7
<1>2. QED
  BY <1>1, RolloutInvariant, PTL DEF Spec, DeadlineKept

-----------------------------------------------------------------------------
(* The counts.                                                             *)

\* The bounds on the disturbances.  They matter only to tell that something
\* has failed.
Purse == budget \in [Disturbances -> Nat]

LEMMA SpendStep ==
  ASSUME Purse, NEW kind \in Disturbances, kind # "any", Spend(kind)
  PROVE  Purse' /\ budget' # budget
<1>1. "any" \in Disturbances /\ budget["any"] \in Nat /\ budget[kind] \in Nat
  BY DEF Purse, Disturbances
<1>2. budget["any"] - 1 \in Nat /\ budget[kind] - 1 \in Nat /\ budget["any"] - 1 # budget["any"]
  BY <1>1 DEF Spend
<1>3. budget' = [budget EXCEPT ![kind] = @ - 1, !["any"] = @ - 1]
  BY DEF Spend
<1>4. budget'["any"] = budget["any"] - 1
  BY <1>1, <1>3 DEF Purse
<1>5. budget' \in [Disturbances -> Nat]
  BY <1>1, <1>2, <1>3 DEF Purse
<1>6. QED
  BY <1>2, <1>4, <1>5 DEF Purse

LEMMA Spent ==
  ASSUME [Next]_vars
  PROVE  UNCHANGED budget \/ \E kind \in Disturbances \ {"any"} : Spend(kind)
<1>1. CASE UNCHANGED vars
  BY <1>1 DEF vars
<1>2. CASE Work
  BY <1>2 DEF Work, Begin, Resolve, ReconcilePhases, TeardownPhases, UpdateStatus, Release
<1>3. "fault" \in Disturbances \ {"any"} /\ "slice" \in Disturbances \ {"any"}
      /\ "drift" \in Disturbances \ {"any"} /\ "taken" \in Disturbances \ {"any"}
      /\ "archive" \in Disturbances \ {"any"}
  BY DEF Disturbances
<1>4. CASE Mishap
  <2>1. Spend("fault")
    BY <1>4 DEF Mishap, EngineFails, WriteFails, LookFails, PhaseRefused, PreflightRefuses,
                UpdateFails, Restart
  <2>2. QED
    BY <1>3, <2>1
<1>5. CASE \E fails \in BOOLEAN : ReconcileDeployment(fails)
  <2>1. UNCHANGED budget \/ Spend("fault")
    BY <1>5 DEF ReconcileDeployment
  <2>2. QED
    BY <1>3, <2>1
<1>6. CASE Tick \/ DeliverCOS \/ \E s \in Slices : DeliverSlice(s)
  BY <1>6 DEF Tick, DeliverCOS, DeliverSlice
<1>7. CASE Archive \/ \E s \in Slices : ReplaceSlice(s)
  BY <1>3, <1>7 DEF Archive, ReplaceSlice
<1>8. CASE \E o \in Objects : OpenGate(o) \/ Drift(o) \/ Take(o)
  BY <1>3, <1>8 DEF OpenGate, Drift, Take
<1>9. QED
  BY <1>1, <1>2, <1>4, <1>5, <1>6, <1>7, <1>8 DEF Next

LEMMA PurseKept == Spec => []Purse
<1>1. Init => Purse
  BY RolloutAssumption DEF Init, Purse
<1>2. Purse /\ [Next]_vars => Purse'
  <2> SUFFICES ASSUME Purse, [Next]_vars PROVE Purse'
    OBVIOUS
  <2>1. CASE UNCHANGED budget
    BY <2>1 DEF Purse
  <2>2. CASE \E kind \in Disturbances \ {"any"} : Spend(kind)
    BY <2>2, SpendStep
  <2>3. QED
    BY <2>1, <2>2, Spent
<1>3. QED
  BY <1>1, <1>2, PTL DEF Spec

LEMMA PhasesApart ==
  ASSUME NEW j \in DOMAIN Phases, NEW k \in DOMAIN Phases, NEW o \in Phases[j], o \in Phases[k]
  PROVE  j = k
<1>1. j \in Nat /\ k \in Nat /\ o \in Nat
  BY Sizes
<1>2. ~(j < k)
  <2>1. j < k => o < o
    BY RolloutAssumption
  <2>2. QED
    BY <1>1, <2>1
<1>3. ~(k < j)
  <2>1. k < j => o < o
    BY RolloutAssumption
  <2>2. QED
    BY <1>1, <2>1
<1>4. QED
  BY <1>1, <1>2, <1>3

\* A pass writes what it looks at before the end, and leaves the rest.
LEMMA PassLeaves ==
  ASSUME IInv, NEW refused \in SUBSET (1 .. Last), NEW end \in 1 .. Last,
         NEW missed \in SUBSET Phases[end], NEW error, Pass(refused, end, missed, error),
         NEW k \in 1 .. end, k \notin refused, NEW o \in Phases[k],
         k = end => o \notin missed
  PROVE  obj'[o] = IF k > WrittenEnd(work.got, StampedPhases(work.self.status), refused)
                   THEN obj[o] ELSE Written(o, work.got[o])
<1> DEFINE written == WrittenEnd(work.got, StampedPhases(work.self.status), refused)
           m == Min({end, written})
           these == UpTo(m) \ (missed \cup UNION {Phases[j] : j \in refused})
<1>1. work.at = "engine" /\ WriteObjects(these, work.got)
  BY DEF Pass
<1>2. written \in 1 .. Last
  BY EndsAre
<1> HIDE DEF written
<1>3. Last \in Nat /\ DOMAIN Phases = 1 .. Last /\ k \in 1 .. Last /\ o \in Objects
  BY Sizes
<1>4. m \in 1 .. Last /\ (m = end \/ m = written) /\ m <= end /\ m <= written
  <2>1. {end, written} \subseteq Nat /\ {end, written} # {}
    BY <1>2, <1>3
  <2>2. m \in {end, written} /\ \A y \in {end, written} : m <= y
    BY <2>1, MinIsLeast
  <2>3. QED
    BY <1>2, <2>2
<1> HIDE DEF m
<1>5. o \in UpTo(m) <=> ~(k > written)
  <2>1. CASE k > written
    <3>1. ASSUME NEW j \in 1 .. m, o \in Phases[j] PROVE FALSE
      <4>1. j \in DOMAIN Phases /\ j < k
        BY <1>2, <1>3, <1>4, <2>1
      <4>2. j = k
        BY <1>3, <3>1, <4>1, PhasesApart
      <4>3. QED
        BY <4>1, <4>2
    <3>2. QED
      BY <2>1, <3>1 DEF UpTo
  <2>2. CASE ~(k > written)
    <3>1. k \in 1 .. m
      BY <1>2, <1>3, <1>4, <2>2
    <3>2. QED
      BY <2>2, <3>1 DEF UpTo
  <2>3. QED
    BY <2>1, <2>2
<1>6. o \notin missed
  <2>1. CASE k = end
    BY <2>1
  <2>2. CASE k # end
    BY <1>3, <2>2, PhasesApart
  <2>3. QED
    BY <2>1, <2>2
<1>7. o \notin UNION {Phases[j] : j \in refused}
  <2>1. ASSUME NEW j \in refused, o \in Phases[j] PROVE FALSE
    BY <1>3, <2>1, PhasesApart
  <2>2. QED
    BY <2>1
<1>8. obj'[o] = IF o \in these THEN Written(o, work.got[o]) ELSE obj[o]
  <2> HIDE DEF these
  <2>1. QED
    BY <1>1, <1>3, AtEngine, ObjectsWritten
<1>9. QED
  BY <1>5, <1>6, <1>7, <1>8 DEF written

Synced(x, want) == x.holder = "ours" /\ x.content = want

\* What the result for an object says of the object after the pass.
LEMMA ResultTells ==
  ASSUME obj \in [Objects -> ObjectRecords], NEW o \in Objects, NEW want \in Data,
         NEW paused \in BOOLEAN, NEW x, x = IF paused THEN obj[o] ELSE Written(o, want)
  PROVE  LET r == ObjectResult(o, want, paused, x) IN
         /\ Status!IsPresent(r) <=> x.holder # "nobody"
         /\ Status!IsSynced(r) <=> Synced(x, want)
         /\ r.complete <=> Fits(x, want)
         /\ Fits(x, want) => x.holder # "nobody" /\ (Synced(x, want) \/ x.holder = "newer")
<1> DEFINE r == ObjectResult(o, want, paused, x)
           a == Action(obj[o], want)
<1>1. r.action = a /\ r.paused = paused /\ r.complete = Fits(x, want)
  BY DEF ObjectResult
<1>2. obj[o] \in ObjectRecords /\ obj[o].holder \in Holders
  BY DEF ObjectRecords
<1>3. Fits(x, want) => x.holder # "nobody" /\ (Synced(x, want) \/ x.holder = "newer")
  <2>1. x \in ObjectRecords
    BY WrittenTyped
  <2>2. x.holder \in Holders
    BY <2>1 DEF ObjectRecords
  <2> SUFFICES ASSUME Fits(x, want)
               PROVE  x.holder # "nobody" /\ (Synced(x, want) \/ x.holder = "newer")
    OBVIOUS
  <2>3. Action(x, want) \in {"Idle", "Progressed"}
    BY DEF Fits
  <2>4. QED
    BY <2>2, <2>3 DEF Action, Synced, Holders
<1>4. CASE paused
  <2>1. x = obj[o]
    BY <1>4
  <2>2. a = "Created" <=> x.holder = "nobody"
    BY <1>2, <2>1 DEF Action, Holders
  <2>3. a = "Idle" <=> Synced(x, want)
    BY <1>2, <2>1 DEF Action, Holders, Synced
  <2> HIDE DEF r, a
  <2>4. Status!IsPresent(r) <=> x.holder # "nobody"
    BY <1>1, <1>4, <2>2 DEF Status!IsPresent
  <2>5. Status!IsSynced(r) <=> Synced(x, want)
    BY <1>1, <1>4, <2>3 DEF Status!IsSynced
  <2>6. QED
    BY <1>1, <1>3, <2>4, <2>5 DEF r
<1>5. CASE ~paused
  <2>1. x = Written(o, want)
    BY <1>5
  <2>2. x.holder # "nobody"
    BY <2>1, WrittenTyped
  <2>3. a \in {"Idle", "Updated", "Created", "Recovered"} <=> Synced(x, want)
    <3>1. CASE a \in Writes
      <4>1. x.holder = "ours" /\ x.content = want
        BY <2>1, <3>1 DEF Written
      <4>2. QED
        BY <3>1, <4>1 DEF Writes, Synced
    <3>2. CASE a \notin Writes
      <4>1. x = obj[o]
        BY <2>1, <3>2 DEF Written
      <4>2. QED
        BY <1>2, <3>2, <4>1 DEF Action, Writes, Holders, Synced
    <3>3. QED
      BY <3>1, <3>2
  <2> HIDE DEF r, a
  <2>4. Status!IsPresent(r) <=> x.holder # "nobody"
    BY <1>1, <1>5, <2>2 DEF Status!IsPresent
  <2>5. Status!IsSynced(r) <=> Synced(x, want)
    BY <1>1, <1>5, <2>3 DEF Status!IsSynced
  <2>6. QED
    BY <1>1, <1>3, <2>4, <2>5 DEF r
<1>6. QED
  BY <1>4, <1>5

\* A status has the phases that were built from the result, unless a newer
\* revision has taken over, which the status says.
LEMMA PassPhases ==
  ASSUME NEW s \in StatusRecords, NEW r, IsResult(r), DOMAIN r.errors = {},
         NEW error \in {"none", "object"}, error = "object" => ~r.progressed,
         NEW new, new = Status!FromReconcile(s, Phases, r, error),
         new.reason # "Superseded", NEW k \in DOMAIN Phases
  PROVE  /\ new.phases[k].counts = Status!BuildObservedPhases(Phases, r.phases)[k].counts
         /\ new.phases[k].status = Status!BuildObservedPhases(Phases, r.phases)[k].status
<1> DEFINE fresh == Status!FromReconcileResult(Phases, r)
           list == Status!PreserveCompletionTimes(s.phases, fresh)
           u == Status!Apply(s, list)
<1>1. new = IF error = "object" THEN Status!Condition(u, "Unknown", "ReconcileError")
            ELSE IF r.progressed THEN Status!Condition(u, "False", "Superseded")
            ELSE IF r.complete THEN Status!Completed(Status!Condition(u, "True", "Available"))
            ELSE Status!Condition(u, "False", "Unavailable")
  BY DEF Status!FromReconcile
<1>2. fresh \in FreshLists /\ s.phases \in PhaseLists
  BY ReconcileResultTyped DEF StatusRecords
<1>3. /\ list \in PhaseLists /\ KeepsTimes(s.phases, list)
      /\ \A j \in DOMAIN fresh : list[j].counts = fresh[j].counts /\ list[j].status = fresh[j].status
  <2> HIDE DEF fresh
  <2>1. QED
    BY <1>2, Preserved
<1>4. Follows(s, u) /\ u.phases = list
  <2> HIDE DEF list
  <2>1. QED
    BY <1>3, AppliedFollows
<1>5. ASSUME NEW a \in {"True", "False", "Unknown"},
             NEW reason \in {"Superseded", "Available", "Unavailable", "ReconcileError"}
      PROVE  /\ Follows(s, Status!Condition(u, a, reason))
             /\ Status!Condition(u, a, reason).phases = list
             /\ Status!Condition(u, a, reason).reason = reason
  <2>1. reason \in Reasons
    BY DEF Reasons
  <2> HIDE DEF u, list
  <2>2. QED
    BY <1>4, <2>1, ConditionFollows
<1>6. ~r.progressed
  <2> SUFFICES ASSUME r.progressed PROVE FALSE
    OBVIOUS
  <2>1. new = Status!Condition(u, "False", "Superseded")
    BY <1>1
  <2> HIDE DEF u
  <2>2. new.reason = "Superseded"
    BY <1>5, <2>1
  <2>3. QED
    BY <2>2
<1>7. new.phases = list
  <2> HIDE DEF u, list
  <2>1. /\ Status!Condition(u, "Unknown", "ReconcileError").phases = list
        /\ Status!Condition(u, "False", "Unavailable").phases = list
        /\ Follows(s, Status!Condition(u, "True", "Available"))
        /\ Status!Condition(u, "True", "Available").phases = list
    BY <1>5
  <2>2. Status!Completed(Status!Condition(u, "True", "Available")).phases = list
    BY <2>1, CompletedFollows
  <2>3. QED
    BY <1>1, <1>6, <2>1, <2>2
<1>8. fresh = Status!BuildObservedPhases(Phases, r.phases)
  BY <1>6 DEF Status!FromReconcileResult, IsResult
<1>9. DOMAIN fresh = DOMAIN Phases
  BY <1>8 DEF Status!BuildObservedPhases, Status!MapSpecPhases
<1> HIDE DEF fresh, list
<1>10. QED
  BY <1>3, <1>7, <1>8, <1>9

\* What the status says of a phase that was looked at, but for what was missed.
SaidOf(k, seen) ==
  LET n == Status!Cardinality(Phases[k])
  IN  IF seen.complete
      THEN Status!Observed("Available", 0, Status!Counts(n, n, n, n), Status!NoDetails)
      ELSE Status!IncompletePhase(Phases[k], seen)

\* The counts of a phase that was looked at are not more than what is due by
\* the objects after the pass, and all of it if none was missed.
LEMMA LookedCounts ==
  ASSUME obj \in [Objects -> ObjectRecords], NEW after, NEW want \in [Objects -> Data],
         NEW k \in DOMAIN Phases, NEW paused \in BOOLEAN, NEW missed,
         \A o \in Phases[k] \ missed : after[o] = IF paused THEN obj[o] ELSE Written(o, want[o])
  PROVE  LET p == SaidOf(k, Looked(k, want, paused, missed))
         IN  /\ p.status \notin {"Unknown", "Invalid"}
             /\ \A f \in Status!Fields : p.counts[f] <= Due(k, after, want)[f]
             /\ missed = {} => p.counts = Due(k, after, want)
<1> DEFINE seen == Looked(k, want, paused, missed)
           results == seen.objects
           n == Cardinality(Phases[k])
           p == SaidOf(k, seen)
           there == {o \in Phases[k] : after[o].holder # "nobody"}
           inSync == {o \in Phases[k] : after[o].holder = "ours" /\ after[o].content = want[o]}
           fit == {o \in Phases[k] : Fits(after[o], want[o])}
           thereSeen == {o \in DOMAIN results : Status!IsPresent(results[o])}
           syncedSeen == {o \in DOMAIN results : Status!IsSynced(results[o])}
           fitSeen == {o \in DOMAIN results : results[o].complete}
           synced == IF fit = Phases[k] THEN fit ELSE inSync
<1>1. /\ results \in ResultMaps /\ seen.refusal = Status!NoRefusal
      /\ DOMAIN results = Phases[k] \ missed
      /\ \A o \in Phases[k] \ missed : results[o] =
           ObjectResult(o, want[o], paused, IF paused THEN obj[o] ELSE Written(o, want[o]))
      /\ seen.complete = Status!IsComplete(Phases[k], results)
  BY LookedTyped
<1> HIDE DEF seen
<1>2. ASSUME NEW o \in Phases[k] \ missed
      PROVE  /\ Status!IsPresent(results[o]) <=> after[o].holder # "nobody"
             /\ Status!IsSynced(results[o]) <=> Synced(after[o], want[o])
             /\ results[o].complete <=> Fits(after[o], want[o])
             /\ Fits(after[o], want[o]) => after[o].holder # "nobody"
  <2>1. PICK x : x = after[o]
    OBVIOUS
  <2>2. o \in Objects /\ want[o] \in Data
    BY Sizes
  <2>3. x = (IF paused THEN obj[o] ELSE Written(o, want[o]))
    BY <2>1
  <2>4. results[o] = ObjectResult(o, want[o], paused, x)
    BY <1>1, <2>3
  <2> HIDE DEF results
  <2>5. QED
    BY <2>1, <2>2, <2>3, <2>4, ResultTells
<1>3. /\ thereSeen = {o \in Phases[k] \ missed : after[o].holder # "nobody"}
      /\ syncedSeen = {o \in Phases[k] \ missed : Synced(after[o], want[o])}
      /\ fitSeen = {o \in Phases[k] \ missed : Fits(after[o], want[o])}
  <2> HIDE DEF results
  <2>1. QED
    BY <1>1, <1>2
<1>4. thereSeen \subseteq there /\ syncedSeen \subseteq inSync /\ fitSeen \subseteq fit
  BY <1>3 DEF Synced
<1>5. /\ there \subseteq Phases[k] /\ inSync \subseteq Phases[k] /\ fit \subseteq Phases[k]
      /\ synced \subseteq Phases[k]
  OBVIOUS
<1>6. IsFiniteSet(Phases[k]) /\ n \in Nat /\ Phases[k] \subseteq Objects /\ Status!Cardinality(Phases[k]) = n
  BY Sizes, SizesOfParts
<1>7. Due(k, after, want) = Status!Counts(n, Cardinality(there), Cardinality(synced), Cardinality(fit))
  BY DEF Due
<1>9. CASE seen.complete
  <2>1. Phases[k] \subseteq DOMAIN results /\ \A o \in Phases[k] : results[o].complete
    BY <1>1, <1>9 DEF Status!IsComplete
  <2>2. fit = Phases[k] /\ there = Phases[k]
    <3> HIDE DEF results
    <3>1. QED
      BY <1>1, <1>2, <2>1
  <2>3. synced = Phases[k]
    BY <2>2
  <2>4. p = Status!Observed("Available", 0, Status!Counts(n, n, n, n), Status!NoDetails)
    BY <1>6, <1>9 DEF SaidOf
  <2>5. p.status = "Available" /\ p.counts = Status!Counts(n, n, n, n)
    BY <2>4 DEF Status!Observed
  <2> HIDE DEF p, n, there, fit, synced
  <2>6. p.counts = Due(k, after, want)
    BY <1>7, <2>2, <2>3, <2>5 DEF n
  <2>7. \A f \in Status!Fields : p.counts[f] <= p.counts[f]
    BY <1>6, <2>5 DEF Status!Counts, Status!Fields
  <2>8. QED
    BY <2>5, <2>6, <2>7 DEF p, seen
<1>10. CASE ~seen.complete
  <2>1. p = Status!ReconciledPhase(Phases[k], results)
    BY <1>1, <1>10 DEF SaidOf, Status!IncompletePhase
  <2>2. /\ p.status \notin {"Unknown", "Invalid"}
        /\ p.counts = Status!Counts(n, Cardinality(thereSeen), Cardinality(syncedSeen),
                                    Cardinality(fitSeen))
    <3> HIDE DEF results, p
    <3>1. QED
      BY <1>1, <1>6, <2>1, ReconciledIs
  <2>3. syncedSeen \subseteq synced
    BY <1>3, <1>4
  <2>4. missed = {} => thereSeen = there /\ fitSeen = fit /\ syncedSeen = synced
    <3> SUFFICES ASSUME missed = {} PROVE thereSeen = there /\ fitSeen = fit /\ syncedSeen = synced
      OBVIOUS
    <3>1. Phases[k] \ missed = Phases[k]
      OBVIOUS
    <3>2. fit # Phases[k]
      <4>1. PICK o \in Phases[k] : ~results[o].complete
        BY <1>1, <1>10, <3>1 DEF Status!IsComplete
      <4> HIDE DEF results
      <4>2. QED
        BY <1>2, <3>1, <4>1
    <3> HIDE DEF results
    <3>3. QED
      BY <1>3, <3>1, <3>2 DEF Synced
  <2> HIDE DEF p, n, there, inSync, fit, synced, thereSeen, syncedSeen, fitSeen
  <2>5. ASSUME NEW S, NEW T, T \subseteq Phases[k], S \subseteq T
        PROVE  Cardinality(S) \in Nat /\ Cardinality(T) \in Nat /\ Cardinality(S) <= Cardinality(T)
    <3>1. IsFiniteSet(T)
      BY <1>6, <2>5, FS_Subset
    <3>2. IsFiniteSet(S) /\ Cardinality(S) <= Cardinality(T)
      BY <2>5, <3>1, FS_Subset
    <3>3. QED
      BY <3>1, <3>2, FS_CardinalityType
  <2>6. /\ Cardinality(thereSeen) \in Nat /\ Cardinality(there) \in Nat
        /\ Cardinality(thereSeen) <= Cardinality(there)
    BY <1>4, <1>5, <2>5
  <2>7. /\ Cardinality(syncedSeen) \in Nat /\ Cardinality(synced) \in Nat
        /\ Cardinality(syncedSeen) <= Cardinality(synced)
    BY <1>5, <2>3, <2>5
  <2>8. /\ Cardinality(fitSeen) \in Nat /\ Cardinality(fit) \in Nat
        /\ Cardinality(fitSeen) <= Cardinality(fit)
    BY <1>4, <1>5, <2>5
  <2>9. n <= n
    BY <1>6
  <2>10. \A f \in Status!Fields : p.counts[f] <= Due(k, after, want)[f]
    <3>1. \A f \in Status!Fields :
            Status!Counts(n, Cardinality(thereSeen), Cardinality(syncedSeen), Cardinality(fitSeen))[f]
              <= Status!Counts(n, Cardinality(there), Cardinality(synced), Cardinality(fit))[f]
      BY <1>6, <2>6, <2>7, <2>8, <2>9 DEF Status!Counts, Status!Fields
    <3>2. QED
      BY <1>7, <2>2, <3>1
  <2>11. missed = {} => p.counts = Due(k, after, want)
    BY <1>7, <2>2, <2>4
  <2>12. QED
    BY <2>2, <2>10, <2>11 DEF p, seen
<1>11. QED
  BY <1>9, <1>10

\* What any pass of the engine says of a phase: nothing but its size beyond the
\* end and where it was refused, else the counts that the objects have then.
LEMMA PassCounts ==
  ASSUME IInv, NEW refused \in SUBSET (1 .. Last), NEW end \in 1 .. Last,
         NEW missed \in SUBSET Phases[end], NEW error \in {"none", "object"},
         error = "object" => missed # {}, Pass(refused, end, missed, error),
         work'.status.reason # "Superseded", NEW k \in 1 .. Last
  PROVE  LET said == work'.status.phases[k]
             due == Due(k, obj', work.got)
         IN  IF k > end \/ k \in refused
             THEN /\ said.status = IF k > end THEN "Unknown" ELSE "Invalid"
                  /\ said.counts = Status!Counts(due.total, 0, 0, 0)
             ELSE /\ said.status \notin {"Unknown", "Invalid"}
                  /\ \A f \in Status!Fields : said.counts[f] <= due[f]
                  /\ k # end \/ missed = {} => said.counts = due
<1> DEFINE want == work.got
           stamped == StampedPhases(work.self.status)
           written == WrittenEnd(want, stamped, refused)
           result == Result(want, stamped, refused, end, missed)
           built == Status!BuildObservedPhases(Phases, result.phases)[k]
           some == IF k = end THEN missed ELSE {}
           new == work'.status
           n == Cardinality(Phases[k])
<1>1. /\ work.at = "engine" /\ want \in [Objects -> Data] /\ obj \in [Objects -> ObjectRecords]
      /\ Pinned(work) \in StatusRecords
  BY AtEngine DEF Pass
<1>2. new = Status!FromReconcile(Pinned(work), Phases, result, error)
  BY DEF Pass, Report
<1>3. k \in DOMAIN Phases /\ k \in Nat /\ end \in Nat /\ Status!Cardinality(Phases[k]) = n /\ n \in Nat
  BY Sizes, SizesOfParts
<1>4. Due(k, obj', want).total = n
  BY DEF Due, Status!Counts
<1>5. ASSUME k \in 1 .. end, k \notin refused, NEW o \in Phases[k] \ some
      PROVE  obj'[o] = IF k > written THEN obj[o] ELSE Written(o, want[o])
  BY <1>5, PassLeaves
<1>6. /\ IsResult(result) /\ DOMAIN result.errors = {} /\ DOMAIN result.phases = 1 .. end
      /\ \A j \in 1 .. end :
           result.phases[j] = IF j \in refused THEN Refused(j)
                              ELSE Looked(j, want, j > written, IF j = end THEN missed ELSE {})
      /\ missed # {} => ~result.progressed
  <2> HIDE DEF want, stamped
  <2>1. QED
    BY <1>1, ResultTyped
<1> HIDE DEF stamped, written, result, new, want
<1>7. new.phases[k].counts = built.counts /\ new.phases[k].status = built.status
  <2>1. new.reason # "Superseded"
    BY DEF new
  <2>2. QED
    BY <1>1, <1>2, <1>3, <1>6, <2>1, PassPhases
<1>8. /\ DOMAIN result.phases \subseteq DOMAIN Phases
      /\ \A j \in DOMAIN result.phases : IsReported(result.phases[j])
  BY <1>6 DEF IsResult
<1>9. /\ k \in 1 .. end => built = SaidOf(k, result.phases[k])
      /\ k \notin 1 .. end =>
           built = Status!Observed("Unknown", 1, Status!Counts(n, 0, 0, 0), Status!NoDetails)
  BY <1>3, <1>6, <1>8, BuiltPhases DEF SaidOf
<1>10. CASE k > end
  <2>1. built = Status!Observed("Unknown", 1, Status!Counts(n, 0, 0, 0), Status!NoDetails)
    BY <1>3, <1>9, <1>10
  <2>2. built.status = "Unknown" /\ built.counts = Status!Counts(n, 0, 0, 0)
    BY <2>1 DEF Status!Observed
  <2>3. QED
    BY <1>4, <1>7, <1>10, <2>2 DEF new, want
<1>11. CASE ~(k > end) /\ k \in refused
  <2>1. k \in 1 .. end
    BY <1>3, <1>11
  <2>2. built = SaidOf(k, Refused(k))
    BY <1>6, <1>9, <1>11, <2>1
  <2>3. built = Status!InvalidPhase(n, Refusal(k))
    <3>1. Refusal(k) # Status!NoRefusal
      <4>1. "phase" \in DOMAIN Refusal(k) /\ "phase" \notin DOMAIN Status!NoRefusal
        BY DEF Refusal, Status!NoRefusal
      <4>2. QED
        BY <4>1
    <3>2. QED
      BY <1>3, <2>2, <3>1, RefusalTyped DEF SaidOf, Status!IncompletePhase
  <2>4. built.status = "Invalid" /\ built.counts = Status!Counts(n, 0, 0, 0)
    BY <1>3, <2>3, RefusalTyped, InvalidIs
  <2>5. QED
    BY <1>4, <1>7, <1>11, <2>4 DEF new, want
<1>12. CASE ~(k > end) /\ k \notin refused
  <2>1. k \in 1 .. end
    BY <1>3, <1>12
  <2> DEFINE paused == k > written
  <2>2. paused \in BOOLEAN
    OBVIOUS
  <2>3. built = SaidOf(k, Looked(k, want, paused, some))
    BY <1>6, <1>9, <1>12, <2>1
  <2>4. \A o \in Phases[k] \ some : obj'[o] = IF paused THEN obj[o] ELSE Written(o, want[o])
    BY <1>5, <1>12, <2>1
  <2>5. k # end \/ missed = {} => some = {}
    OBVIOUS
  <2> HIDE DEF some, built, paused
  <2>6. /\ built.status \notin {"Unknown", "Invalid"}
        /\ \A f \in Status!Fields : built.counts[f] <= Due(k, obj', want)[f]
        /\ some = {} => built.counts = Due(k, obj', want)
    BY <1>1, <1>3, <2>2, <2>3, <2>4, LookedCounts
  <2>7. QED
    BY <1>7, <1>12, <2>5, <2>6 DEF new, want
<1>13. QED
  BY <1>10, <1>11, <1>12

\* A pass that preflight refuses reports an invalid revision, one without an
\* engine an internal error.
LEMMA RefusedIsInvalid ==
  ASSUME PreflightRefuses \/ EngineFails, work.at = "engine"
  PROVE  work'.status.reason \in {"InvalidRevision", "InternalError"}
<1> DEFINE result(k) == [errors |-> [j \in {k} |-> Refusal(k)], progressed |-> FALSE,
                         complete |-> FALSE, phases |-> << >>]
           u(k) == Status!Apply(Pinned(work),
                     Status!PreserveCompletionTimes(Pinned(work).phases,
                       Status!FromReconcileResult(Phases, result(k))))
<1>1. CASE PreflightRefuses
  <2>1. PICK k \in 1 .. Last :
          Report(Status!FromReconcile(Pinned(work), Phases, result(k), "none"), FALSE)
    BY <1>1, Zenon DEF PreflightRefuses
  <2>2. DOMAIN result(k).errors # {}
    OBVIOUS
  <2>3. work'.status = Status!Condition(u(k), "False", "InvalidRevision")
    BY <2>1, <2>2 DEF Status!FromReconcile, Report
  <2>4. work'.status.reason = "InvalidRevision"
    BY <2>3 DEF Status!Condition, Status!Apply
  <2>5. QED
    BY <2>4
<1>2. CASE EngineFails
  <2>1. Report(Status!FromReconcile(Pinned(work), Phases, Status!NoResult, "internal"), TRUE)
    BY <1>2 DEF EngineFails
  <2>2. work'.status = Status!InternalErrorUpdate(Pinned(work))
    BY <2>1 DEF Report, Status!FromReconcile
  <2>3. work'.status.reason = "InternalError"
    BY <2>2 DEF Status!InternalErrorUpdate, Status!Condition, Status!Apply, Pinned
  <2>4. QED
    BY <2>3
<1>3. QED
  BY <1>1, <1>2

\* The counts of every pass: never more than what the pass left in the cluster,
\* all of it when nothing failed, and of the phases a failed pass had got past.
THEOREM CountsAreTruthful == Spec => CountsTruthful
<1>1. IInv /\ Purse /\ [Next]_vars =>
        [work.at = "engine" /\ work'.at = "report"
           /\ work'.status.reason \in {"Available", "Unavailable", "ReconcileError"} =>
           \A k \in 1 .. Last :
             LET said == work'.status.phases[k]
                 due  == Due(k, obj', work.got)
             IN IF said.status \in {"Unknown", "Invalid"}
                THEN said.counts = Status!Counts(due.total, 0, 0, 0) /\ budget' # budget
                ELSE /\ \A f \in Status!Fields : said.counts[f] <= due[f]
                     /\ said.counts # due =>
                          /\ budget' # budget
                          /\ \A j \in k + 1 .. Last :
                               work'.status.phases[j].status = "Unknown"]_vars
  <2> SUFFICES ASSUME IInv, Purse, [Next]_vars, work.at = "engine", work'.at = "report",
                      work'.status.reason \in {"Available", "Unavailable", "ReconcileError"},
                      NEW k \in 1 .. Last
               PROVE  LET said == work'.status.phases[k]
                          due  == Due(k, obj', work.got)
                      IN IF said.status \in {"Unknown", "Invalid"}
                         THEN said.counts = Status!Counts(due.total, 0, 0, 0) /\ budget' # budget
                         ELSE /\ \A f \in Status!Fields : said.counts[f] <= due[f]
                              /\ said.counts # due =>
                                   /\ budget' # budget
                                   /\ \A j \in k + 1 .. Last :
                                        work'.status.phases[j].status = "Unknown"
    OBVIOUS
  <2>1. ReconcilePhases \/ WriteFails \/ LookFails \/ PhaseRefused
    BY OnlyEngineReports, RefusedIsInvalid
  <2>2. PICK refused \in SUBSET (1 .. Last), end \in 1 .. Last, error \in {"none", "object"} :
          \E missed \in SUBSET Phases[end] :
            /\ Pass(refused, end, missed, error)
            /\ refused # {} => end = Last /\ missed = {}
            /\ end = Last \/ missed # {}
            /\ error = "object" => missed # {}
            /\ refused # {} \/ missed # {} => Spend("fault")
    BY <2>1, PassesAre
  <2>3. PICK missed \in SUBSET Phases[end] :
          /\ Pass(refused, end, missed, error)
          /\ refused # {} => end = Last /\ missed = {}
          /\ end = Last \/ missed # {}
          /\ error = "object" => missed # {}
          /\ refused # {} \/ missed # {} => Spend("fault")
    BY <2>2
  <2>4. refused # {} \/ missed # {} => budget' # budget
    <3>1. "fault" \in Disturbances
      BY DEF Disturbances
    <3>2. QED
      BY <2>3, <3>1, SpendStep
  <2>5. work'.status.reason # "Superseded"
    OBVIOUS
  <2> DEFINE Said(j) == work'.status.phases[j]
             Owed(j) == Due(j, obj', work.got)
  <2>6. ASSUME NEW j \in 1 .. Last
        PROVE  IF j > end \/ j \in refused
               THEN /\ Said(j).status = IF j > end THEN "Unknown" ELSE "Invalid"
                    /\ Said(j).counts = Status!Counts(Owed(j).total, 0, 0, 0)
               ELSE /\ Said(j).status \notin {"Unknown", "Invalid"}
                    /\ \A f \in Status!Fields : Said(j).counts[f] <= Owed(j)[f]
                    /\ j # end \/ missed = {} => Said(j).counts = Owed(j)
    <3>1. /\ Pass(refused, end, missed, error) /\ refused \in SUBSET (1 .. Last) /\ end \in 1 .. Last
          /\ missed \in SUBSET Phases[end] /\ error \in {"none", "object"}
          /\ error = "object" => missed # {}
      BY <2>3
    <3>2. LET said == work'.status.phases[j]
              due == Due(j, obj', work.got)
          IN  IF j > end \/ j \in refused
              THEN /\ said.status = IF j > end THEN "Unknown" ELSE "Invalid"
                   /\ said.counts = Status!Counts(due.total, 0, 0, 0)
              ELSE /\ said.status \notin {"Unknown", "Invalid"}
                   /\ \A f \in Status!Fields : said.counts[f] <= due[f]
                   /\ j # end \/ missed = {} => said.counts = due
      BY <2>5, <3>1, PassCounts
    <3>3. QED
      BY <3>2 DEF Said, Owed
  <2> HIDE DEF Said, Owed
  <2>7. Last \in Nat
    BY Sizes
  <2>8. CASE k > end \/ k \in refused
    <3>1. refused # {} \/ missed # {}
      BY <2>3, <2>7, <2>8
    <3>2. Said(k).status \in {"Unknown", "Invalid"} /\ Said(k).counts = Status!Counts(Owed(k).total, 0, 0, 0)
      BY <2>6, <2>8
    <3>3. QED
      BY <2>4, <3>1, <3>2 DEF Said, Owed
  <2>9. CASE ~(k > end \/ k \in refused)
    <3>1. /\ Said(k).status \notin {"Unknown", "Invalid"}
          /\ \A f \in Status!Fields : Said(k).counts[f] <= Owed(k)[f]
      BY <2>6, <2>9
    <3>2. ASSUME Said(k).counts # Owed(k)
          PROVE  budget' # budget /\ \A j \in k + 1 .. Last : Said(j).status = "Unknown"
      <4>1. k = end /\ missed # {}
        BY <2>6, <2>9, <3>2
      <4>2. ASSUME NEW j \in k + 1 .. Last PROVE Said(j).status = "Unknown"
        <5>1. j \in 1 .. Last /\ j > end
          BY <2>7, <4>1
        <5>2. QED
          BY <2>6, <5>1
      <4>3. QED
        BY <2>4, <4>1, <4>2
    <3>3. QED
      BY <3>1, <3>2 DEF Said, Owed
  <2>10. QED
    BY <2>8, <2>9
<1>2. QED
  BY <1>1, RolloutInvariant, PurseKept, PTL DEF Spec, CountsTruthful
=============================================================================
