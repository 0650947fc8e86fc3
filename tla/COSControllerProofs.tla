------------------------ MODULE COSControllerProofs ------------------------
(* The ClusterObjectSet controller, for every group of revisions, every      *)
(* division of their objects into phases, every lag of the cache and number  *)
(* of disturbances: it is typed; no object outlives the protection of its    *)
(* owner; objects are deleted only for revisions that are to go, and in      *)
(* reverse order; a reported completion was earned; phases are written in    *)
(* order; and the whole implements ObjectOwnership.                          *)
EXTENDS COSController, LeastElement

-----------------------------------------------------------------------------
(* Types.  Beyond TypeOK, a status names phases the revision has.          *)

Spans(r) == 1 .. Last(r)
COSOf(r) == {c \in COS : c.status.completed \subseteq Spans(r)}
StatusOf(r) == {s \in Statuses : s.completed \subseteq Spans(r)}

Listings == {g \in UNION {[D -> COS] : D \in SUBSET Revs} :
               \A r \in DOMAIN g : g[r] \in COSOf(r)}

Thing == [holder : Revs \cup Nobody \cup {Missing}, content : Revs \cup {Other},
          ready : BOOLEAN, dying : BOOLEAN]

\* A worker between or after its phases, and one in them.
Waiting == [at : {"idle", "wait"}]
Releasing(r) == [at : {"release"}, self : COSOf(r)]
Acting(r) ==
  [at : {"finalizer", "objects", "teardown", "report"}, self : COSOf(r),
   siblings : SUBSET Revs, pass : {"gated", "drift"}, phase : Spans(r),
   todo : SUBSET Objects, clean : BOOLEAN, moved : BOOLEAN, full : SUBSET Spans(r),
   error : {"none", "object", "resolution", "internal"}]

\* What a worker in a phase has still to do is part of that phase.
Busy(r) ==
  {w \in Acting(r) : w.at \in {"objects", "teardown"} =>
                       w.todo # {} /\ w.todo \subseteq Phases[r][w.phase]}

WorkersOf(r) == Waiting \cup Releasing(r) \cup Busy(r)

WorkOK ==
  /\ work \in [Revs -> UNION {WorkersOf(r) : r \in Revs}]
  /\ \A r \in Revs : work[r] \in WorkersOf(r)

ApiOK == cos \in Listings /\ stream \in Seq(Listings)

TypeInv ==
  /\ obj \in [Objects -> Thing]
  /\ ApiOK /\ cache \in Listings
  /\ queued \subseteq Revs /\ born \subseteq Revs /\ met \subseteq Revs \X Objects
  /\ WorkOK
  /\ budget \in [Disturbances -> Nat]

-----------------------------------------------------------------------------
(* Phases and listings.                                                    *)

LEMMA PhaseFacts ==
  ASSUME NEW r \in Revs
  PROVE  /\ Last(r) \in Nat /\ Last(r) > 0 /\ 1 \in Spans(r) /\ Last(r) \in Spans(r)
         /\ \A k \in Spans(r) : Phases[r][k] \subseteq Objects /\ Phases[r][k] # {}
         /\ Manages(r) \subseteq Objects
         /\ \A j, k \in Spans(r) : j # k => Phases[r][j] \cap Phases[r][k] = {}
<1>1. /\ Phases[r] \in Seq(SUBSET Objects) /\ Len(Phases[r]) > 0
      /\ \A k \in DOMAIN Phases[r] : Phases[r][k] # {}
      /\ \A j, k \in DOMAIN Phases[r] : j # k => Phases[r][j] \cap Phases[r][k] = {}
  BY COSAssumption
<1>2. Len(Phases[r]) \in Nat /\ DOMAIN Phases[r] = 1 .. Len(Phases[r])
      /\ \A k \in 1 .. Len(Phases[r]) : Phases[r][k] \subseteq Objects
  BY <1>1
<1>3. QED
  BY <1>1, <1>2 DEF Spans, Last, Manages

LEMMA ListingIs ==
  ASSUME NEW g
  PROVE  g \in Listings
           <=> /\ DOMAIN g \subseteq Revs /\ g = [r \in DOMAIN g |-> g[r]]
               /\ \A r \in DOMAIN g : g[r] \in COSOf(r)
BY DEF Listings, COSOf

LEMMA COSOfIs ==
  ASSUME NEW r, NEW c
  PROVE  c \in COSOf(r)
           <=> c \in [archived : BOOLEAN, deleting : BOOLEAN, orphan : BOOLEAN,
                      finalizer : BOOLEAN, status : StatusOf(r)]
BY DEF COSOf, StatusOf, COS

LEMMA StoreListed ==
  ASSUME NEW g \in Listings, NEW r \in Revs, NEW c \in COSOf(r)
  PROVE  /\ Store(g, r, c) \in Listings
         /\ DOMAIN Store(g, r, c) = DOMAIN g \cup {r}
         /\ Store(g, r, c)[r] = c
         /\ \A q \in DOMAIN g : q # r => Store(g, r, c)[q] = g[q]
BY ListingIs DEF Store

LEMMA StoreIs ==
  ASSUME NEW g, NEW r \in DOMAIN g, NEW c
  PROVE  /\ DOMAIN Store(g, r, c) = DOMAIN g /\ Store(g, r, c)[r] = c
         /\ \A q \in DOMAIN g : q # r => Store(g, r, c)[q] = g[q]
BY DEF Store

LEMMA WithoutListed ==
  ASSUME NEW g \in Listings, NEW r \in Revs
  PROVE  /\ Without(g, r) \in Listings
         /\ DOMAIN Without(g, r) = DOMAIN g \ {r}
         /\ \A q \in DOMAIN g : q # r => Without(g, r)[q] = g[q]
BY ListingIs DEF Without

LEMMA SettledListed ==
  ASSUME NEW g \in Listings, NEW r \in Revs
  PROVE  Settled(g, r) \in Listings
BY WithoutListed DEF Settled

LEMMA PutTyped ==
  ASSUME ApiOK, NEW g \in Listings, Put(g)
  PROVE  ApiOK'
<1>1. CASE g = cos
  BY <1>1 DEF Put, ApiOK, api
<1>2. CASE g # cos
  BY <1>2 DEF Put, ApiOK
<1>3. QED
  BY <1>1, <1>2

LEMMA SameApiTyped ==
  ASSUME ApiOK, UNCHANGED api
  PROVE  ApiOK'
BY DEF ApiOK, api

\* Writing one field of a revision.
LEMMA FinalizedIs ==
  ASSUME NEW r, NEW c \in COSOf(r), NEW b \in BOOLEAN
  PROVE  [c EXCEPT !.finalizer = b] \in COSOf(r)
BY DEF COSOf, COS

LEMMA ArchivedIs ==
  ASSUME NEW r, NEW c \in COSOf(r)
  PROVE  [c EXCEPT !.archived = TRUE] \in COSOf(r)
BY DEF COSOf, COS

LEMMA DeletedIs ==
  ASSUME NEW r, NEW c \in COSOf(r), NEW b \in BOOLEAN
  PROVE  [c EXCEPT !.deleting = TRUE, !.orphan = b] \in COSOf(r)
BY DEF COSOf, COS

LEMMA ReportedIs ==
  ASSUME NEW r, NEW c \in COSOf(r), NEW s \in StatusOf(r)
  PROVE  [c EXCEPT !.status = s] \in COSOf(r)
BY DEF COSOf, COS, StatusOf

LEMMA NewIs ==
  ASSUME NEW r
  PROVE  NewCOS \in COSOf(r)
BY DEF NewCOS, COSOf, COS, Statuses, Reasons

-----------------------------------------------------------------------------
(* Workers.                                                                *)

LEMMA WorkerIs ==
  ASSUME NEW r, NEW w \in WorkersOf(r)
  PROVE  /\ w.at \in {"idle", "wait", "release", "finalizer", "objects", "teardown", "report"}
         /\ w.at = "release" => w.self \in COSOf(r)
         /\ w.at \in {"finalizer", "objects", "teardown", "report"} => w \in Busy(r)
BY DEF WorkersOf, Waiting, Releasing, Busy, Acting

LEMMA IdleTyped ==
  ASSUME NEW r
  PROVE  Idle \in WorkersOf(r) /\ [at |-> "wait"] \in WorkersOf(r)
         /\ \A c \in COSOf(r) : [at |-> "release", self |-> c] \in WorkersOf(r)
BY DEF Idle, WorkersOf, Waiting, Releasing

LEMMA BecomeTyped ==
  ASSUME WorkOK, NEW r \in Revs, NEW w \in WorkersOf(r), Become(r, w)
  PROVE  WorkOK' /\ work'[r] = w /\ \A q \in Revs : q # r => work'[q] = work[q]
BY DEF WorkOK, Become

LEMMA EndTyped ==
  ASSUME WorkOK, queued \subseteq Revs, NEW r \in Revs, NEW b, End(r, b)
  PROVE  WorkOK' /\ queued' \subseteq Revs
BY IdleTyped, BecomeTyped DEF End

LEMMA ReportTyped ==
  ASSUME NEW r \in Revs, NEW w \in Acting(r), NEW full \in SUBSET Spans(r)
  PROVE  Report(w, full) \in Busy(r)
<1>1. 1 \in Spans(r)
  BY PhaseFacts
<1>2. QED
  BY <1>1 DEF Report, Busy, Acting

LEMMA WorkerTyped ==
  ASSUME TypeInv, NEW r \in Revs, r \in DOMAIN cache,
         NEW place \in {"finalizer", "objects", "teardown"}, NEW k \in Spans(r)
  PROVE  Worker(r, place, k) \in Busy(r)
<1>1. cache \in Listings /\ cache[r] \in COSOf(r)
  BY ListingIs DEF TypeInv
<1>2. Siblings(cache, r) \in SUBSET Revs
  BY <1>1, ListingIs DEF Siblings
<1>3. Phases[r][k] \subseteq Objects /\ Phases[r][k] # {}
  BY PhaseFacts
<1>4. QED
  BY <1>1, <1>2, <1>3 DEF Worker, Busy, Acting

LEMMA OpeningTyped ==
  ASSUME TypeInv, NEW r \in Revs
  PROVE  /\ Opening(r) \in WorkersOf(r)
         /\ Opening(r).at \in {"objects", "teardown"} => Opening(r) \in Busy(r)
<1>1. CASE r \notin DOMAIN cache
  BY <1>1, IdleTyped DEF Opening, Idle
<1>2. CASE r \in DOMAIN cache
  <2>1. cache[r] \in COSOf(r) /\ cache[r].finalizer \in BOOLEAN
    BY <1>2, ListingIs DEF TypeInv, COSOf, COS
  <2>2. 1 \in Spans(r) /\ Last(r) \in Spans(r)
    BY PhaseFacts
  <2>3. /\ Worker(r, "finalizer", 1) \in Busy(r)
        /\ Worker(r, "objects", 1) \in Busy(r)
        /\ Worker(r, "teardown", Last(r)) \in Busy(r)
    BY <1>2, <2>2, WorkerTyped
  <2>4. /\ Idle \in WorkersOf(r) /\ Idle.at = "idle"
        /\ [at |-> "release", self |-> cache[r]] \in WorkersOf(r)
        /\ [at |-> "release", self |-> cache[r]].at = "release"
    BY <2>1, IdleTyped DEF Idle
  <2>5. Opening(r) \in {Idle, [at |-> "release", self |-> cache[r]],
                        Worker(r, "finalizer", 1), Worker(r, "objects", 1),
                        Worker(r, "teardown", Last(r))}
    BY <1>2 DEF Opening
  <2>6. QED
    BY <2>3, <2>4, <2>5 DEF WorkersOf
<1>3. QED
  BY <1>1, <1>2

LEMMA GlimpseTyped ==
  ASSUME NEW r \in Revs, NEW w \in Acting(r)
  PROVE  Glimpse(r, w) \subseteq Spans(r)
<1>1. Last(r) \in Nat /\ w.phase \in Nat /\ w.phase >= 1
  BY PhaseFacts DEF Acting, Spans
<1>2. QED
  BY <1>1 DEF Glimpse, Spans

\* Where the worker goes after the last object of a phase.
LEMMA NextPhaseTyped ==
  ASSUME NEW r \in Revs, NEW w \in Acting(r), w.at = "objects"
  PROVE  NextPhase(r, w) \in Busy(r)
<1> DEFINE full == w.full \cup (IF w.clean THEN {w.phase} ELSE {})
           Go(pass) == [w EXCEPT !.pass = pass, !.phase = w.phase + 1,
                          !.todo = Phases[r][w.phase + 1], !.clean = TRUE, !.full = full]
           last == [w EXCEPT !.moved = w.moved /\ w.pass = "gated" /\ w.phase = Last(r)]
<1>1. full \in SUBSET Spans(r)
  BY DEF Acting
<1>2. Last(r) \in Nat /\ w.phase \in Spans(r) /\ w.self.status.completed \subseteq Spans(r)
  BY PhaseFacts DEF Acting, COSOf
<1>3. ASSUME w.phase + 1 \in Spans(r), NEW pass \in {"gated", "drift"}
      PROVE  Go(pass) \in Busy(r)
  <2>1. Phases[r][w.phase + 1] \subseteq Objects /\ Phases[r][w.phase + 1] # {}
    BY <1>3, PhaseFacts
  <2> HIDE DEF full
  <2>2. QED
    BY <1>1, <1>3, <2>1 DEF Busy, Acting
<1>4. /\ w.phase < Last(r) => w.phase + 1 \in Spans(r)
      /\ w.phase + 1 \in w.self.status.completed => w.phase + 1 \in Spans(r)
  BY <1>2 DEF Spans
<1>5. Report(w, full) \in Busy(r)
  BY <1>1, ReportTyped
<1>6. Report(last, full \cup Glimpse(r, w)) \in Busy(r)
  <2>1. last \in Acting(r)
    BY DEF Acting
  <2>2. full \cup Glimpse(r, w) \in SUBSET Spans(r)
    BY <1>1, GlimpseTyped
  <2>3. QED
    BY <2>1, <2>2, ReportTyped
<1>7. \/ NextPhase(r, w) = Report(w, full)
      \/ w.phase < Last(r) /\ NextPhase(r, w) \in {Go("gated"), Go("drift")}
      \/ w.phase + 1 \in w.self.status.completed /\ NextPhase(r, w) = Go("drift")
      \/ NextPhase(r, w) = Report(last, full \cup Glimpse(r, w))
  BY DEF NextPhase
<1> HIDE DEF full, Go, last
<1>8. QED
  BY <1>3, <1>4, <1>5, <1>6, <1>7

LEMMA AdvanceTyped ==
  ASSUME WorkOK, NEW r \in Revs, NEW w \in Acting(r), w.at = "objects",
         w.todo \subseteq Phases[r][w.phase], Advance(r, w)
  PROVE  WorkOK'
<1>1. NextPhase(r, w) \in Busy(r)
  BY NextPhaseTyped
<1>2. w.todo # {} => w \in Busy(r)
  BY DEF Busy
<1>3. QED
  BY <1>1, <1>2, BecomeTyped DEF Advance, WorkersOf

LEMMA PrevPhaseTyped ==
  ASSUME NEW r \in Revs, NEW w \in Acting(r), w.at = "teardown"
  PROVE  PrevPhase(r, w) \in Busy(r)
<1>1. Report(w, {}) \in Busy(r)
  BY ReportTyped
<1>2. ASSUME w.phase > 1
      PROVE  [w EXCEPT !.phase = w.phase - 1, !.todo = Phases[r][w.phase - 1]] \in Busy(r)
  <2>1. w.phase - 1 \in Spans(r)
    BY <1>2, PhaseFacts DEF Acting, Spans
  <2>2. Phases[r][w.phase - 1] \subseteq Objects /\ Phases[r][w.phase - 1] # {}
    BY <2>1, PhaseFacts
  <2>3. QED
    BY <2>1, <2>2 DEF Busy, Acting
<1>3. QED
  BY <1>1, <1>2 DEF PrevPhase

LEMMA RetreatTyped ==
  ASSUME WorkOK, NEW r \in Revs, NEW w \in Acting(r), w.at = "teardown",
         w.todo \subseteq Phases[r][w.phase], Retreat(r, w)
  PROVE  WorkOK'
<1>1. PrevPhase(r, w) \in Busy(r)
  BY PrevPhaseTyped
<1>2. w.todo # {} => w \in Busy(r)
  BY DEF Busy
<1>3. QED
  BY <1>1, <1>2, BecomeTyped DEF Retreat, WorkersOf

-----------------------------------------------------------------------------
(* Every action keeps the types.                                           *)

LEMMA InitTyped == Init => TypeInv
<1> SUFFICES ASSUME Init PROVE TypeInv
  OBVIOUS
<1>1. Absent \in Thing
  BY DEF Absent, Thing
<1>2. << >> \in Listings
  <2>1. << >> \in [1 .. 0 -> COS] /\ 1 .. 0 = {}
    OBVIOUS
  <2>2. DOMAIN << >> = {} /\ << >> \in [{} -> COS]
    BY <2>1
  <2>3. QED
    BY <2>2 DEF Listings
<1>3. WorkOK
  BY IdleTyped DEF Init, WorkOK
<1>4. QED
  BY <1>1, <1>2, <1>3, COSAssumption DEF Init, TypeInv, ApiOK

\* Setting an object that there is, or one that there is not.
LEMMA SetObjectTyped ==
  ASSUME obj \in [Objects -> Thing], met \subseteq Revs \X Objects,
         NEW o, NEW x, o \in Objects => x \in Thing, SetObject(o, x)
  PROVE  /\ obj' \in [Objects -> Thing] /\ met' \subseteq Revs \X Objects
         /\ o \in Objects => obj'[o] = x
         /\ \A p \in Objects : p # o => obj'[p] = obj[p]
<1>1. MetBy(o, x) \X {o} \subseteq Revs \X Objects
  <2>1. \A r \in MetBy(o, x) : r \in Revs /\ o \in Objects
    BY PhaseFacts DEF MetBy
  <2>2. QED
    BY <2>1
<1>2. QED
  BY <1>1 DEF SetObject

LEMMA WokenTyped ==
  ASSUME NEW o, NEW x
  PROVE  Woken(o, x) \subseteq Revs
BY DEF Woken

LEMMA SpendTyped ==
  ASSUME budget \in [Disturbances -> Nat], NEW kind \in Disturbances, Spend(kind)
  PROVE  budget' \in [Disturbances -> Nat]
<1>1. "any" \in Disturbances
  BY DEF Disturbances
<1>2. QED
  BY <1>1 DEF Spend

LEMMA DesiredTyped ==
  ASSUME obj \in [Objects -> Thing], NEW r \in Revs, NEW o \in Objects
  PROVE  Desired(r, o) \in Thing
BY DEF Desired, Thing

LEMMA ThingIs ==
  ASSUME obj \in [Objects -> Thing], NEW o \in Objects
  PROVE  /\ Absent \in Thing /\ obj[o] \in Thing
         /\ [obj[o] EXCEPT !.dying = TRUE] \in Thing
         /\ [obj[o] EXCEPT !.content = Other] \in Thing
         /\ [obj[o] EXCEPT !.ready = TRUE] \in Thing
         /\ [obj[o] EXCEPT !.ready = FALSE] \in Thing
         /\ [obj[o] EXCEPT !.holder = Unowned] \in Thing
         /\ \A who \in Nobody : [Absent EXCEPT !.holder = who, !.ready = o \notin Gates] \in Thing
<1>1. Absent \in Thing /\ obj[o] \in Thing
  BY DEF Absent, Thing
<1>2. ASSUME NEW who \in Nobody
      PROVE  [Absent EXCEPT !.holder = who, !.ready = o \notin Gates] \in Thing
  BY <1>1 DEF Thing
<1>3. [obj[o] EXCEPT !.holder = Unowned] \in Thing
  BY <1>1 DEF Thing, Nobody
<1>4. QED
  BY <1>1, <1>2, <1>3 DEF Thing

LEMMA BeginTyped ==
  ASSUME TypeInv, NEW r \in Revs,
         Begin(r) \/ \E kind \in {"resolution", "internal"} : BeginFails(r, kind)
  PROVE  TypeInv'
<1>1. CASE Begin(r)
  BY <1>1, OpeningTyped, BecomeTyped, SameApiTyped DEF Begin, TypeInv
<1>2. ASSUME NEW kind \in {"resolution", "internal"}, BeginFails(r, kind)
      PROVE  TypeInv'
  <2>1. Opening(r) \in Busy(r)
    BY <1>2, OpeningTyped DEF BeginFails
  <2>2. Report(Opening(r), {}) \in Busy(r) /\ Report(Opening(r), {}).at = "report"
    BY <2>1, ReportTyped DEF Busy, Report, Acting
  <2> DEFINE w == Report(Opening(r), {})
  <2> HIDE DEF w
  <2>3. [w EXCEPT !.error = kind] \in Busy(r)
    BY <2>2 DEF Busy, Acting, w
  <2>4. WorkOK'
    BY <1>2, <2>3, BecomeTyped DEF BeginFails, WorkersOf, TypeInv, w
  <2>5. QED
    BY <1>2, <2>4, SameApiTyped, SpendTyped DEF BeginFails, TypeInv, Disturbances
<1>3. QED
  BY <1>1, <1>2

LEMMA EnsureFinalizerTyped ==
  ASSUME TypeInv, NEW r \in Revs, EnsureFinalizer(r)
  PROVE  TypeInv'
<1>1. CASE r \in DOMAIN cos /\ ~cos[r].deleting
  <2>1. [cos[r] EXCEPT !.finalizer = TRUE] \in COSOf(r)
    BY <1>1, ListingIs, FinalizedIs DEF TypeInv, ApiOK
  <2>2. Store(cos, r, [cos[r] EXCEPT !.finalizer = TRUE]) \in Listings
    BY <2>1, StoreListed DEF TypeInv, ApiOK
  <2>3. QED
    BY <1>1, <2>2, PutTyped, EndTyped DEF EnsureFinalizer, TypeInv
<1>2. CASE ~(r \in DOMAIN cos /\ ~cos[r].deleting)
  BY <1>2, SameApiTyped, EndTyped DEF EnsureFinalizer, TypeInv
<1>3. QED
  BY <1>1, <1>2

LEMMA LeastTodo ==
  ASSUME NEW r \in Revs, NEW w \in Busy(r), w.at \in {"objects", "teardown"}
  PROVE  /\ Min(w.todo) \in w.todo /\ Min(w.todo) \in Objects
         /\ w.todo \subseteq Phases[r][w.phase] /\ w.phase \in Spans(r)
<1>1. w.todo # {} /\ w.todo \subseteq Objects /\ w.todo \subseteq Phases[r][w.phase]
      /\ w.phase \in Spans(r)
  BY DEF Busy, Acting
<1>2. w.todo \subseteq Nat
  BY <1>1, COSAssumption
<1>3. QED
  BY <1>1, <1>2, MinIsLeast

LEMMA ReconcileObjectTyped ==
  ASSUME TypeInv, NEW r \in Revs, ReconcileObject(r) \/ WriteFails(r)
  PROVE  TypeInv'
<1> DEFINE w == work[r]
           o == Min(w.todo)
           v == Verdict(r, w.siblings, obj[o])
           x == IF v = "write" THEN Desired(r, o) ELSE obj[o]
<1>1. w \in Busy(r) /\ w \in Acting(r) /\ w.at = "objects"
  BY WorkerIs DEF TypeInv, WorkOK, ReconcileObject, WriteFails, Busy
<1>2. o \in Objects /\ w.todo \subseteq Phases[r][w.phase]
  BY <1>1, LeastTodo
<1>3. x \in Thing /\ obj[o] \in Thing
  BY <1>2, DesiredTyped DEF TypeInv
<1>4. CASE ReconcileObject(r)
  <2> DEFINE u == [w EXCEPT !.todo = w.todo \ {o}, !.clean = w.clean /\ Fits(r, w.siblings, x),
                            !.moved = w.moved /\ v = "progressed"]
  <2>1. SetObject(o, x) /\ queued' = queued \cup Woken(o, x) /\ Advance(r, u)
        /\ UNCHANGED <<api, cache, budget, born>>
    BY <1>4 DEF ReconcileObject
  <2>2. u \in Acting(r) /\ u.at = "objects" /\ u.todo \subseteq Phases[r][u.phase]
    <3>1. (w.clean /\ Fits(r, w.siblings, x)) \in BOOLEAN /\ (w.moved /\ v = "progressed") \in BOOLEAN
      BY <1>1 DEF Acting
    <3> HIDE DEF w, o, v, x
    <3>2. QED
      BY <1>1, <1>2, <3>1 DEF Acting
  <2> HIDE DEF u, w, o, v, x
  <2>3. WorkOK'
    BY <2>1, <2>2, AdvanceTyped DEF TypeInv
  <2>4. QED
    BY <1>3, <2>1, <2>3, SetObjectTyped, WokenTyped, SameApiTyped DEF TypeInv
<1>5. CASE WriteFails(r)
  <2> DEFINE u == [w EXCEPT !.todo = w.todo \ {o}, !.clean = FALSE, !.moved = FALSE,
                            !.error = "object"]
  <2>1. SetObject(o, obj[o]) /\ Advance(r, u) /\ Spend("fault")
        /\ UNCHANGED <<api, cache, queued, born>>
    BY <1>5 DEF WriteFails
  <2> HIDE DEF w, o, v, x
  <2>2. u \in Acting(r) /\ u.at = "objects" /\ u.todo \subseteq Phases[r][u.phase]
    BY <1>1, <1>2 DEF Acting
  <2> HIDE DEF u
  <2>3. WorkOK'
    BY <2>1, <2>2, AdvanceTyped DEF TypeInv
  <2>4. QED
    BY <1>3, <2>1, <2>3, SetObjectTyped, SpendTyped, SameApiTyped DEF TypeInv, Disturbances
<1>6. QED
  BY <1>4, <1>5

LEMMA TeardownObjectTyped ==
  ASSUME TypeInv, NEW r \in Revs, TeardownObject(r) \/ DeletionFails(r)
  PROVE  TypeInv'
<1> DEFINE w == work[r]
           o == Min(w.todo)
           mine == obj[o].holder = r
<1>1. w \in Busy(r) /\ w \in Acting(r) /\ w.at = "teardown"
  BY WorkerIs DEF TypeInv, WorkOK, TeardownObject, DeletionFails, Busy
<1>2. o \in Objects /\ w.todo \subseteq Phases[r][w.phase]
  BY <1>1, LeastTodo
<1>3. Absent \in Thing /\ obj[o] \in Thing /\ [obj[o] EXCEPT !.dying = TRUE] \in Thing
  BY <1>2, ThingIs DEF TypeInv
<1>4. CASE TeardownObject(r)
  <2> DEFINE u == [w EXCEPT !.todo = w.todo \ {o}, !.clean = w.clean /\ ~mine]
  <2>1. PICK x \in {Absent, [obj[o] EXCEPT !.dying = TRUE], obj[o]} :
          SetObject(o, x) /\ queued' = queued \cup Woken(o, x)
    BY <1>4 DEF TeardownObject
  <2>2. Retreat(r, u) /\ UNCHANGED <<api, cache, budget, born>>
    BY <1>4 DEF TeardownObject
  <2>3. u \in Acting(r) /\ u.at = "teardown" /\ u.todo \subseteq Phases[r][u.phase]
    <3>1. (w.clean /\ ~mine) \in BOOLEAN
      BY <1>1 DEF Acting
    <3> HIDE DEF w, o, mine
    <3>2. QED
      BY <1>1, <1>2, <3>1 DEF Acting
  <2> HIDE DEF u, w, o, mine
  <2>4. WorkOK'
    BY <2>2, <2>3, RetreatTyped DEF TypeInv
  <2>5. QED
    BY <1>3, <2>1, <2>2, <2>4, SetObjectTyped, WokenTyped, SameApiTyped DEF TypeInv
<1>5. CASE DeletionFails(r)
  <2> DEFINE u == [w EXCEPT !.todo = w.todo \ {o}, !.clean = FALSE, !.error = "object"]
  <2>1. Retreat(r, u) /\ Spend("fault") /\ UNCHANGED <<obj, met, api, cache, queued, born>>
    BY <1>5 DEF DeletionFails
  <2> HIDE DEF w, o, mine
  <2>2. u \in Acting(r) /\ u.at = "teardown" /\ u.todo \subseteq Phases[r][u.phase]
    BY <1>1, <1>2 DEF Acting
  <2> HIDE DEF u
  <2>3. WorkOK'
    BY <2>1, <2>2, RetreatTyped DEF TypeInv
  <2>4. QED
    BY <2>1, <2>3, SpendTyped, SameApiTyped DEF TypeInv, Disturbances
<1>6. QED
  BY <1>4, <1>5

LEMMA NewStatusTyped ==
  ASSUME NEW r \in Revs, NEW w \in Acting(r)
  PROVE  NewStatus(r, w) \in StatusOf(r)
<1> DEFINE old == w.self.status
           Say(reason) == [old EXCEPT !.reason = reason, !.completed = old.completed \cup w.full]
<1>1. /\ old \in StatusOf(r) /\ old.completed \in SUBSET Spans(r)
      /\ w.full \in SUBSET Spans(r) /\ Spans(r) \subseteq Nat
  BY PhaseFacts DEF Acting, COSOf, COS, StatusOf, Spans
<1> HIDE DEF old
<1>2. ASSUME NEW reason \in Reasons
      PROVE  Say(reason) \in StatusOf(r) /\ [old EXCEPT !.reason = reason] \in StatusOf(r)
  BY <1>1 DEF StatusOf, Statuses
<1>3. /\ [old EXCEPT !.reason = "InternalError", !.completed = {}] \in StatusOf(r)
      /\ [Say("Available") EXCEPT !.done = TRUE] \in StatusOf(r)
  <2>1. "InternalError" \in Reasons /\ "Available" \in Reasons
    BY DEF Reasons
  <2>2. Say("Available") \in StatusOf(r)
    BY <1>2, <2>1
  <2> HIDE DEF Say
  <2>3. QED
    BY <1>1, <2>1, <2>2 DEF StatusOf, Statuses
<1>4. w.error \in {"none", "object", "resolution", "internal"}
  BY DEF Acting
<1>5. NewStatus(r, w) \in
        {[old EXCEPT !.reason = "Invalid"], [old EXCEPT !.reason = "Superseded"],
         [old EXCEPT !.reason = "InternalError", !.completed = {}],
         Say("ReconcileError"), Say("TeardownError"), Say("TornDown"), Say("TearingDown"),
         [Say("Available") EXCEPT !.done = TRUE], Say("Unavailable")}
  BY <1>4 DEF NewStatus, old
<1> HIDE DEF Say
<1>6. {"Invalid", "Superseded", "ReconcileError", "TeardownError", "TornDown", "TearingDown",
       "Unavailable"} \subseteq Reasons
  BY DEF Reasons
<1>7. QED
  BY <1>2, <1>3, <1>5, <1>6

LEMMA UpdateStatusTyped ==
  ASSUME TypeInv, NEW r \in Revs, UpdateStatus(r)
  PROVE  TypeInv'
<1> DEFINE w == work[r]
           c == [w.self EXCEPT !.status = NewStatus(r, w)]
           refused == c # w.self /\ (r \notin DOMAIN cos \/ cos[r] # w.self)
<1>1. w \in Acting(r) /\ w.self \in COSOf(r)
  BY WorkerIs DEF TypeInv, WorkOK, UpdateStatus, Busy, Acting
<1>2. c \in COSOf(r)
  BY <1>1, NewStatusTyped, ReportedIs
<1> HIDE DEF c
<1>3. /\ IF c # w.self /\ ~refused THEN Put(Store(cos, r, c)) ELSE UNCHANGED api
      /\ \/ Become(r, [at |-> "release", self |-> c]) /\ UNCHANGED queued
         \/ \E b \in BOOLEAN : End(r, b)
      /\ UNCHANGED <<obj, met, cache, budget, born>>
  <2>1. (refused \/ w.error # "none" \/ ~IsActive(c)) \in BOOLEAN
    OBVIOUS
  <2>2. QED
    BY <2>1 DEF UpdateStatus, c
<1>4. ApiOK'
  BY <1>2, <1>3, StoreListed, PutTyped, SameApiTyped DEF TypeInv, ApiOK
<1>5. WorkOK' /\ queued' \subseteq Revs
  <2>1. [at |-> "release", self |-> c] \in WorkersOf(r)
    BY <1>2, IdleTyped
  <2>2. QED
    BY <1>3, <2>1, BecomeTyped, EndTyped DEF TypeInv
<1>6. QED
  BY <1>3, <1>4, <1>5 DEF TypeInv

LEMMA ReleaseTyped ==
  ASSUME TypeInv, NEW r \in Revs, Release(r)
  PROVE  TypeInv'
<1> DEFINE c == work[r].self
           g == Store(cos, r, [c EXCEPT !.finalizer = FALSE])
<1>1. c \in COSOf(r)
  BY WorkerIs DEF TypeInv, WorkOK, Release
<1>2. [c EXCEPT !.finalizer = FALSE] \in COSOf(r)
  BY <1>1, FinalizedIs
<1>3. g \in Listings
  BY <1>2, StoreListed DEF TypeInv, ApiOK
<1>4. Settled(g, r) \in Listings
  BY <1>3, SettledListed
<1> HIDE DEF g
<1>5. CASE r \in DOMAIN cos /\ cos[r] = c
  BY <1>4, <1>5, PutTyped, IdleTyped, BecomeTyped DEF Release, TypeInv, g
<1>6. CASE ~(r \in DOMAIN cos /\ cos[r] = c)
  BY <1>6, SameApiTyped, EndTyped DEF Release, TypeInv
<1>7. QED
  BY <1>5, <1>6

LEMMA EndingTyped ==
  ASSUME TypeInv, NEW r \in Revs, AwaitRemoval(r) \/ Fail(r)
  PROVE  TypeInv'
<1>1. CASE AwaitRemoval(r)
  BY <1>1, EndTyped, SameApiTyped DEF AwaitRemoval, TypeInv
<1>2. CASE Fail(r)
  BY <1>2, EndTyped, SameApiTyped, SpendTyped DEF Fail, TypeInv, Disturbances
<1>3. QED
  BY <1>1, <1>2

LEMMA RequestTyped ==
  ASSUME TypeInv, NEW r \in Revs, Request(r)
  PROVE  TypeInv'
<1>1. CASE CreateRevision(r)
  <2>1. Store(cos, r, NewCOS) \in Listings
    BY NewIs, StoreListed DEF TypeInv, ApiOK
  <2>2. QED
    BY <1>1, <2>1, PutTyped DEF CreateRevision, TypeInv, WorkOK
<1>2. CASE Archive(r)
  <2>1. [cos[r] EXCEPT !.archived = TRUE] \in COSOf(r)
    BY <1>2, ListingIs, ArchivedIs DEF Archive, TypeInv, ApiOK
  <2>2. Store(cos, r, [cos[r] EXCEPT !.archived = TRUE]) \in Listings
    BY <2>1, StoreListed DEF TypeInv, ApiOK
  <2>3. budget' \in [Disturbances -> Nat]
    BY <1>2, SpendTyped DEF Archive, TypeInv, Disturbances
  <2>4. QED
    BY <1>2, <2>2, <2>3, PutTyped DEF Archive, TypeInv, WorkOK
<1>3. CASE FinishOrphaning(r)
  BY <1>3, WithoutListed, PutTyped DEF FinishOrphaning, TypeInv, ApiOK, WorkOK
<1>4. ASSUME NEW orphan \in BOOLEAN, Delete(r, orphan)
      PROVE  TypeInv'
  <2> DEFINE d == [cos[r] EXCEPT !.deleting = TRUE, !.orphan = orphan]
  <2>1. d \in COSOf(r)
    BY <1>4, ListingIs, DeletedIs DEF Delete, TypeInv, ApiOK
  <2> HIDE DEF d
  <2>2. Store(cos, r, d) \in Listings
    BY <2>1, StoreListed DEF TypeInv, ApiOK
  <2>3. Settled(Store(cos, r, d), r) \in Listings
    BY <2>2, SettledListed
  <2>4. QED
    BY <1>4, <2>3, PutTyped, SpendTyped DEF Delete, TypeInv, WorkOK, Disturbances, d
<1>5. QED
  BY <1>1, <1>2, <1>3, <1>4 DEF Request

\* What others make of an object.
Changed(o) ==
  {Absent} \cup {[obj[o] EXCEPT !.dying = TRUE], [obj[o] EXCEPT !.content = Other],
                 [obj[o] EXCEPT !.ready = TRUE], [obj[o] EXCEPT !.ready = FALSE],
                 [obj[o] EXCEPT !.holder = Unowned]}
           \cup {[Absent EXCEPT !.holder = who, !.ready = o \notin Gates] : who \in Nobody}

LEMMA HappeningIs ==
  ASSUME NEW o \in Objects, Happening(o)
  PROVE  /\ \E x \in Changed(o) : Change(o, x)
         /\ budget' = budget \/ \E kind \in Disturbances : Spend(kind)
BY DEF Happening, OrphanObject, Vanish, OpenGate, CloseGate, DriftObject, RemoveObject,
       CreateForeign, ClearForeign, Changed, Disturbances

LEMMA HappeningTyped ==
  ASSUME TypeInv, NEW o \in Objects, Happening(o)
  PROVE  TypeInv'
<1>1. PICK x \in Changed(o) : Change(o, x)
  BY HappeningIs
<1>2. x \in Thing
  <2>1. obj \in [Objects -> Thing]
    BY DEF TypeInv
  <2>2. QED
    BY <2>1, ThingIs, Zenon DEF Changed
<1>3. budget' \in [Disturbances -> Nat]
  BY HappeningIs, SpendTyped DEF TypeInv
<1>4. QED
  BY <1>1, <1>2, <1>3, SetObjectTyped, WokenTyped, SameApiTyped DEF Change, TypeInv, WorkOK

LEMMA DeliverTyped == TypeInv /\ DeliverCOS => TypeInv'
<1> SUFFICES ASSUME TypeInv, DeliverCOS PROVE TypeInv'
  OBVIOUS
<1>1. Head(stream) \in Listings /\ Tail(stream) \in Seq(Listings)
  BY DEF DeliverCOS, TypeInv, ApiOK
<1>2. queued' \subseteq Revs
  <2>1. DOMAIN cache \subseteq Revs /\ DOMAIN cache' \subseteq Revs
    BY <1>1, ListingIs DEF DeliverCOS, TypeInv
  <2>2. queued' \subseteq queued \cup DOMAIN cache \cup DOMAIN cache'
    BY DEF DeliverCOS
  <2>3. QED
    BY <2>1, <2>2 DEF TypeInv
<1>3. QED
  BY <1>1, <1>2 DEF DeliverCOS, TypeInv, ApiOK, WorkOK

LEMMA CrashTyped == TypeInv /\ Crash => TypeInv'
<1> SUFFICES ASSUME TypeInv, Crash PROVE TypeInv'
  OBVIOUS
<1>1. WorkOK'
  BY IdleTyped DEF Crash, WorkOK
<1>2. DOMAIN cos \subseteq Revs
  BY ListingIs DEF TypeInv, ApiOK
<1>3. QED
  BY <1>1, <1>2, SpendTyped DEF Crash, TypeInv, ApiOK, Disturbances

LEMMA NextTyped == TypeInv /\ [Next]_vars => TypeInv'
<1> SUFFICES ASSUME TypeInv, [Next]_vars PROVE TypeInv'
  OBVIOUS
<1>1. ASSUME NEW r \in Revs, Work(r) PROVE TypeInv'
  BY <1>1, BeginTyped, EnsureFinalizerTyped, ReconcileObjectTyped, TeardownObjectTyped,
     UpdateStatusTyped, ReleaseTyped, EndingTyped DEF Work
<1>2. ASSUME NEW r \in Revs, Mishap(r) PROVE TypeInv'
  BY <1>2, BeginTyped, ReconcileObjectTyped, TeardownObjectTyped, EndingTyped DEF Mishap
<1>3. CASE UNCHANGED vars
  BY <1>3 DEF vars, api, TypeInv, ApiOK, WorkOK
<1>4. QED
  BY <1>1, <1>2, <1>3, RequestTyped, HappeningTyped, DeliverTyped, CrashTyped DEF Next

\* Statuses name only phases the revision has, and what a worker in a phase
\* has still to do belongs to that phase (Engine.Reconcile, Engine.Teardown).
THEOREM TypeInvariant == Spec => []TypeInv
BY InitTyped, NextTyped, PTL DEF Spec

LEMMA TypeInvIsTypeOK == TypeInv => TypeOK
<1> SUFFICES ASSUME TypeInv PROVE TypeOK
  OBVIOUS
<1>1. \A g \in Listings : IsListing(g)
  BY ListingIs DEF IsListing, COSOf
<1>2. IsListing(cos) /\ IsListing(cache) /\ \A i \in DOMAIN stream : IsListing(stream[i])
  BY <1>1 DEF TypeInv, ApiOK
<1>3. ASSUME NEW r \in Revs
      PROVE  /\ work[r] \in Workers
             /\ work[r].at \in {"objects", "teardown"} =>
                  work[r].phase \in 1 .. Last(r) /\ work[r].todo # {}
  <2>1. work[r] \in WorkersOf(r)
    BY DEF TypeInv, WorkOK
  <2>2. CASE work[r] \in Waiting
    BY <2>2 DEF Waiting, Workers
  <2>3. CASE work[r] \in Releasing(r)
    BY <2>3 DEF Releasing, Workers, COSOf
  <2>4. CASE work[r] \in Busy(r)
    <3>1. Spans(r) \subseteq Nat
      BY PhaseFacts DEF Spans
    <3>2. work[r] \in [at : {"finalizer", "objects", "teardown", "report"}, self : COS,
              siblings : SUBSET Revs, pass : {"gated", "drift"}, phase : Nat,
              todo : SUBSET Objects, clean : BOOLEAN, moved : BOOLEAN, full : SUBSET Nat,
              error : {"none", "object", "resolution", "internal"}]
      BY <2>4, <3>1 DEF Busy, Acting, COSOf
    <3>3. QED
      BY <2>4, <3>2 DEF Workers, Busy, Acting, Spans
  <2>5. QED
    BY <2>1, <2>2, <2>3, <2>4 DEF WorkersOf
<1>4. QED
  BY <1>2, <1>3 DEF TypeInv, TypeOK, Thing

\* Every variable has its type, and a worker in a phase has an object to look
\* at: an end of a phase is never taken for an object (Engine.Reconcile).
THEOREM TypeCorrect == Spec => []TypeOK
BY TypeInvariant, TypeInvIsTypeOK, PTL

-----------------------------------------------------------------------------
(* What the listings tell, however old: the API server's, the cache's and  *)
(* those on their way to it.                                               *)

Views == {cos, cache} \cup {stream[i] : i \in DOMAIN stream}

ActiveIn(g, r) == r \in DOMAIN g /\ IsActive(g[r])
RetiredIn(g, r) == r \in DOMAIN g /\ ~IsActive(g[r])
NoActive(r) == r \in born /\ \A g \in Views : ~ActiveIn(g, r)

\* Retired so that its objects are to be deleted.
Meant(c) == c.archived \/ (c.deleting /\ ~c.orphan)
IsMeant(r) == r \in born /\ (r \in DOMAIN cos => Meant(cos[r]))

Protected(r) == r \in DOMAIN cos /\ cos[r].finalizer

\* Revisions are not created twice and stay retired once they are; an active
\* one that has its finalizer anywhere still has it.
LagInv ==
  /\ \A g \in Views : DOMAIN g \subseteq born
  /\ \A r \in Revs : RetiredIn(cache, r) => NoActive(r)
  /\ \A i \in DOMAIN stream : \A r \in Revs : RetiredIn(stream[i], r) =>
       ~ActiveIn(cos, r) /\ \A j \in DOMAIN stream : j > i => ~ActiveIn(stream[j], r)
  /\ \A g \in Views : \A r \in Revs : ActiveIn(g, r) /\ g[r].finalizer => Protected(r)
  /\ \A g \in Views : \A r \in DOMAIN g : Meant(g[r]) => IsMeant(r)

\* Only the worker of a revision takes its finalizer off.
MayRelease(r) == NoActive(r) /\ work[r].at = "release"

\* What a write makes of the group.
Follows(g) ==
  /\ DOMAIN g \subseteq born' /\ born \subseteq born'
  /\ \A q \in DOMAIN g : q \in DOMAIN cos \/ q \notin born
  /\ \A q \in DOMAIN g \cap DOMAIN cos :
       (IsActive(g[q]) => IsActive(cos[q])) /\ (Meant(cos[q]) => Meant(g[q]))
  /\ \A q \in DOMAIN cos : cos[q].finalizer =>
       (q \in DOMAIN g /\ g[q].finalizer) \/ MayRelease(q)

LEMMA AppendIs ==
  ASSUME stream \in Seq(Listings), NEW g \in Listings, stream' = Append(stream, g)
  PROVE  /\ DOMAIN stream' = DOMAIN stream \cup {Len(stream) + 1}
         /\ \A i \in DOMAIN stream : stream'[i] = stream[i] /\ i < Len(stream) + 1
         /\ stream'[Len(stream) + 1] = g
         /\ DOMAIN stream \subseteq Nat /\ Len(stream) \in Nat
         /\ \A i \in DOMAIN stream : i # Len(stream) + 1
BY DEF Listings

\* The listings after a write.
LEMMA PutViews ==
  ASSUME TypeInv, NEW g \in Listings, Put(g), UNCHANGED cache
  PROVE  cos' = g /\ Views' \subseteq Views \cup {g} /\ (\A v \in Views : v # cos => v \in Views')
<1>1. CASE g = cos
  BY <1>1 DEF Put, api, Views
<1>2. CASE g # cos
  BY <1>2, AppendIs DEF Put, TypeInv, ApiOK, Views
<1>3. QED
  BY <1>1, <1>2

LEMMA NoActiveStays ==
  ASSUME TypeInv, LagInv, NEW g \in Listings, Put(g), Follows(g), UNCHANGED cache,
         NEW r \in Revs, NoActive(r)
  PROVE  NoActive(r)'
<1>1. cos' = g /\ Views' \subseteq Views \cup {g}
  BY PutViews
<1>2. r \in born /\ ~ActiveIn(cos, r)
  BY DEF NoActive, Views
<1>3. ~ActiveIn(g, r)
  BY <1>2 DEF Follows, ActiveIn
<1>4. \A v \in Views : ~ActiveIn(v, r)
  BY DEF NoActive
<1>5. \A v \in Views' : ~ActiveIn(v, r)
  BY <1>1, <1>3, <1>4
<1>6. r \in born'
  BY <1>2 DEF Follows
<1>7. QED
  BY <1>5, <1>6 DEF NoActive, ActiveIn

LEMMA MeantStays ==
  ASSUME TypeInv, NEW g \in Listings, Put(g), Follows(g), UNCHANGED cache,
         NEW r \in Revs, IsMeant(r)
  PROVE  IsMeant(r)'
<1>1. cos' = g
  BY PutViews
<1>2. QED
  BY <1>1 DEF IsMeant, Follows

LEMMA ProtectedStays ==
  ASSUME TypeInv, NEW g \in Listings, Put(g), Follows(g), UNCHANGED cache,
         NEW r \in Revs, Protected(r)
  PROVE  Protected(r)' \/ MayRelease(r)
<1>1. cos' = g
  BY PutViews
<1>2. QED
  BY <1>1 DEF Protected, Follows

LEMMA PutLag ==
  ASSUME TypeInv, LagInv, NEW g \in Listings, Put(g), Follows(g), UNCHANGED cache
  PROVE  LagInv'
<1>1. cos' = g /\ Views' \subseteq Views \cup {g}
  BY PutViews
<1>2. \A v \in Views' : DOMAIN v \subseteq born'
  BY <1>1 DEF LagInv, Follows
<1>3. \A r \in Revs : RetiredIn(cache', r) => NoActive(r)'
  BY NoActiveStays DEF LagInv, RetiredIn
<1>4. ASSUME NEW i \in DOMAIN stream', NEW r \in Revs, RetiredIn(stream'[i], r)
      PROVE  /\ ~ActiveIn(cos', r)
             /\ \A j \in DOMAIN stream' : j > i => ~ActiveIn(stream'[j], r)
  <2>1. CASE g = cos
    BY <1>4, <2>1 DEF Put, api, LagInv
  <2>2. CASE g # cos
    <3>1. stream \in Seq(Listings) /\ stream' = Append(stream, g)
      BY <2>2 DEF Put, TypeInv, ApiOK
    <3>2. CASE i = Len(stream) + 1
      <4>1. stream'[i] = g
        BY <3>1, <3>2, AppendIs
      <4>2. \A j \in DOMAIN stream' : ~(j > i)
        BY <3>1, <3>2, AppendIs
      <4>3. QED
        BY <1>1, <1>4, <4>1, <4>2 DEF RetiredIn, ActiveIn
    <3>3. CASE i \in DOMAIN stream
      <4>1. stream'[i] = stream[i]
        BY <3>1, <3>3, AppendIs
      <4>2. /\ ~ActiveIn(cos, r) /\ r \in born
            /\ \A j \in DOMAIN stream : j > i => ~ActiveIn(stream[j], r)
        BY <1>4, <3>3, <4>1 DEF LagInv, RetiredIn, Views
      <4>3. ~ActiveIn(g, r)
        BY <4>2 DEF Follows, ActiveIn
      <4>4. ASSUME NEW j \in DOMAIN stream', j > i PROVE ~ActiveIn(stream'[j], r)
        BY <3>1, <4>2, <4>3, <4>4, AppendIs
      <4>5. QED
        BY <1>1, <4>3, <4>4
    <3>4. QED
      BY <3>1, <3>2, <3>3, AppendIs
  <2>3. QED
    BY <2>1, <2>2
<1>5. ASSUME NEW v \in Views', NEW r \in Revs, ActiveIn(v, r), v[r].finalizer
      PROVE  Protected(r)'
  <2>1. CASE v = g
    BY <1>1, <1>5, <2>1 DEF Protected, ActiveIn
  <2>2. CASE v \in Views
    BY <1>5, <2>2, ProtectedStays DEF LagInv, MayRelease, NoActive
  <2>3. QED
    BY <1>1, <2>1, <2>2
<1>6. ASSUME NEW v \in Views', NEW r \in DOMAIN v, Meant(v[r])
      PROVE  IsMeant(r)'
  <2>1. CASE v = g
    BY <1>1, <1>2, <1>6, <2>1 DEF IsMeant
  <2>2. CASE v \in Views
    <3>1. IsMeant(r)
      BY <1>6, <2>2 DEF LagInv
    <3>2. r \in Revs
      BY <3>1 DEF IsMeant, TypeInv
    <3>3. QED
      BY <3>1, <3>2, MeantStays
  <2>3. QED
    BY <1>1, <2>1, <2>2
<1>7. QED
  BY <1>2, <1>3, <1>4, <1>5, <1>6 DEF LagInv, RetiredIn, ActiveIn, Meant, IsActive

LEMMA StoreFollows ==
  ASSUME TypeInv, LagInv, NEW r \in Revs, r \in DOMAIN cos, NEW c \in COSOf(r),
         IsActive(c) => IsActive(cos[r]), Meant(cos[r]) => Meant(c),
         cos[r].finalizer => c.finalizer \/ MayRelease(r), born' = born
  PROVE  Follows(Store(cos, r, c))
<1>1. DOMAIN cos \subseteq born /\ cos \in Listings
  BY DEF LagInv, Views, TypeInv, ApiOK
<1> DEFINE g == Store(cos, r, c)
<1>2. DOMAIN g = DOMAIN cos /\ g[r] = c /\ \A q \in DOMAIN cos : q # r => g[q] = cos[q]
  BY DEF Store
<1> HIDE DEF g
<1>3. Follows(g)
  BY <1>1, <1>2 DEF Follows
<1>4. QED
  BY <1>3 DEF g

LEMMA WithoutFollows ==
  ASSUME TypeInv, LagInv, NEW r \in Revs, r \in DOMAIN cos,
         cos[r].finalizer => MayRelease(r), born' = born
  PROVE  Follows(Without(cos, r))
<1>1. DOMAIN cos \subseteq born /\ cos \in Listings
  BY DEF LagInv, Views, TypeInv, ApiOK
<1> DEFINE g == Without(cos, r)
<1>2. DOMAIN g = DOMAIN cos \ {r} /\ \A q \in DOMAIN cos : q # r => g[q] = cos[q]
  BY <1>1, WithoutListed
<1> HIDE DEF g
<1>3. Follows(g)
  BY <1>1, <1>2 DEF Follows
<1>4. QED
  BY <1>3 DEF g

\* Storing a revision that may go at once.
LEMMA SettledFollows ==
  ASSUME TypeInv, LagInv, NEW r \in Revs, r \in DOMAIN cos, NEW c \in COSOf(r),
         IsActive(c) => IsActive(cos[r]), Meant(cos[r]) => Meant(c),
         cos[r].finalizer => c.finalizer \/ MayRelease(r), born' = born
  PROVE  Follows(Settled(Store(cos, r, c), r)) /\ Settled(Store(cos, r, c), r) \in Listings
<1> DEFINE g == Store(cos, r, c)
<1>1. cos \in Listings
  BY DEF TypeInv, ApiOK
<1>2. g \in Listings /\ g[r] = c /\ DOMAIN g = DOMAIN cos
      /\ \A q \in DOMAIN cos : q # r => g[q] = cos[q]
  BY <1>1, StoreListed
<1>3. Follows(g)
  BY StoreFollows
<1>4. Settled(g, r) \in Listings
  BY <1>2, SettledListed
<1> HIDE DEF g
<1>5. CASE c.deleting /\ ~c.finalizer /\ ~c.orphan
  <2>1. Settled(g, r) = Without(g, r)
    BY <1>2, <1>5 DEF Settled
  <2>2. Without(g, r) = Without(cos, r)
    BY <1>2 DEF Without
  <2>3. Follows(Without(cos, r))
    BY <1>5, WithoutFollows
  <2>4. QED
    BY <1>4, <2>1, <2>2, <2>3 DEF g
<1>6. CASE ~(c.deleting /\ ~c.finalizer /\ ~c.orphan)
  <2>1. Settled(g, r) = g
    BY <1>2, <1>6 DEF Settled
  <2>2. QED
    BY <1>3, <1>4, <2>1 DEF g
<1>7. QED
  BY <1>5, <1>6

-----------------------------------------------------------------------------
(* Protection.  What a worker relies on, although it read its revision     *)
(* some time ago.                                                          *)

\* No object is the revision's, or none of the phases above the worker's.
Clear(r) == \A o \in Objects : obj[o].holder # r

ClearAbove(r, w) ==
  \A k \in Spans(r) : \A o \in Phases[r][k] : k > w.phase => obj[o].holder # r

\* Nor of the objects of its own phase the worker is done with.
ClearBehind(r, w) ==
  \A k \in Spans(r) : \A o \in Phases[r][k] :
    k > w.phase \/ (k = w.phase /\ o \notin w.todo) => obj[o].holder # r

WorkerInv(r, w) ==
  /\ w.at \in {"finalizer", "objects", "teardown", "report", "release"} /\ ~IsActive(w.self)
       => NoActive(r)
  /\ w.at = "objects" => IsActive(w.self) /\ Protected(r)
  /\ w.at = "teardown" =>
       /\ ~IsActive(w.self) /\ Meant(w.self) /\ IsMeant(r) /\ ClearAbove(r, w)
       /\ w.clean => w.error = "none" /\ ClearBehind(r, w)
  /\ w.at = "report" /\ ~IsActive(w.self) /\ w.clean /\ w.error = "none" => Clear(r)
  /\ w.at = "release" => ~IsActive(w.self) /\ (Orphaning(w.self) \/ Clear(r))

HeldInv == \A o \in Objects : obj[o].holder \in Revs => o \in Manages(obj[o].holder)

SafeInv == LagInv /\ HeldInv /\ NoLeak /\ \A r \in Revs : WorkerInv(r, work[r])

\* What a step does to a revision when its own worker does not write for it.
Spares(r) ==
  /\ NoActive(r) => NoActive(r)'
  /\ IsMeant(r) => IsMeant(r)'
  /\ Protected(r) /\ work[r].at = "objects" => Protected(r)'
  /\ \A o \in Objects : obj'[o].holder = r => obj[o].holder = r

LEMMA SparedWorker ==
  ASSUME SafeInv, NEW r \in Revs, Spares(r), work'[r] = work[r]
  PROVE  WorkerInv(r, work[r])'
<1>1. WorkerInv(r, work[r])
  BY DEF SafeInv
<1>2. /\ ClearBehind(r, work[r]) => ClearBehind(r, work[r])'
      /\ ClearAbove(r, work[r]) => ClearAbove(r, work[r])'
  <2>1. \A k \in Spans(r) : \A o \in Phases[r][k] : o \in Objects
    BY PhaseFacts
  <2>2. QED
    BY <2>1 DEF ClearBehind, ClearAbove, Spares, Spans, Last
<1>3. Clear(r) => Clear(r)'
  BY DEF Clear, Spares
<1>4. QED
  BY <1>1, <1>2, <1>3 DEF WorkerInv, Spares, IsActive, Orphaning, Meant

LEMMA NothingSpares ==
  ASSUME UNCHANGED <<api, cache, born>>, NEW r \in Revs
  PROVE  /\ NoActive(r) => NoActive(r)'
         /\ IsMeant(r) => IsMeant(r)'
         /\ Protected(r) => Protected(r)'
BY DEF api, NoActive, IsMeant, Protected, Views, ActiveIn, Meant, IsActive

LEMMA LagStays ==
  ASSUME LagInv, UNCHANGED <<api, cache, born>>
  PROVE  LagInv'
BY DEF api, LagInv, NoActive, IsMeant, Protected, Views, ActiveIn, RetiredIn, Meant, IsActive

LEMMA PutSpares ==
  ASSUME TypeInv, SafeInv, NEW g \in Listings, Put(g), Follows(g), UNCHANGED cache,
         NEW r \in Revs
  PROVE  /\ NoActive(r) => NoActive(r)'
         /\ IsMeant(r) => IsMeant(r)'
         /\ Protected(r) /\ work[r].at = "objects" => Protected(r)'
<1>1. NoActive(r) => NoActive(r)'
  BY NoActiveStays DEF SafeInv
<1>2. IsMeant(r) => IsMeant(r)'
  BY MeantStays
<1>3. ASSUME Protected(r), work[r].at = "objects" PROVE Protected(r)'
  BY <1>3, ProtectedStays DEF MayRelease
<1>4. QED
  BY <1>1, <1>2, <1>3

\* Whoever an object names as its controller protects it.
Sheltered(r) == r \in DOMAIN cos /\ (cos[r].finalizer \/ Orphaning(cos[r]))

\* A step in which at most the worker of r moves.
LEMMA StepSafe ==
  ASSUME TypeInv, SafeInv, LagInv', NEW r \in Revs,
         \A q \in Revs : /\ NoActive(q) => NoActive(q)'
                         /\ IsMeant(q) => IsMeant(q)'
                         /\ Protected(q) /\ work[q].at = "objects" => Protected(q)'
                         /\ ~Clear(q) /\ Sheltered(q) => Sheltered(q)'
                         /\ q # r => work'[q] = work[q],
         \A o \in Objects : \/ obj'[o].holder \notin Revs
                            \/ obj'[o].holder = obj[o].holder
                            \/ obj'[o].holder = r /\ o \in Manages(r) /\ Protected(r)',
         WorkerInv(r, work[r])'
  PROVE  SafeInv'
<1>1. ASSUME NEW o \in Objects, NEW h \in Revs, obj'[o].holder = h
      PROVE  o \in Manages(h) /\ Sheltered(h)'
  <2>1. CASE obj[o].holder = h
    <3>1. o \in Manages(h) /\ Sheltered(h) /\ ~Clear(h)
      BY <2>1 DEF SafeInv, HeldInv, NoLeak, Sheltered, Clear
    <3>2. QED
      BY <3>1
  <2>2. CASE h = r /\ o \in Manages(r) /\ Protected(r)'
    BY <2>2 DEF Protected, Sheltered
  <2>3. QED
    BY <1>1, <2>1, <2>2
<1>2. HeldInv' /\ NoLeak'
  BY <1>1 DEF HeldInv, NoLeak, Sheltered, Manages, Last
<1>3. ASSUME NEW q \in Revs PROVE WorkerInv(q, work[q])'
  <2>1. CASE q = r
    BY <2>1
  <2>2. CASE q # r
    <3>1. Spares(q)
      BY <2>2 DEF Spares
    <3>2. QED
      BY <2>2, <3>1, SparedWorker
  <2>3. QED
    BY <2>1, <2>2
<1>4. QED
  BY <1>2, <1>3 DEF SafeInv

\* A step in which the API server, the cache and the objects stay as they are.
LEMMA QuietSafe ==
  ASSUME TypeInv, SafeInv, UNCHANGED <<api, cache, born, obj>>, NEW r \in Revs,
         WorkerInv(r, work'[r]), \A q \in Revs : q # r => work'[q] = work[q]
  PROVE  SafeInv'
<1>1. \A q \in Revs : /\ NoActive(q) => NoActive(q)'
                      /\ IsMeant(q) => IsMeant(q)'
                      /\ Protected(q) => Protected(q)'
                      /\ Sheltered(q) => Sheltered(q)'
  BY NothingSpares DEF Sheltered, api, Orphaning
<1>2. LagInv'
  BY LagStays DEF SafeInv
<1>3. /\ ClearBehind(r, work'[r]) => ClearBehind(r, work[r])'
      /\ ClearAbove(r, work'[r]) => ClearAbove(r, work[r])'
  BY DEF ClearBehind, ClearAbove, Spans, Last
<1>4. Clear(r) => Clear(r)'
  BY DEF Clear
<1>5. WorkerInv(r, work[r])'
  BY <1>1, <1>3, <1>4 DEF WorkerInv, IsActive, Orphaning, Meant
<1>6. QED
  BY <1>1, <1>2, <1>5, StepSafe

LEMMA IdleSafe ==
  ASSUME NEW r \in Revs
  PROVE  WorkerInv(r, Idle) /\ WorkerInv(r, [at |-> "wait"])
BY DEF WorkerInv, Idle

LEMMA WorkerFields ==
  ASSUME NEW r, NEW place, NEW k
  PROVE  /\ Worker(r, place, k).at = place
         /\ Worker(r, place, k).self = cache[r]
         /\ Worker(r, place, k).phase = k
         /\ Worker(r, place, k).todo = Phases[r][k]
         /\ Worker(r, place, k).error = "none"
BY DEF Worker

\* What a reconcile begins with.
LEMMA OpeningSafe ==
  ASSUME TypeInv, SafeInv, NEW r \in Revs
  PROVE  WorkerInv(r, Opening(r))
<1>1. CASE r \notin DOMAIN cache
  BY <1>1, IdleSafe DEF Opening
<1>2. CASE r \in DOMAIN cache
  <2> DEFINE c == cache[r]
  <2>1. /\ c.finalizer \in BOOLEAN /\ c.archived \in BOOLEAN
        /\ c.deleting \in BOOLEAN /\ c.orphan \in BOOLEAN
    BY <1>2, ListingIs DEF TypeInv, COSOf, COS
  <2>2. ~IsActive(c) => NoActive(r)
    BY <1>2 DEF SafeInv, LagInv, RetiredIn
  <2>3. IsActive(c) /\ c.finalizer => Protected(r)
    BY <1>2 DEF SafeInv, LagInv, Views, ActiveIn
  <2>4. Meant(c) => IsMeant(r)
    BY <1>2 DEF SafeInv, LagInv, Views
  <2>5. CASE IsActive(c) /\ ~c.finalizer
    <3>1. PICK w : w = Worker(r, "finalizer", 1)
      OBVIOUS
    <3>2. w.at = "finalizer" /\ w.self = c /\ w.phase = 1 /\ w.todo = Phases[r][1]
      BY <3>1, WorkerFields
    <3>3. Opening(r) = w
      BY <1>2, <2>5, <3>1 DEF Opening
    <3>4. QED
      BY <2>5, <3>3, <3>2 DEF WorkerInv
  <2>6. CASE IsActive(c) /\ c.finalizer
    <3>1. PICK w : w = Worker(r, "objects", 1)
      OBVIOUS
    <3>2. w.at = "objects" /\ w.self = c /\ w.phase = 1 /\ w.todo = Phases[r][1]
      BY <3>1, WorkerFields
    <3>3. Opening(r) = w
      BY <1>2, <2>1, <2>6, <3>1 DEF Opening, Orphaning, IsActive
    <3>4. QED
      BY <2>3, <2>6, <3>2, <3>3 DEF WorkerInv
  <2>7. CASE ~IsActive(c) /\ ~c.finalizer
    <3>1. Opening(r) = Idle
      BY <1>2, <2>7 DEF Opening, Orphaning
    <3>2. QED
      BY <3>1, IdleSafe
  <2>8. CASE ~IsActive(c) /\ c.finalizer /\ Orphaning(c)
    <3>1. Opening(r) = [at |-> "release", self |-> c]
      BY <1>2, <2>8 DEF Opening
    <3>2. QED
      BY <2>2, <2>8, <3>1 DEF WorkerInv
  <2>9. CASE ~IsActive(c) /\ c.finalizer /\ ~Orphaning(c)
    <3>1. PICK w : w = Worker(r, "teardown", Last(r))
      OBVIOUS
    <3>2. w.at = "teardown" /\ w.self = c /\ w.phase = Last(r) /\ w.todo = Phases[r][Last(r)]
          /\ w.error = "none"
      BY <3>1, WorkerFields
    <3>3. Opening(r) = w
      BY <1>2, <2>9, <3>1 DEF Opening
    <3>4. ClearBehind(r, w) /\ ClearAbove(r, w)
      <4>1. \A k \in Spans(r) : ~(k > Last(r))
        BY PhaseFacts DEF Spans
      <4>2. QED
        BY <4>1, <3>2 DEF ClearBehind, ClearAbove
    <3>5. Meant(c)
      BY <2>1, <2>9 DEF Meant, IsActive, Orphaning
    <3>6. QED
      BY <2>2, <2>4, <2>9, <3>2, <3>3, <3>4, <3>5 DEF WorkerInv
  <2>10. QED
    BY <2>1, <2>5, <2>6, <2>7, <2>8, <2>9
<1>3. QED
  BY <1>1, <1>2

LEMMA ReportFields ==
  ASSUME NEW r, NEW w \in Acting(r), NEW full
  PROVE  /\ Report(w, full).at = "report"
         /\ Report(w, full).self = w.self
         /\ Report(w, full).clean = w.clean
         /\ Report(w, full).error = w.error
         /\ Report(w, full).full = full
BY DEF Report, Acting

LEMMA BeginSafe ==
  ASSUME TypeInv, SafeInv, NEW r \in Revs,
         Begin(r) \/ \E kind \in {"resolution", "internal"} : BeginFails(r, kind)
  PROVE  SafeInv'
<1>1. CASE Begin(r)
  <2>1. work'[r] = Opening(r) /\ \A q \in Revs : q # r => work'[q] = work[q]
    BY <1>1, OpeningTyped, BecomeTyped DEF Begin, TypeInv
  <2>2. QED
    BY <1>1, <2>1, OpeningSafe, QuietSafe DEF Begin
<1>2. ASSUME NEW kind \in {"resolution", "internal"}, BeginFails(r, kind)
      PROVE  SafeInv'
  <2> DEFINE w == Opening(r)
             v == Report(w, {})
             u == [v EXCEPT !.error = kind]
  <2>1. w \in Acting(r) /\ w.at \in {"objects", "teardown"}
    BY <1>2, OpeningTyped DEF BeginFails, Busy
  <2>2. v.at = "report" /\ v.self = w.self /\ v \in Acting(r)
    BY <2>1, ReportFields, ReportTyped DEF Busy
  <2>3. WorkerInv(r, w)
    BY OpeningSafe
  <2>4. Become(r, u) /\ UNCHANGED <<obj, api, cache, born>>
    BY <1>2 DEF BeginFails
  <2> HIDE DEF v, w
  <2>5. u.at = "report" /\ u.self = v.self /\ u.error = kind /\ u \in Busy(r)
    BY <2>2 DEF Acting, Busy
  <2>6. WorkerInv(r, u)
    BY <2>1, <2>2, <2>3, <2>5 DEF WorkerInv
  <2> HIDE DEF u
  <2>7. work'[r] = u /\ \A q \in Revs : q # r => work'[q] = work[q]
    BY <2>4, <2>5, BecomeTyped DEF TypeInv, WorkersOf
  <2>8. QED
    BY <2>4, <2>6, <2>7, QuietSafe
<1>3. QED
  BY <1>1, <1>2

LEMMA EndingSafe ==
  ASSUME TypeInv, SafeInv, NEW r \in Revs, AwaitRemoval(r) \/ Fail(r)
  PROVE  SafeInv'
<1>1. work'[r] = Idle /\ \A q \in Revs : q # r => work'[q] = work[q]
  BY IdleTyped, BecomeTyped DEF AwaitRemoval, Fail, End, TypeInv
<1>2. UNCHANGED <<api, cache, born, obj>>
  BY DEF AwaitRemoval, Fail
<1>3. QED
  BY <1>1, <1>2, IdleSafe, QuietSafe

\* The worker at an object, and that object.
LEMMA AtObject ==
  ASSUME TypeInv, NEW r \in Revs, work[r].at \in {"objects", "teardown"}
  PROVE  /\ work[r] \in Acting(r) /\ work[r] \in Busy(r)
         /\ Min(work[r].todo) \in Objects /\ Min(work[r].todo) \in work[r].todo
         /\ Min(work[r].todo) \in Manages(r)
         /\ work[r].todo \subseteq Phases[r][work[r].phase] /\ work[r].phase \in Spans(r)
<1>1. work[r] \in Busy(r) /\ work[r] \in Acting(r)
  BY WorkerIs DEF TypeInv, WorkOK, Busy
<1>2. /\ Min(work[r].todo) \in work[r].todo /\ Min(work[r].todo) \in Objects
      /\ work[r].todo \subseteq Phases[r][work[r].phase] /\ work[r].phase \in Spans(r)
  BY <1>1, LeastTodo
<1>3. QED
  BY <1>1, <1>2 DEF Manages, Spans

\* Where a worker goes from an object it keeps its copy of the revision.
LEMMA AdvanceKeeps ==
  ASSUME WorkOK, NEW r \in Revs, NEW w \in Acting(r), w.at = "objects",
         w.todo \subseteq Phases[r][w.phase], Advance(r, w)
  PROVE  /\ work'[r].self = w.self /\ work'[r].at \in {"objects", "report"}
         /\ \A q \in Revs : q # r => work'[q] = work[q]
<1>1. NextPhase(r, w) \in Busy(r)
  BY NextPhaseTyped
<1>2. w.todo # {} => w \in Busy(r)
  BY DEF Busy
<1>3. /\ work'[r] = IF w.todo = {} THEN NextPhase(r, w) ELSE w
      /\ \A q \in Revs : q # r => work'[q] = work[q]
  BY <1>1, <1>2, BecomeTyped DEF Advance, WorkersOf
<1>4. NextPhase(r, w).self = w.self /\ NextPhase(r, w).at \in {"objects", "report"}
  <2> DEFINE full == w.full \cup (IF w.clean THEN {w.phase} ELSE {})
             Go(pass) == [w EXCEPT !.pass = pass, !.phase = w.phase + 1,
                            !.todo = Phases[r][w.phase + 1], !.clean = TRUE, !.full = full]
             last == [w EXCEPT !.moved = w.moved /\ w.pass = "gated" /\ w.phase = Last(r)]
  <2>1. last \in Acting(r) /\ last.self = w.self
    BY DEF Acting
  <2>2. \A pass : Go(pass).self = w.self /\ Go(pass).at = "objects"
    BY DEF Acting
  <2>3. \A fs : /\ Report(w, fs).self = w.self /\ Report(w, fs).at = "report"
                /\ Report(last, fs).self = w.self /\ Report(last, fs).at = "report"
    <3> HIDE DEF last
    <3>1. QED
      BY <2>1, ReportFields
  <2>4. NextPhase(r, w) \in {Report(w, full), Go("gated"), Go("drift"),
                             Report(last, full \cup Glimpse(r, w))}
    BY DEF NextPhase
  <2> HIDE DEF full, Go, last
  <2>5. QED
    BY <2>2, <2>3, <2>4
<1>5. QED
  BY <1>3, <1>4

LEMMA ReconcileObjectSafe ==
  ASSUME TypeInv, SafeInv, NEW r \in Revs, ReconcileObject(r) \/ WriteFails(r)
  PROVE  SafeInv'
<1> DEFINE w == work[r]
           o == Min(w.todo)
           v == Verdict(r, w.siblings, obj[o])
           x == IF v = "write" THEN Desired(r, o) ELSE obj[o]
<1>1. /\ w \in Acting(r) /\ w.at = "objects" /\ o \in Objects /\ o \in Manages(r)
      /\ w.todo \subseteq Phases[r][w.phase]
  BY AtObject DEF ReconcileObject, WriteFails
<1>2. IsActive(w.self) /\ Protected(r)
  BY <1>1 DEF SafeInv, WorkerInv
<1>3. UNCHANGED <<api, cache, born>>
  BY DEF ReconcileObject, WriteFails
<1>4. \E u \in Acting(r) : /\ u.at = "objects" /\ u.self = w.self /\ Advance(r, u)
                           /\ u.todo \subseteq Phases[r][u.phase]
  <2>1. CASE ReconcileObject(r)
    <3> DEFINE u == [w EXCEPT !.todo = w.todo \ {o}, !.clean = w.clean /\ Fits(r, w.siblings, x),
                              !.moved = w.moved /\ v = "progressed"]
    <3>1. Advance(r, u)
      BY <2>1 DEF ReconcileObject
    <3>2. (w.clean /\ Fits(r, w.siblings, x)) \in BOOLEAN /\ (w.moved /\ v = "progressed") \in BOOLEAN
      BY <1>1 DEF Acting
    <3> HIDE DEF w, o, v, x
    <3>3. u \in Acting(r) /\ u.at = "objects" /\ u.self = w.self /\ u.todo \subseteq Phases[r][u.phase]
      BY <1>1, <3>2 DEF Acting
    <3>4. QED
      BY <3>1, <3>3
  <2>2. CASE WriteFails(r)
    <3> DEFINE u == [w EXCEPT !.todo = w.todo \ {o}, !.clean = FALSE, !.moved = FALSE,
                              !.error = "object"]
    <3>1. Advance(r, u)
      BY <2>2 DEF WriteFails
    <3> HIDE DEF w, o, v, x
    <3>2. u \in Acting(r) /\ u.at = "objects" /\ u.self = w.self /\ u.todo \subseteq Phases[r][u.phase]
      BY <1>1 DEF Acting
    <3>3. QED
      BY <3>1, <3>2
  <2>3. QED
    BY <2>1, <2>2
<1>5. /\ work'[r].self = w.self /\ work'[r].at \in {"objects", "report"}
      /\ \A q \in Revs : q # r => work'[q] = work[q]
  BY <1>4, AdvanceKeeps DEF TypeInv
<1>6. ASSUME NEW p \in Objects
      PROVE  obj'[p].holder = obj[p].holder \/ (obj'[p].holder = r /\ p \in Manages(r))
  <2>1. obj'[o] \in {obj[o], Desired(r, o)} /\ (p # o => obj'[p] = obj[p])
    <3>1. SetObject(o, x) \/ SetObject(o, obj[o])
      BY DEF ReconcileObject, WriteFails
    <3>2. x \in {obj[o], Desired(r, o)} /\ obj \in [Objects -> Thing]
      BY DEF TypeInv
    <3> HIDE DEF x, o
    <3>3. QED
      BY <1>1, <1>6, <3>1, <3>2 DEF SetObject
  <2>2. Desired(r, o).holder = r
    BY DEF Desired
  <2> HIDE DEF w, o, v, x
  <2>3. CASE p = o
    BY <1>1, <2>1, <2>2, <2>3
  <2>4. CASE p # o
    BY <2>1, <2>4
  <2>5. QED
    BY <2>3, <2>4, Zenon
<1>7. \A q \in Revs : /\ NoActive(q) => NoActive(q)'
                      /\ IsMeant(q) => IsMeant(q)'
                      /\ Protected(q) => Protected(q)'
                      /\ Sheltered(q) => Sheltered(q)'
  BY <1>3, NothingSpares DEF Sheltered, api, Orphaning
<1>8. LagInv'
  BY <1>3, LagStays DEF SafeInv
<1>9. WorkerInv(r, work[r])'
  BY <1>2, <1>5, <1>7 DEF WorkerInv, IsActive
<1> HIDE DEF w, o, v, x
<1>10. QED
  BY <1>2, <1>5, <1>6, <1>7, <1>8, <1>9, StepSafe

\* After an object that is not the revision's, or no longer waited for.
LEMMA RetreatKeeps ==
  ASSUME TypeInv, SafeInv, NEW r \in Revs, NEW w \in Acting(r), w.at = "teardown",
         w.todo \subseteq Phases[r][w.phase], Retreat(r, w),
         w.clean => w.error = "none" /\ ClearBehind(r, w)', ~IsActive(w.self), Meant(w.self),
         NoActive(r)', IsMeant(r)', HeldInv', ClearAbove(r, w)'
  PROVE  WorkerInv(r, work[r])' /\ \A q \in Revs : q # r => work'[q] = work[q]
<1>1. PrevPhase(r, w) \in Busy(r)
  BY PrevPhaseTyped
<1>2. w.todo # {} => w \in Busy(r)
  BY DEF Busy
<1>3. /\ work'[r] = IF w.todo = {} THEN PrevPhase(r, w) ELSE w
      /\ \A q \in Revs : q # r => work'[q] = work[q]
  BY <1>1, <1>2, BecomeTyped DEF Retreat, WorkersOf, TypeInv
<1>4. /\ \A k \in Spans(r) : Phases[r][k] \subseteq Objects
      /\ Last(r) \in Nat /\ w.phase \in Spans(r)
  BY PhaseFacts DEF Acting
<1>5. CASE w.todo # {}
  BY <1>3, <1>5 DEF WorkerInv, ClearBehind, ClearAbove, Spans, Last, IsActive, Meant
<1>6. CASE w.todo = {} /\ w.clean /\ w.phase > 1
  <2> DEFINE u == [w EXCEPT !.phase = w.phase - 1, !.todo = Phases[r][w.phase - 1]]
  <2>1. work'[r] = u
    BY <1>3, <1>6 DEF PrevPhase
  <2>2. u.at = "teardown" /\ u.self = w.self /\ u.phase = w.phase - 1
        /\ u.todo = Phases[r][w.phase - 1] /\ u.error = w.error
    BY DEF Acting
  <2>3. \A k \in Spans(r) : k > w.phase - 1 => k > w.phase \/ k = w.phase
    BY <1>4 DEF Spans
  <2> HIDE DEF u
  <2>4. ClearBehind(r, work[r])' /\ ClearAbove(r, work[r])'
    <3>1. \A k \in Spans(r) : \A o \in Phases[r][k] :
            k > w.phase \/ k = w.phase => obj'[o].holder # r
      BY <1>6 DEF ClearBehind, Spans, Last
    <3>2. \A k \in Spans(r) : \A o \in Phases[r][k] :
            k > u.phase \/ (k = u.phase /\ o \notin u.todo) => obj'[o].holder # r
      BY <2>2, <2>3, <3>1
    <3>3. QED
      BY <2>1, <3>2 DEF ClearBehind, ClearAbove, Spans, Last
  <2>5. QED
    BY <1>3, <1>6, <2>1, <2>2, <2>4 DEF WorkerInv, IsActive, Meant
<1>7. CASE w.todo = {} /\ ~(w.clean /\ w.phase > 1)
  <2>1. work'[r] = Report(w, {})
    BY <1>3, <1>7 DEF PrevPhase
  <2>2. /\ work'[r].at = "report" /\ work'[r].self = w.self /\ work'[r].clean = w.clean
    BY <2>1, ReportFields
  <2>3. ASSUME w.clean PROVE Clear(r)'
    <3>1. w.phase = 1
      BY <1>4, <1>7, <2>3 DEF Spans
    <3>2. \A k \in Spans(r) : k > w.phase \/ k = w.phase
      BY <1>4, <3>1 DEF Spans
    <3>3. \A k \in Spans(r) : \A o \in Phases[r][k] : obj'[o].holder # r
      BY <1>7, <2>3, <3>2 DEF ClearBehind, Spans, Last
    <3>4. \A o \in Objects : obj'[o].holder = r => \E k \in Spans(r) : o \in Phases[r][k]
      BY DEF HeldInv, Manages, Spans, Last
    <3>5. QED
      BY <3>3, <3>4 DEF Clear
  <2>4. QED
    BY <1>3, <2>2, <2>3 DEF WorkerInv, IsActive, Meant
<1>8. QED
  BY <1>3, <1>5, <1>6, <1>7

LEMMA TeardownObjectSafe ==
  ASSUME TypeInv, SafeInv, NEW r \in Revs, TeardownObject(r) \/ DeletionFails(r)
  PROVE  SafeInv'
<1> DEFINE w == work[r]
           o == Min(w.todo)
           mine == obj[o].holder = r
<1>1. /\ w \in Acting(r) /\ w.at = "teardown" /\ o \in Objects /\ o \in w.todo
      /\ w.todo \subseteq Phases[r][w.phase] /\ w.phase \in Spans(r)
  BY AtObject DEF TeardownObject, DeletionFails
<1>2. /\ ~IsActive(w.self) /\ Meant(w.self) /\ IsMeant(r) /\ NoActive(r)
      /\ ClearAbove(r, w)
      /\ w.clean => w.error = "none" /\ ClearBehind(r, w)
  BY <1>1 DEF SafeInv, WorkerInv
<1>3. UNCHANGED <<api, cache, born>>
  BY DEF TeardownObject, DeletionFails
<1>4. /\ \A q \in Revs : /\ NoActive(q) => NoActive(q)'
                         /\ IsMeant(q) => IsMeant(q)'
                         /\ Protected(q) => Protected(q)'
                         /\ Sheltered(q) => Sheltered(q)'
      /\ LagInv'
  BY <1>3, NothingSpares, LagStays DEF Sheltered, api, Orphaning, SafeInv
<1>5. \A p \in Objects : /\ obj'[p].holder \in {obj[p].holder, Missing}
                         /\ ~mine => obj'[p] = obj[p]
  <2>1. \E x \in {Absent, [obj[o] EXCEPT !.dying = TRUE], obj[o]} :
          obj' = [obj EXCEPT ![o] = x] /\ (~mine => x = obj[o])
    <3>1. CASE TeardownObject(r)
      BY <3>1 DEF TeardownObject, SetObject
    <3>2. CASE DeletionFails(r)
      <4>1. obj' = obj /\ obj = [obj EXCEPT ![o] = obj[o]]
        BY <1>1, <3>2 DEF DeletionFails, TypeInv
      <4>2. QED
        BY <4>1
    <3>3. QED
      BY <3>1, <3>2
  <2>2. obj[o] \in Thing /\ obj \in [Objects -> Thing]
    BY <1>1 DEF TypeInv
  <2>3. Absent.holder = Missing /\ [obj[o] EXCEPT !.dying = TRUE].holder = obj[o].holder
    BY <2>2 DEF Absent, Thing
  <2> HIDE DEF w, o, mine
  <2>4. QED
    BY <1>1, <2>1, <2>2, <2>3
<1>6. \A p \in Objects : obj'[p].holder \notin Revs \/ obj'[p].holder = obj[p].holder
  BY <1>5, COSAssumption
<1>7. HeldInv'
  BY <1>6 DEF HeldInv, SafeInv, Manages, Last
<1>8. PICK u \in Acting(r) :
        /\ u.at = "teardown" /\ u.self = w.self /\ Retreat(r, u)
        /\ u.phase = w.phase /\ u.todo = w.todo \ {o}
        /\ u.clean => w.clean /\ ~mine /\ u.error = w.error
  <2>1. CASE TeardownObject(r)
    <3> DEFINE u == [w EXCEPT !.todo = w.todo \ {o}, !.clean = w.clean /\ ~mine]
    <3>1. Retreat(r, u)
      BY <2>1 DEF TeardownObject
    <3>2. (w.clean /\ ~mine) \in BOOLEAN
      BY <1>1 DEF Acting
    <3> HIDE DEF w, o, mine
    <3>3. /\ u \in Acting(r) /\ u.at = "teardown" /\ u.self = w.self /\ u.phase = w.phase
          /\ u.todo = w.todo \ {o} /\ u.clean = (w.clean /\ ~mine) /\ u.error = w.error
      BY <1>1, <3>2 DEF Acting
    <3> HIDE DEF u
    <3>4. QED
      BY <3>1, <3>3
  <2>2. CASE DeletionFails(r)
    <3> DEFINE u == [w EXCEPT !.todo = w.todo \ {o}, !.clean = FALSE, !.error = "object"]
    <3>1. Retreat(r, u)
      BY <2>2 DEF DeletionFails
    <3> HIDE DEF w, o, mine
    <3>2. /\ u \in Acting(r) /\ u.at = "teardown" /\ u.self = w.self /\ u.phase = w.phase
          /\ u.todo = w.todo \ {o} /\ u.clean = FALSE
      BY <1>1 DEF Acting
    <3> HIDE DEF u
    <3>3. QED
      BY <3>1, <3>2
  <2>3. QED
    BY <2>1, <2>2
<1>9. u.clean => u.error = "none" /\ ClearBehind(r, u)'
  <2> SUFFICES ASSUME u.clean
               PROVE  u.error = "none" /\ ClearBehind(r, u)'
    OBVIOUS
  <2>1. w.error = "none" /\ ClearBehind(r, w) /\ ~mine /\ u.error = "none"
    BY <1>2, <1>8
  <2>2. \A k \in Spans(r) : \A p \in Phases[r][k] : p \in Objects
    BY PhaseFacts
  <2>3. \A p \in Objects : obj'[p] = obj[p]
    BY <1>5, <2>1
  <2>4. obj[o].holder # r
    BY <2>1
  <2> HIDE DEF w, o, mine
  <2>5. \A k \in Spans(r) : \A p \in Phases[r][k] :
          k > u.phase \/ (k = u.phase /\ p \notin u.todo) => obj[p].holder # r
    BY <1>8, <2>1, <2>4 DEF ClearBehind
  <2>6. QED
    BY <2>1, <2>2, <2>3, <2>5 DEF ClearBehind, Spans, Last
<1>10. WorkerInv(r, work[r])' /\ \A q \in Revs : q # r => work'[q] = work[q]
  <2>1. u.todo \subseteq Phases[r][u.phase]
    BY <1>1, <1>8
  <2>2. NoActive(r)' /\ IsMeant(r)' /\ ~IsActive(u.self) /\ Meant(u.self)
    BY <1>2, <1>4, <1>8
  <2>3. ClearAbove(r, u)'
    <3>1. \A k \in Spans(r) : \A p \in Phases[r][k] : p \in Objects
      BY PhaseFacts
    <3>2. \A p \in Objects : obj'[p].holder = r => obj[p].holder = r
      BY <1>6
    <3>3. \A k \in Spans(r) : \A p \in Phases[r][k] : k > u.phase => obj[p].holder # r
      BY <1>2, <1>8 DEF ClearAbove
    <3>4. QED
      BY <3>1, <3>2, <3>3 DEF ClearAbove, Spans, Last
  <2>4. QED
    BY <1>7, <1>8, <1>9, <2>1, <2>2, <2>3, RetreatKeeps
<1> HIDE DEF w, o, mine
<1>11. QED
  BY <1>4, <1>6, <1>10, StepSafe

\* The worker's own write, the objects staying as they are.
LEMMA WriteSafe ==
  ASSUME TypeInv, SafeInv, NEW r \in Revs, NEW g \in Listings, Put(g), Follows(g),
         UNCHANGED <<obj, cache>>, WorkerInv(r, work[r])',
         \A q \in Revs : q # r => work'[q] = work[q],
         \A q \in Revs : ~Clear(q) /\ Sheltered(q) => Sheltered(q)'
  PROVE  SafeInv'
<1>1. LagInv'
  BY PutLag DEF SafeInv
<1>2. \A q \in Revs : /\ NoActive(q) => NoActive(q)'
                      /\ IsMeant(q) => IsMeant(q)'
                      /\ Protected(q) /\ work[q].at = "objects" => Protected(q)'
  BY PutSpares
<1>3. QED
  BY <1>1, <1>2, StepSafe

LEMMA EnsureFinalizerSafe ==
  ASSUME TypeInv, SafeInv, NEW r \in Revs, EnsureFinalizer(r)
  PROVE  SafeInv'
<1>1. work'[r] = Idle /\ \A q \in Revs : q # r => work'[q] = work[q]
  BY IdleTyped, BecomeTyped DEF EnsureFinalizer, End, TypeInv
<1>2. WorkerInv(r, work[r])'
  BY <1>1 DEF WorkerInv, Idle
<1>3. CASE r \in DOMAIN cos /\ ~cos[r].deleting
  <2> DEFINE c == [cos[r] EXCEPT !.finalizer = TRUE]
             g == Store(cos, r, c)
  <2>1. cos[r] \in COSOf(r) /\ cos \in Listings
    BY <1>3, ListingIs DEF TypeInv, ApiOK
  <2>2. c \in COSOf(r)
    BY <2>1, FinalizedIs
  <2>3. /\ c.archived = cos[r].archived /\ c.deleting = cos[r].deleting
        /\ c.orphan = cos[r].orphan /\ c.finalizer = TRUE
    BY <2>1 DEF COSOf, COS
  <2> HIDE DEF c
  <2>4. Follows(g)
    BY <1>3, <2>2, <2>3, StoreFollows DEF IsActive, Meant, SafeInv, EnsureFinalizer
  <2>5. g \in Listings /\ g[r] = c /\ DOMAIN g = DOMAIN cos
        /\ \A q \in DOMAIN cos : q # r => g[q] = cos[q]
    <3>1. g \in Listings
      BY <2>1, <2>2, StoreListed
    <3>2. QED
      BY <1>3, <3>1, StoreIs
  <2>6. Put(g) /\ UNCHANGED <<obj, cache>>
    BY <1>3 DEF EnsureFinalizer, c
  <2>7. cos' = g
    BY <2>5, <2>6, PutViews
  <2> HIDE DEF g
  <2>8. \A q \in Revs : Sheltered(q) => Sheltered(q)'
    BY <2>3, <2>5, <2>7 DEF Sheltered, Orphaning
  <2>9. QED
    BY <1>1, <1>2, <2>4, <2>5, <2>6, <2>8, WriteSafe
<1>4. CASE ~(r \in DOMAIN cos /\ ~cos[r].deleting)
  <2>1. UNCHANGED <<api, cache, born, obj>>
    BY <1>4 DEF EnsureFinalizer
  <2>2. QED
    BY <1>1, <2>1, IdleSafe, QuietSafe
<1>5. QED
  BY <1>3, <1>4

LEMMA UpdateStatusSafe ==
  ASSUME TypeInv, SafeInv, NEW r \in Revs, UpdateStatus(r)
  PROVE  SafeInv'
<1> DEFINE w == work[r]
           c == [w.self EXCEPT !.status = NewStatus(r, w)]
           g == Store(cos, r, c)
           refused == c # w.self /\ (r \notin DOMAIN cos \/ cos[r] # w.self)
           done == ~refused /\ w.error = "none" /\ ~IsActive(c) /\ w.clean
           release == [at |-> "release", self |-> c]
<1>1. w \in Acting(r) /\ w.self \in COSOf(r) /\ w.at = "report"
  BY WorkerIs DEF TypeInv, WorkOK, UpdateStatus, Busy, Acting
<1>2. c \in COSOf(r)
  BY <1>1, NewStatusTyped, ReportedIs
<1>3. /\ c.archived = w.self.archived /\ c.deleting = w.self.deleting
      /\ c.orphan = w.self.orphan /\ c.finalizer = w.self.finalizer
  BY <1>1 DEF COSOf, COS
<1>4. WorkerInv(r, w)
  BY DEF SafeInv
<1>5. /\ IF c # w.self /\ ~refused THEN Put(g) ELSE UNCHANGED api
      /\ UNCHANGED <<obj, cache, born>>
      /\ work'[r] = IF done THEN release ELSE Idle
      /\ \A q \in Revs : q # r => work'[q] = work[q]
  <2>1. release \in WorkersOf(r) /\ Idle \in WorkersOf(r)
    BY <1>2, IdleTyped
  <2>2. Become(r, IF done THEN release ELSE Idle)
    BY DEF UpdateStatus, End
  <2>3. /\ IF c # w.self /\ ~refused THEN Put(g) ELSE UNCHANGED api
        /\ UNCHANGED <<obj, cache, born>>
    BY DEF UpdateStatus
  <2> HIDE DEF w, c, g, refused, done, release
  <2>4. QED
    BY <2>1, <2>2, <2>3, BecomeTyped DEF TypeInv
<1> HIDE DEF c, g
<1>6. ASSUME NoActive(r) => NoActive(r)' PROVE WorkerInv(r, work[r])'
  <2>1. CASE done
    <3>1. work'[r].at = "release" /\ work'[r].self = c /\ ~IsActive(c)
      BY <1>5, <2>1
    <3>2. NoActive(r) /\ Clear(r)
      BY <1>1, <1>3, <1>4, <2>1 DEF WorkerInv, IsActive
    <3>3. NoActive(r)' /\ Clear(r)'
      BY <1>5, <1>6, <3>2 DEF Clear
    <3>4. QED
      BY <3>1, <3>3 DEF WorkerInv, IsActive
  <2>2. CASE ~done
    BY <1>5, <2>2 DEF WorkerInv, Idle
  <2>3. QED
    BY <2>1, <2>2
<1>7. CASE c # w.self /\ ~refused
  <2>1. r \in DOMAIN cos /\ cos[r] = w.self /\ cos \in Listings
    BY <1>7 DEF TypeInv, ApiOK
  <2>2. Follows(g)
    BY <1>2, <1>3, <1>5, <2>1, StoreFollows DEF IsActive, Meant, SafeInv, g
  <2>3. g \in Listings
    BY <1>2, <2>1, StoreListed DEF g
  <2>4. g[r] = c /\ DOMAIN g = DOMAIN cos /\ \A q \in DOMAIN cos : q # r => g[q] = cos[q]
    BY <2>1, StoreIs DEF g
  <2>5. Put(g) /\ UNCHANGED <<obj, cache>>
    BY <1>5, <1>7
  <2>6. cos' = g
    BY <2>3, <2>5, PutViews
  <2>7. \A q \in Revs : Sheltered(q) => Sheltered(q)'
    BY <1>3, <2>1, <2>4, <2>6 DEF Sheltered, Orphaning
  <2>8. WorkerInv(r, work[r])'
    BY <1>6, <2>2, <2>3, <2>5, PutSpares
  <2>9. QED
    BY <1>5, <2>2, <2>3, <2>5, <2>7, <2>8, WriteSafe
<1>8. CASE ~(c # w.self /\ ~refused)
  <2>1. UNCHANGED <<api, cache, born, obj>>
    BY <1>5, <1>8
  <2>2. WorkerInv(r, work[r])'
    BY <1>6, <2>1, NothingSpares
  <2>3. \A q \in Revs : /\ NoActive(q) => NoActive(q)'
                        /\ IsMeant(q) => IsMeant(q)'
                        /\ Protected(q) => Protected(q)'
                        /\ Sheltered(q) => Sheltered(q)'
    BY <2>1, NothingSpares DEF Sheltered, api, Orphaning
  <2>4. LagInv'
    BY <2>1, LagStays DEF SafeInv
  <2>5. QED
    BY <1>5, <2>1, <2>2, <2>3, <2>4, StepSafe
<1>9. QED
  BY <1>7, <1>8

LEMMA ReleaseSafe ==
  ASSUME TypeInv, SafeInv, NEW r \in Revs, Release(r)
  PROVE  SafeInv'
<1> DEFINE c == work[r].self
           d == [c EXCEPT !.finalizer = FALSE]
           g == Settled(Store(cos, r, d), r)
<1>1. c \in COSOf(r) /\ work[r].at = "release"
  BY WorkerIs DEF TypeInv, WorkOK, Release
<1>2. d \in COSOf(r)
  BY <1>1, FinalizedIs
<1>3. d.archived = c.archived /\ d.deleting = c.deleting /\ d.orphan = c.orphan
  BY <1>1 DEF COSOf, COS
<1>4. ~IsActive(c) /\ NoActive(r) /\ (Orphaning(c) \/ Clear(r))
  BY <1>1 DEF SafeInv, WorkerInv
<1>5. CASE r \in DOMAIN cos /\ cos[r] = c
  <2>1. /\ Put(g) /\ Become(r, [at |-> "wait"]) /\ UNCHANGED <<obj, cache, born>>
    BY <1>5 DEF Release
  <2> HIDE DEF d
  <2>2. Follows(g) /\ g \in Listings
    BY <1>1, <1>2, <1>3, <1>4, <1>5, <2>1, SettledFollows
       DEF IsActive, Meant, SafeInv, MayRelease
  <2>3. /\ \A q \in Revs \ {r} : q \in DOMAIN cos => q \in DOMAIN g /\ g[q] = cos[q]
        /\ Orphaning(d) => r \in DOMAIN g /\ g[r] = d
    <3> DEFINE h == Store(cos, r, d)
    <3>1. h[r] = d /\ DOMAIN h = DOMAIN cos /\ \A q \in DOMAIN cos : q # r => h[q] = cos[q]
      BY <1>5, StoreIs
    <3> HIDE DEF h
    <3>2. /\ \A q \in Revs \ {r} : q \in DOMAIN cos =>
               q \in DOMAIN Settled(h, r) /\ Settled(h, r)[q] = cos[q]
          /\ Orphaning(d) => r \in DOMAIN Settled(h, r) /\ Settled(h, r)[r] = d
      BY <1>5, <3>1 DEF Settled, Without, Orphaning
    <3>3. QED
      BY <3>2 DEF h
  <2> HIDE DEF g
  <2>4. cos' = g
    BY <2>1, <2>2, PutViews
  <2>5. \A q \in Revs : ~Clear(q) /\ Sheltered(q) => Sheltered(q)'
    <3>1. \A q \in Revs : q # r /\ Sheltered(q) => Sheltered(q)'
      BY <2>3, <2>4 DEF Sheltered, Orphaning
    <3>2. ~Clear(r) => Sheltered(r)'
      BY <1>3, <1>4, <2>3, <2>4 DEF Sheltered, Orphaning
    <3>3. QED
      BY <3>1, <3>2
  <2>6. work'[r].at = "wait" /\ \A q \in Revs : q # r => work'[q] = work[q]
    BY <2>1, IdleTyped, BecomeTyped DEF TypeInv
  <2>7. WorkerInv(r, work[r])'
    BY <2>6 DEF WorkerInv
  <2>8. QED
    BY <2>1, <2>2, <2>5, <2>6, <2>7, WriteSafe
<1>6. CASE ~(r \in DOMAIN cos /\ cos[r] = c)
  <2>1. UNCHANGED <<api, cache, born, obj>> /\ Become(r, Idle)
    BY <1>6 DEF Release, End
  <2>2. work'[r] = Idle /\ \A q \in Revs : q # r => work'[q] = work[q]
    BY <2>1, IdleTyped, BecomeTyped DEF TypeInv
  <2>3. QED
    BY <2>1, <2>2, IdleSafe, QuietSafe
<1>7. QED
  BY <1>5, <1>6

\* A write of somebody else's.
LEMMA OthersWriteSafe ==
  ASSUME TypeInv, SafeInv, NEW g \in Listings, Put(g), Follows(g),
         UNCHANGED <<obj, cache, work>>,
         \A q \in Revs : ~Clear(q) /\ Sheltered(q) => Sheltered(q)'
  PROVE  SafeInv'
<1>1. ASSUME NEW r \in Revs PROVE SafeInv'
  <2>1. Spares(r)
    BY PutSpares DEF Spares
  <2>2. WorkerInv(r, work[r])'
    BY <2>1, SparedWorker
  <2>3. QED
    BY <2>2, WriteSafe
<1>2. CASE Revs = {}
  <2>1. LagInv'
    BY PutLag DEF SafeInv
  <2>2. HeldInv' /\ NoLeak'
    BY <1>2 DEF HeldInv, NoLeak
  <2>3. QED
    BY <1>2, <2>1, <2>2 DEF SafeInv
<1>3. QED
  BY <1>1, <1>2

LEMMA RequestSafe ==
  ASSUME TypeInv, SafeInv, NEW r \in Revs, Request(r)
  PROVE  SafeInv'
<1>1. cos \in Listings /\ DOMAIN cos \subseteq born
      /\ (r \in DOMAIN cos => cos[r] \in COSOf(r))
  BY ListingIs DEF TypeInv, ApiOK, SafeInv, LagInv, Views
<1>2. CASE CreateRevision(r)
  <2> DEFINE g == Store(cos, r, NewCOS)
  <2>1. r \notin born /\ born' = born \cup {r} /\ Put(g) /\ UNCHANGED <<obj, cache, work>>
    BY <1>2 DEF CreateRevision
  <2>2. /\ g \in Listings /\ DOMAIN g = DOMAIN cos \cup {r}
        /\ \A q \in DOMAIN cos : q # r => g[q] = cos[q]
    BY <1>1, NewIs, StoreListed
  <2> HIDE DEF g
  <2>3. r \notin DOMAIN cos
    BY <1>1, <2>1
  <2>4. Follows(g)
    BY <1>1, <2>1, <2>2, <2>3 DEF Follows
  <2>5. cos' = g
    BY <2>1, <2>2, PutViews
  <2>6. \A q \in Revs : Sheltered(q) => Sheltered(q)'
    BY <2>2, <2>3, <2>5 DEF Sheltered, Orphaning
  <2>7. QED
    BY <2>1, <2>2, <2>4, <2>6, OthersWriteSafe
<1>3. CASE Archive(r)
  <2> DEFINE c == [cos[r] EXCEPT !.archived = TRUE]
             g == Store(cos, r, c)
  <2>1. r \in DOMAIN cos /\ Put(g) /\ UNCHANGED <<obj, cache, work, born>>
    BY <1>3 DEF Archive
  <2>2. c \in COSOf(r)
    BY <1>1, <2>1, ArchivedIs
  <2>3. /\ c.archived = TRUE /\ c.deleting = cos[r].deleting
        /\ c.orphan = cos[r].orphan /\ c.finalizer = cos[r].finalizer
    BY <1>1, <2>1 DEF COSOf, COS
  <2> HIDE DEF c
  <2>4. Follows(g)
    BY <2>1, <2>2, <2>3, StoreFollows DEF IsActive, Meant, SafeInv
  <2>5. g \in Listings
    BY <1>1, <2>2, StoreListed
  <2>6. g[r] = c /\ DOMAIN g = DOMAIN cos /\ \A q \in DOMAIN cos : q # r => g[q] = cos[q]
    BY <2>1, StoreIs
  <2> HIDE DEF g
  <2>7. cos' = g
    BY <2>1, <2>5, PutViews
  <2>8. \A q \in Revs : Sheltered(q) => Sheltered(q)'
    BY <2>3, <2>6, <2>7 DEF Sheltered, Orphaning
  <2>9. QED
    BY <2>1, <2>4, <2>5, <2>8, OthersWriteSafe
<1>4. CASE FinishOrphaning(r)
  <2> DEFINE g == Without(cos, r)
  <2>1. /\ r \in DOMAIN cos /\ ~cos[r].finalizer /\ Clear(r)
        /\ Put(g) /\ UNCHANGED <<obj, cache, work, born>>
    BY <1>4 DEF FinishOrphaning, Clear
  <2>2. /\ g \in Listings /\ DOMAIN g = DOMAIN cos \ {r}
        /\ \A q \in DOMAIN cos : q # r => g[q] = cos[q]
    BY <1>1, WithoutListed
  <2>3. Follows(g)
    BY <2>1, WithoutFollows DEF SafeInv
  <2> HIDE DEF g
  <2>4. cos' = g
    BY <2>1, <2>2, PutViews
  <2>5. \A q \in Revs : ~Clear(q) /\ Sheltered(q) => Sheltered(q)'
    BY <2>1, <2>2, <2>4 DEF Sheltered, Orphaning
  <2>6. QED
    BY <2>1, <2>2, <2>3, <2>5, OthersWriteSafe
<1>5. ASSUME NEW orphan \in BOOLEAN, Delete(r, orphan)
      PROVE  SafeInv'
  <2> DEFINE c == [cos[r] EXCEPT !.deleting = TRUE, !.orphan = orphan]
             h == Store(cos, r, c)
             g == Settled(h, r)
  <2>1. /\ r \in DOMAIN cos /\ ~cos[r].deleting
        /\ Put(g) /\ UNCHANGED <<obj, cache, work, born>>
    BY <1>5 DEF Delete
  <2>2. c \in COSOf(r)
    BY <1>1, <2>1, DeletedIs
  <2>3. /\ c.archived = cos[r].archived /\ c.deleting = TRUE
        /\ c.orphan = orphan /\ c.finalizer = cos[r].finalizer
    BY <1>1, <2>1 DEF COSOf, COS
  <2> HIDE DEF c
  <2>4. Follows(g) /\ g \in Listings
    BY <2>1, <2>2, <2>3, SettledFollows DEF IsActive, Meant, SafeInv
  <2>5. h[r] = c /\ DOMAIN h = DOMAIN cos /\ \A q \in DOMAIN cos : q # r => h[q] = cos[q]
    BY <2>1, StoreIs
  <2> HIDE DEF h
  <2>6. \A q \in DOMAIN cos : q # r \/ c.finalizer =>
          q \in DOMAIN g /\ g[q] = IF q = r THEN c ELSE cos[q]
    BY <2>1, <2>5 DEF Settled, Without
  <2> HIDE DEF g
  <2>7. cos' = g
    BY <2>1, <2>4, PutViews
  <2>8. \A q \in Revs : Sheltered(q) => Sheltered(q)'
    BY <2>1, <2>3, <2>6, <2>7 DEF Sheltered, Orphaning
  <2>9. QED
    BY <2>1, <2>4, <2>8, OthersWriteSafe
<1>6. QED
  BY <1>2, <1>3, <1>4, <1>5 DEF Request

LEMMA HappeningSafe ==
  ASSUME TypeInv, SafeInv, NEW o \in Objects, Happening(o)
  PROVE  SafeInv'
<1>1. PICK x \in Changed(o) : Change(o, x)
  BY HappeningIs
<1>2. UNCHANGED <<api, cache, born, work>> /\ SetObject(o, x)
  BY <1>1 DEF Change
<1>3. x.holder \notin Revs \/ x.holder = obj[o].holder
  <2>1. obj[o] \in Thing
    BY DEF TypeInv
  <2>2. Missing \notin Revs /\ Nobody \cap Revs = {} /\ Unowned \notin Revs
    BY COSAssumption DEF Nobody
  <2>3. CASE x = Absent
    BY <2>2, <2>3 DEF Absent
  <2>4. CASE \E who \in Nobody : x = [Absent EXCEPT !.holder = who, !.ready = o \notin Gates]
    BY <2>2, <2>4 DEF Absent
  <2>5. CASE x \in {[obj[o] EXCEPT !.dying = TRUE], [obj[o] EXCEPT !.content = Other],
                    [obj[o] EXCEPT !.ready = TRUE], [obj[o] EXCEPT !.ready = FALSE],
                    [obj[o] EXCEPT !.holder = Unowned]}
    BY <2>1, <2>2, <2>5 DEF Thing
  <2>6. QED
    BY <1>1, <2>3, <2>4, <2>5 DEF Changed
<1>4. \A p \in Objects : obj'[p].holder \notin Revs \/ obj'[p].holder = obj[p].holder
  BY <1>2, <1>3 DEF SetObject, TypeInv
<1>5. LagInv'
  BY <1>2, LagStays DEF SafeInv
<1>6. ASSUME NEW r \in Revs PROVE SafeInv'
  <2>1. \A q \in Revs : /\ NoActive(q) => NoActive(q)'
                        /\ IsMeant(q) => IsMeant(q)'
                        /\ Protected(q) => Protected(q)'
                        /\ Sheltered(q) => Sheltered(q)'
    BY <1>2, NothingSpares DEF Sheltered, api, Orphaning
  <2>2. WorkerInv(r, work[r])'
    <3>1. Spares(r)
      BY <1>4, <2>1 DEF Spares
    <3>2. QED
      BY <1>2, <3>1, SparedWorker
  <2>3. QED
    BY <1>2, <1>4, <1>5, <2>1, <2>2, StepSafe
<1>7. CASE Revs = {}
  BY <1>5, <1>7 DEF SafeInv, HeldInv, NoLeak
<1>8. QED
  BY <1>6, <1>7

LEMMA DeliverSafe ==
  ASSUME TypeInv, SafeInv, DeliverCOS
  PROVE  SafeInv'
<1>1. /\ stream \in Seq(Listings) /\ stream # <<>>
      /\ cache' = Head(stream) /\ stream' = Tail(stream) /\ UNCHANGED <<cos, born, obj, work>>
  BY DEF DeliverCOS, TypeInv, ApiOK
<1>2. /\ 1 \in DOMAIN stream /\ cache' = stream[1]
      /\ \A i \in DOMAIN stream' : /\ i + 1 \in DOMAIN stream /\ stream'[i] = stream[i + 1]
                                   /\ i \in Nat /\ i + 1 > 1
  BY <1>1
<1>3. Views' \subseteq Views
  BY <1>1, <1>2 DEF Views
<1>4. \A r \in Revs : NoActive(r) => NoActive(r)'
  <2>1. SUFFICES ASSUME NEW r \in Revs, NoActive(r) PROVE NoActive(r)'
    OBVIOUS
  <2>2. r \in born' /\ \A g \in Views' : ~ActiveIn(g, r)
    BY <1>1, <1>3, <2>1 DEF NoActive
  <2>3. QED
    BY <2>2 DEF NoActive, ActiveIn, IsActive
<1>5. \A r \in Revs : /\ IsMeant(r) => IsMeant(r)'
                      /\ Protected(r) => Protected(r)'
  BY <1>1 DEF IsMeant, Protected, Meant
<1>6. LagInv'
  <2>1. \A g \in Views' : DOMAIN g \subseteq born'
    BY <1>1, <1>3 DEF SafeInv, LagInv
  <2>2. ASSUME NEW r \in Revs, RetiredIn(cache', r) PROVE NoActive(r)'
    <3>1. RetiredIn(stream[1], r) /\ stream[1] \in Views
      BY <1>2, <2>2 DEF Views
    <3>2. /\ ~ActiveIn(cos, r) /\ r \in born
          /\ \A j \in DOMAIN stream : j > 1 => ~ActiveIn(stream[j], r)
      BY <1>2, <3>1 DEF SafeInv, LagInv, RetiredIn
    <3>3. ~ActiveIn(cos', r) /\ ~ActiveIn(cache', r)
          /\ \A i \in DOMAIN stream' : ~ActiveIn(stream'[i], r)
      BY <1>1, <1>2, <2>2, <3>2 DEF RetiredIn, ActiveIn
    <3>4. \A g \in Views' : ~ActiveIn(g, r)
      BY <3>3 DEF Views
    <3>5. QED
      BY <1>1, <3>2, <3>4 DEF NoActive, ActiveIn, IsActive
  <2>3. ASSUME NEW i \in DOMAIN stream', NEW r \in Revs, RetiredIn(stream'[i], r)
        PROVE  /\ ~ActiveIn(cos', r)
               /\ \A j \in DOMAIN stream' : j > i => ~ActiveIn(stream'[j], r)
    <3>1. i + 1 \in DOMAIN stream /\ RetiredIn(stream[i + 1], r)
      BY <1>2, <2>3
    <3>2. /\ ~ActiveIn(cos, r)
          /\ \A j \in DOMAIN stream : j > i + 1 => ~ActiveIn(stream[j], r)
      BY <3>1 DEF SafeInv, LagInv
    <3>3. ASSUME NEW j \in DOMAIN stream', j > i PROVE ~ActiveIn(stream'[j], r)
      <4>1. j + 1 \in DOMAIN stream /\ stream'[j] = stream[j + 1] /\ j + 1 > i + 1
        BY <1>2, <3>3
      <4>2. QED
        BY <3>2, <4>1
    <3>4. QED
      BY <1>1, <3>2, <3>3
  <2>4. \A g \in Views' : \A r \in Revs : ActiveIn(g, r) /\ g[r].finalizer => Protected(r)'
    BY <1>3, <1>5 DEF SafeInv, LagInv
  <2>5. \A g \in Views' : \A r \in DOMAIN g : Meant(g[r]) => IsMeant(r)'
    <3>1. \A g \in Views' : \A r \in DOMAIN g : Meant(g[r]) => IsMeant(r)
      BY <1>3 DEF SafeInv, LagInv
    <3>2. \A r : IsMeant(r) => r \in Revs
      BY DEF IsMeant, TypeInv
    <3>3. QED
      BY <1>5, <3>1, <3>2
  <2>6. QED
    BY <2>1, <2>2, <2>3, <2>4, <2>5 DEF LagInv, RetiredIn, ActiveIn, Meant, IsActive
<1>7. ASSUME NEW r \in Revs PROVE WorkerInv(r, work[r])'
  <2>1. Spares(r)
    BY <1>1, <1>4, <1>5 DEF Spares
  <2>2. QED
    BY <1>1, <2>1, SparedWorker
<1>8. HeldInv' /\ NoLeak'
  BY <1>1 DEF SafeInv, HeldInv, NoLeak, Manages, Last, Orphaning
<1>9. QED
  BY <1>6, <1>7, <1>8 DEF SafeInv

LEMMA CrashSafe ==
  ASSUME TypeInv, SafeInv, Crash
  PROVE  SafeInv'
<1>1. /\ work' = [r \in Revs |-> Idle] /\ stream' = <<>> /\ cache' = cos
      /\ UNCHANGED <<obj, cos, born>>
  BY DEF Crash
<1>2. DOMAIN stream' = {}
  BY <1>1
<1>3. Views' = {cos}
  BY <1>1, <1>2 DEF Views
<1>4. LagInv'
  <2>1. DOMAIN cos \subseteq born /\ \A r \in DOMAIN cos : Meant(cos[r]) => IsMeant(r)
    BY DEF SafeInv, LagInv, Views
  <2>2. \A r \in Revs : RetiredIn(cos, r) => NoActive(r)'
    BY <1>1, <1>3, <2>1 DEF NoActive, RetiredIn, ActiveIn, IsActive
  <2>3. \A r \in Revs : ActiveIn(cos, r) /\ cos[r].finalizer => Protected(r)'
    BY <1>1 DEF Protected, ActiveIn
  <2>4. \A r \in DOMAIN cos : Meant(cos[r]) => IsMeant(r)'
    BY <1>1, <2>1 DEF IsMeant, Meant
  <2>5. QED
    BY <1>1, <1>2, <1>3, <2>1, <2>2, <2>3, <2>4 DEF LagInv, RetiredIn, ActiveIn, Meant, IsActive
<1>5. \A r \in Revs : WorkerInv(r, work[r])'
  BY <1>1 DEF WorkerInv, Idle
<1>6. HeldInv' /\ NoLeak'
  BY <1>1 DEF SafeInv, HeldInv, NoLeak, Manages, Last, Orphaning
<1>7. QED
  BY <1>4, <1>5, <1>6 DEF SafeInv

LEMMA InitSafe == Init => SafeInv
<1> SUFFICES ASSUME Init PROVE SafeInv
  OBVIOUS
<1>1. DOMAIN stream = {} /\ DOMAIN cos = {} /\ cache = cos
  BY DEF Init
<1>2. Views = {cos}
  BY <1>1 DEF Views
<1>3. LagInv
  BY <1>1, <1>2 DEF LagInv, RetiredIn, ActiveIn
<1>4. \A o \in Objects : obj[o].holder \notin Revs
  BY COSAssumption DEF Init, Absent
<1>5. \A r \in Revs : WorkerInv(r, work[r])
  BY DEF WorkerInv, Idle, Init
<1>6. QED
  BY <1>3, <1>4, <1>5 DEF SafeInv, HeldInv, NoLeak

LEMMA StutterSafe == TypeInv /\ SafeInv /\ UNCHANGED vars => SafeInv'
<1> SUFFICES ASSUME TypeInv, SafeInv, UNCHANGED vars PROVE SafeInv'
  OBVIOUS
<1>1. UNCHANGED <<api, cache, born, obj, work>>
  BY DEF vars, api
<1>2. LagInv'
  BY <1>1, LagStays DEF SafeInv
<1>3. \A r \in Revs : WorkerInv(r, work[r])'
  <2>1. \A r \in Revs : Spares(r)
    BY <1>1, NothingSpares DEF Spares
  <2>2. QED
    BY <1>1, <2>1, SparedWorker
<1>4. HeldInv' /\ NoLeak'
  BY <1>1 DEF SafeInv, HeldInv, NoLeak, Manages, Last, Orphaning, api
<1>5. QED
  BY <1>2, <1>3, <1>4 DEF SafeInv

LEMMA NextSafe == TypeInv /\ SafeInv /\ [Next]_vars => SafeInv'
<1> SUFFICES ASSUME TypeInv, SafeInv, [Next]_vars PROVE SafeInv'
  OBVIOUS
<1>1. ASSUME NEW r \in Revs, Work(r) PROVE SafeInv'
  BY <1>1, BeginSafe, EnsureFinalizerSafe, ReconcileObjectSafe, TeardownObjectSafe,
     UpdateStatusSafe, ReleaseSafe, EndingSafe DEF Work
<1>2. ASSUME NEW r \in Revs, Mishap(r) PROVE SafeInv'
  BY <1>2, BeginSafe, ReconcileObjectSafe, TeardownObjectSafe, EndingSafe DEF Mishap
<1>3. QED
  BY <1>1, <1>2, RequestSafe, HappeningSafe, DeliverSafe, CrashSafe, StutterSafe DEF Next

LEMMA Safe == Spec => [](TypeInv /\ SafeInv)
<1>1. Init => TypeInv /\ SafeInv
  BY InitTyped, InitSafe
<1>2. TypeInv /\ SafeInv /\ [Next]_vars => (TypeInv /\ SafeInv)'
  BY NextTyped, NextSafe
<1>3. QED
  BY <1>1, <1>2, PTL DEF Spec

\* No object outlives the protection of its owner, whatever the cache shows
\* the workers, whatever fails, and wherever the operator stops
\* (reconcileActive, teardown, release).
THEOREM NothingLeaks == Spec => []NoLeak
<1>1. SafeInv => NoLeak
  BY DEF SafeInv
<1>2. QED
  BY <1>1, Safe, PTL

\* A deletion is the work of the revision's own worker, in the phase it is in.
LEMMA DeletesIs ==
  ASSUME TypeInv, [Next]_vars, NEW r \in Revs, NEW o \in Objects, Deletes(r, o)
  PROVE  TeardownObject(r) /\ o \in Phases[r][work[r].phase] /\ work[r].phase \in Spans(r)
<1>1. work[r].at = "teardown" /\ work'[r] # work[r] /\ obj'[o] # obj[o]
  BY DEF Deletes
<1>2. obj' # obj /\ work' # work
  BY <1>1
<1>3. \E q \in Revs : ReconcileObject(q) \/ WriteFails(q) \/ TeardownObject(q)
  BY <1>2 DEF Next, Work, Mishap, Request, Happening, Begin, BeginFails, EnsureFinalizer,
     UpdateStatus, Release, AwaitRemoval, Fail, DeletionFails, CreateRevision, Archive, Delete,
     FinishOrphaning, OrphanObject, Vanish, OpenGate, CloseGate, DriftObject, RemoveObject,
     CreateForeign, ClearForeign, Change, DeliverCOS, Crash, vars
<1>4. PICK q \in Revs : ReconcileObject(q) \/ WriteFails(q) \/ TeardownObject(q)
  BY <1>3
<1>5. q = r
  <2>1. \E w : Become(q, w)
    BY <1>4 DEF ReconcileObject, WriteFails, TeardownObject, Advance, Retreat
  <2>2. QED
    BY <1>1, <2>1 DEF Become, TypeInv, WorkOK
<1>6. TeardownObject(r)
  BY <1>1, <1>4, <1>5 DEF ReconcileObject, WriteFails
<1>7. o = Min(work[r].todo)
  <2>1. obj \in [Objects -> Thing] /\ \E x : obj' = [obj EXCEPT ![Min(work[r].todo)] = x]
    BY <1>6 DEF TeardownObject, SetObject, TypeInv
  <2>2. QED
    BY <1>1, <2>1
<1>8. QED
  BY <1>1, <1>6, <1>7, AtObject

\* The controller deletes objects only for a revision that is archived or was
\* deleted together with them, although the worker that does it decided so
\* from an older copy (teardown).
THEOREM OnlyMeantTeardown == Spec => TeardownIsMeant
<1>1. TypeInv /\ SafeInv /\ [Next]_vars =>
        [\A r \in Revs : \A o \in Objects :
           Deletes(r, o) => r \in DOMAIN cos
                            /\ (cos[r].archived \/ (cos[r].deleting /\ ~cos[r].orphan))]_vars
  BY DEF Deletes, SafeInv, NoLeak, WorkerInv, IsMeant, Meant
<1>2. QED
  BY <1>1, Safe, PTL DEF Spec, TeardownIsMeant

\* A teardown deletes nothing while it has seen something of a later phase:
\* what is deleted belongs to the last phase that has anything left, also
\* after failed deletions and restarts (Engine.Teardown).
THEOREM TornDownInReverse == Spec => TeardownReverse
<1>1. TypeInv /\ SafeInv /\ [Next]_vars =>
        [\A r \in Revs : \A k \in 1 .. Last(r) : \A o \in Phases[r][k] :
           Deletes(r, o) =>
             \A j \in k + 1 .. Last(r) : \A p \in Phases[r][j] : obj[p].holder # r]_vars
  <2> SUFFICES ASSUME TypeInv, SafeInv, [Next]_vars, NEW r \in Revs, NEW k \in 1 .. Last(r),
                      NEW o \in Phases[r][k], Deletes(r, o),
                      NEW j \in k + 1 .. Last(r), NEW p \in Phases[r][j]
               PROVE  obj[p].holder # r
    OBVIOUS
  <2>1. k \in Spans(r) /\ j \in Spans(r) /\ j > k
    BY PhaseFacts DEF Spans
  <2>2. o \in Objects /\ p \in Objects
    BY <2>1, PhaseFacts
  <2>3. o \in Phases[r][work[r].phase] /\ work[r].phase \in Spans(r)
    BY <2>2, DeletesIs
  <2>4. work[r].phase = k
    BY <2>1, <2>3, PhaseFacts
  <2>5. ClearAbove(r, work[r])
    BY DEF Deletes, SafeInv, WorkerInv
  <2>6. QED
    BY <2>1, <2>4, <2>5 DEF ClearAbove
<1>2. QED
  BY <1>1, Safe, PTL DEF Spec, TeardownReverse

-----------------------------------------------------------------------------
(* Completion.  Whatever says that objects were complete, in a listing, in *)
(* a worker's copy or in what it has found so far, is right.               *)

Seen(r, things) == \A o \in things : <<r, o>> \in met

Earned(r, s) ==
  /\ \A k \in s.completed : Seen(r, Phases[r][k])
  /\ s.done => Seen(r, Manages(r))

MetInv == \A o \in Objects : \A r \in MetBy(o, obj[o]) : <<r, o>> \in met

ViewsEarned == \A g \in Views : \A r \in DOMAIN g : Earned(r, g[r].status)

WorkerEarned(r, w) ==
  /\ w.at \in {"finalizer", "objects", "teardown", "report"} =>
       Earned(r, w.self.status) /\ \A k \in w.full : Seen(r, Phases[r][k])
  /\ w.at = "objects" /\ w.clean => Seen(r, Phases[r][w.phase] \ w.todo)

EarnInv == MetInv /\ ViewsEarned /\ \A r \in Revs : WorkerEarned(r, work[r])

\* Knowing fewer siblings makes no object complete.
LEMMA FitsWider ==
  ASSUME NEW r \in Revs, NEW siblings \in SUBSET Revs, NEW x, Fits(r, siblings, x)
  PROVE  Fits(r, {q \in Revs : q > r}, x)
<1>1. x.ready /\ Verdict(r, siblings, x) \in {"idle", "progressed"}
  BY DEF Fits
<1>2. x.holder # Missing
  BY <1>1, COSAssumption DEF Verdict
<1>3. CASE x.holder = r
  <2>1. x.content = r
    BY <1>1, <1>2, <1>3, COSAssumption DEF Verdict
  <2>2. QED
    BY <1>1, <1>2, <1>3, <2>1, COSAssumption DEF Fits, Verdict
<1>4. CASE x.holder # r
  <2>1. x.holder \in siblings /\ x.holder > r
    BY <1>1, <1>2, <1>4, COSAssumption DEF Verdict
  <2>2. QED
    BY <1>1, <1>2, <1>4, <2>1, COSAssumption DEF Fits, Verdict
<1>5. QED
  BY <1>3, <1>4

LEMMA SetObjectMet ==
  ASSUME TypeInv, MetInv, NEW o, NEW x, SetObject(o, x)
  PROVE  met \subseteq met' /\ MetInv'
<1>1. met \subseteq met' /\ \A r \in MetBy(o, x) : <<r, o>> \in met'
  BY DEF SetObject
<1>2. ASSUME NEW p \in Objects, NEW r \in MetBy(p, obj'[p]) PROVE <<r, p>> \in met'
  <2>1. CASE p = o
    BY <1>1, <1>2, <2>1 DEF SetObject, TypeInv
  <2>2. CASE p # o
    BY <1>1, <1>2, <2>2 DEF SetObject, TypeInv, MetInv
  <2>3. QED
    BY <2>1, <2>2
<1>3. QED
  BY <1>1, <1>2 DEF MetInv, MetBy, Manages, Last, Fits, Verdict

LEMMA EarnedStays ==
  ASSUME met \subseteq met', NEW r, NEW s, Earned(r, s)
  PROVE  Earned(r, s)'
BY DEF Earned, Seen, Manages, Last

LEMMA WorkerEarnedStays ==
  ASSUME met \subseteq met', NEW r, WorkerEarned(r, work[r]), work'[r] = work[r]
  PROVE  WorkerEarned(r, work[r])'
BY DEF WorkerEarned, Earned, Seen, Manages, Last

LEMMA ViewsStayEarned ==
  ASSUME met \subseteq met', ViewsEarned, Views' \subseteq Views
  PROVE  ViewsEarned'
BY DEF ViewsEarned, Earned, Seen, Manages, Last

\* A step in which the objects and what is known of them stay as they are.
LEMMA SameMet == MetInv /\ UNCHANGED <<obj, met>> => MetInv'
BY DEF MetInv, MetBy, Manages, Last, Fits, Verdict

LEMMA PutEarned ==
  ASSUME TypeInv, EarnInv, NEW g \in Listings, Put(g), UNCHANGED <<obj, met, cache>>,
         \A r \in DOMAIN g : Earned(r, g[r].status)
  PROVE  MetInv' /\ ViewsEarned'
<1>1. cos' = g /\ Views' \subseteq Views \cup {g}
  BY PutViews
<1>2. \A v \in Views' : \A r \in DOMAIN v : Earned(r, v[r].status)
  BY <1>1 DEF EarnInv, ViewsEarned
<1>3. ViewsEarned'
  BY <1>2 DEF ViewsEarned, Earned, Seen, Manages, Last
<1>4. QED
  BY <1>3, SameMet DEF EarnInv

LEMMA SameViews == UNCHANGED <<api, cache>> => Views' = Views
BY DEF api, Views

LEMMA NewStatusEarned ==
  ASSUME NEW r \in Revs, NEW w \in Acting(r), WorkerEarned(r, w)
  PROVE  Earned(r, NewStatus(r, w))
<1> DEFINE old == w.self.status
           Say(reason) == [old EXCEPT !.reason = reason, !.completed = old.completed \cup w.full]
           Keep(reason) == [old EXCEPT !.reason = reason]
           Reset(reason) == [old EXCEPT !.reason = reason, !.completed = {}]
           Final == [Say("Available") EXCEPT !.done = TRUE]
<1>1. /\ old \in Statuses /\ Earned(r, old)
      /\ \A k \in w.full : Seen(r, Phases[r][k])
  BY DEF Acting, COSOf, COS, WorkerEarned
<1>2. w.full = Spans(r) => Seen(r, Manages(r))
  BY <1>1 DEF Seen, Manages, Spans
<1>3. w.error \in {"none", "object", "resolution", "internal"}
  BY DEF Acting
<1>4. \/ NewStatus(r, w) \in {Say("ReconcileError"), Say("TeardownError"), Say("TornDown"),
                              Say("TearingDown"), Say("Unavailable"), Keep("Invalid"),
                              Keep("Superseded"), Reset("InternalError")}
      \/ w.full = Spans(r) /\ NewStatus(r, w) = Final
  BY <1>3 DEF NewStatus, Spans
<1> HIDE DEF old
<1>5. \A reason : /\ Say(reason).completed = old.completed \cup w.full /\ Say(reason).done = old.done
                  /\ Keep(reason).completed = old.completed /\ Keep(reason).done = old.done
                  /\ Reset(reason).completed = {} /\ Reset(reason).done = old.done
  BY <1>1 DEF Statuses
<1>6. Final.completed = old.completed \cup w.full
  BY <1>1 DEF Statuses
<1> HIDE DEF Say, Keep, Reset, Final
<1>7. CASE w.full = Spans(r) /\ NewStatus(r, w) = Final
  <2>1. NewStatus(r, w).completed = old.completed \cup w.full
    BY <1>6, <1>7
  <2>2. QED
    BY <1>1, <1>2, <1>7, <2>1 DEF Earned
<1>8. CASE NewStatus(r, w) \in {Say("ReconcileError"), Say("TeardownError"), Say("TornDown"),
                                Say("TearingDown"), Say("Unavailable"), Keep("Invalid"),
                                Keep("Superseded"), Reset("InternalError")}
  <2>1. /\ NewStatus(r, w).done = old.done
        /\ NewStatus(r, w).completed \in {{}, old.completed, old.completed \cup w.full}
    BY <1>5, <1>8
  <2>2. QED
    BY <1>1, <2>1 DEF Earned
<1>9. QED
  BY <1>4, <1>7, <1>8

\* What is known after a step.
LEMMA KnownIs ==
  ASSUME NEW r, NEW w
  PROVE  WorkerEarned(r, w)' <=>
           /\ w.at \in {"finalizer", "objects", "teardown", "report"} =>
                /\ Earned(r, w.self.status)'
                /\ \A k \in w.full : \A o \in Phases[r][k] : <<r, o>> \in met'
           /\ w.at = "objects" /\ w.clean =>
                \A o \in Phases[r][w.phase] \ w.todo : <<r, o>> \in met'
BY DEF WorkerEarned, Earned, Seen, Manages, Last

LEMMA GlimpseEarned ==
  ASSUME TypeInv', MetInv', NEW r \in Revs, NEW w \in Acting(r), NEW k \in Glimpse(r, w)
  PROVE  \A o \in Phases[r][k] : <<r, o>> \in met'
<1>1. k \in Spans(r) /\ w.siblings \in SUBSET Revs
  BY GlimpseTyped DEF Acting
<1>2. SUFFICES ASSUME NEW o \in Phases[r][k] PROVE <<r, o>> \in met'
  OBVIOUS
<1>3. o \in Objects /\ o \in Manages(r)
  BY <1>1, PhaseFacts DEF Manages, Spans
<1>4. Fits(r, w.siblings, obj'[o])
  BY DEF Glimpse
<1>5. Fits(r, {q \in Revs : q > r}, obj'[o])
  BY <1>1, <1>4, FitsWider
<1>6. r \in MetBy(o, obj'[o])
  BY <1>3, <1>5 DEF MetBy
<1>7. QED
  BY <1>3, <1>6 DEF MetInv, MetBy, Manages, Last, Fits, Verdict

\* Where a worker goes from the last object of a phase.
LEMMA NextPhaseEarned ==
  ASSUME TypeInv', MetInv', NEW r \in Revs, NEW w \in Acting(r), w.at = "objects", w.todo = {},
         WorkerEarned(r, w)', NEW v, v = NextPhase(r, w)
  PROVE  WorkerEarned(r, v)'
<1> DEFINE full == w.full \cup (IF w.clean THEN {w.phase} ELSE {})
           Go(pass) == [w EXCEPT !.pass = pass, !.phase = w.phase + 1,
                          !.todo = Phases[r][w.phase + 1], !.clean = TRUE, !.full = full]
           last == [w EXCEPT !.moved = w.moved /\ w.pass = "gated" /\ w.phase = Last(r)]
<1>1. /\ Earned(r, w.self.status)'
      /\ \A k \in full : \A o \in Phases[r][k] : <<r, o>> \in met'
  BY KnownIs
<1>2. \A k \in Glimpse(r, w) : \A o \in Phases[r][k] : <<r, o>> \in met'
  BY GlimpseEarned
<1>3. v \in {Report(w, full), Go("gated"), Go("drift"), Report(last, full \cup Glimpse(r, w))}
  BY DEF NextPhase
<1>4. last \in Acting(r) /\ last.self = w.self
  BY DEF Acting
<1>5. \A pass : /\ Go(pass).at = "objects" /\ Go(pass).self = w.self /\ Go(pass).full = full
                /\ Go(pass).todo = Phases[r][Go(pass).phase]
  BY DEF Acting
<1> HIDE DEF full, last, Go
<1>6. \A fs : /\ Report(w, fs).at = "report" /\ Report(last, fs).at = "report"
              /\ Report(w, fs).self = w.self /\ Report(last, fs).self = w.self
              /\ Report(w, fs).full = fs /\ Report(last, fs).full = fs
  BY <1>4, ReportFields
<1>7. CASE v = Go("gated") \/ v = Go("drift")
  BY <1>1, <1>5, <1>7, KnownIs
<1>8. CASE v = Report(w, full)
  BY <1>1, <1>6, <1>8, KnownIs
<1>9. CASE v = Report(last, full \cup Glimpse(r, w))
  <2>1. v.at = "report" /\ v.self = w.self /\ v.full = full \cup Glimpse(r, w)
    BY <1>6, <1>9
  <2>2. QED
    BY <1>1, <1>2, <2>1, KnownIs
<1>10. QED
  BY <1>3, <1>7, <1>8, <1>9

LEMMA AdvanceEarned ==
  ASSUME TypeInv, TypeInv', MetInv', NEW r \in Revs, NEW w \in Acting(r), w.at = "objects",
         w.todo \subseteq Phases[r][w.phase], WorkerEarned(r, w)', Advance(r, w)
  PROVE  WorkerEarned(r, work[r])' /\ \A q \in Revs : q # r => work'[q] = work[q]
<1>1. NextPhase(r, w) \in Busy(r)
  BY NextPhaseTyped
<1>2. w.todo # {} => w \in Busy(r)
  BY DEF Busy
<1>3. /\ work'[r] = IF w.todo = {} THEN NextPhase(r, w) ELSE w
      /\ \A q \in Revs : q # r => work'[q] = work[q]
  BY <1>1, <1>2, BecomeTyped DEF Advance, WorkersOf, TypeInv
<1>4. PICK v : v = work'[r] /\ WorkerEarned(r, v)'
  <2>1. CASE w.todo = {}
    <3>1. PICK v : v = NextPhase(r, w)
      OBVIOUS
    <3>2. WorkerEarned(r, v)'
      BY <2>1, <3>1, NextPhaseEarned
    <3>3. QED
      BY <1>3, <2>1, <3>1, <3>2
  <2>2. CASE w.todo # {}
    BY <1>3, <2>2
  <2>3. QED
    BY <2>1, <2>2
<1>5. QED
  BY <1>3, <1>4 DEF WorkerEarned, Earned, Seen, Manages, Last

\* What is known of an object before the worker goes on from it.
LEMMA ObjectEarned ==
  ASSUME TypeInv, TypeInv', EarnInv, NEW r \in Revs, ReconcileObject(r) \/ WriteFails(r)
  PROVE  /\ met \subseteq met' /\ MetInv'
         /\ \E u \in Acting(r) :
              /\ u.at = "objects" /\ Advance(r, u) /\ WorkerEarned(r, u)'
              /\ u.phase = work[r].phase /\ u.todo \subseteq Phases[r][u.phase]
<1> DEFINE w == work[r]
           o == Min(w.todo)
           v == Verdict(r, w.siblings, obj[o])
           x == IF v = "write" THEN Desired(r, o) ELSE obj[o]
<1>1. /\ w \in Acting(r) /\ w.at = "objects" /\ o \in Objects /\ o \in Manages(r)
      /\ o \in w.todo /\ w.todo \subseteq Phases[r][w.phase] /\ w.siblings \in SUBSET Revs
  BY AtObject DEF ReconcileObject, WriteFails, Acting
<1>2. WorkerEarned(r, w) /\ MetInv /\ ViewsEarned
  BY DEF EarnInv
<1>3. SetObject(o, x) \/ SetObject(o, obj[o])
  BY DEF ReconcileObject, WriteFails
<1>4. met \subseteq met' /\ MetInv'
  BY <1>2, <1>3, SetObjectMet
<1>5. UNCHANGED <<api, cache>>
  BY DEF ReconcileObject, WriteFails
<1>6. PICK u \in Acting(r) :
        /\ u.at = "objects" /\ u.self = w.self /\ Advance(r, u)
        /\ u.phase = w.phase /\ u.todo = w.todo \ {o} /\ u.full = w.full
        /\ u.clean => w.clean /\ <<r, o>> \in met'
  <2>1. CASE ReconcileObject(r)
    <3> DEFINE u == [w EXCEPT !.todo = w.todo \ {o}, !.clean = w.clean /\ Fits(r, w.siblings, x),
                              !.moved = w.moved /\ v = "progressed"]
    <3>1. Advance(r, u) /\ SetObject(o, x)
      BY <2>1 DEF ReconcileObject
    <3>2. (w.clean /\ Fits(r, w.siblings, x)) \in BOOLEAN /\ (w.moved /\ v = "progressed") \in BOOLEAN
      BY <1>1 DEF Acting
    <3>3. Fits(r, w.siblings, x) => <<r, o>> \in met'
      <4>1. Fits(r, w.siblings, x) => Fits(r, {q \in Revs : q > r}, x)
        BY <1>1, FitsWider
      <4> HIDE DEF w, o, v, x
      <4>2. QED
        BY <1>1, <3>1, <4>1 DEF SetObject, MetBy
    <3> HIDE DEF w, o, v, x
    <3>4. /\ u \in Acting(r) /\ u.at = "objects" /\ u.self = w.self /\ u.phase = w.phase
          /\ u.todo = w.todo \ {o} /\ u.full = w.full
          /\ u.clean = (w.clean /\ Fits(r, w.siblings, x))
      BY <1>1, <3>2 DEF Acting
    <3> HIDE DEF u
    <3>5. QED
      BY <3>1, <3>3, <3>4
  <2>2. CASE WriteFails(r)
    <3> DEFINE u == [w EXCEPT !.todo = w.todo \ {o}, !.clean = FALSE, !.moved = FALSE,
                              !.error = "object"]
    <3>1. Advance(r, u)
      BY <2>2 DEF WriteFails
    <3> HIDE DEF w, o, v, x
    <3>2. /\ u \in Acting(r) /\ u.at = "objects" /\ u.self = w.self /\ u.phase = w.phase
          /\ u.todo = w.todo \ {o} /\ u.full = w.full /\ u.clean = FALSE
      BY <1>1 DEF Acting
    <3> HIDE DEF u
    <3>3. QED
      BY <3>1, <3>2
  <2>3. QED
    BY <2>1, <2>2
<1>7. WorkerEarned(r, u)'
  <2>1. /\ Earned(r, u.self.status)'
        /\ \A k \in u.full : \A p \in Phases[r][k] : <<r, p>> \in met'
    BY <1>1, <1>2, <1>4, <1>6, EarnedStays DEF WorkerEarned, Seen
  <2>2. u.clean => \A p \in Phases[r][u.phase] \ u.todo : <<r, p>> \in met'
    <3> HIDE DEF o, v, x
    <3>1. QED
      BY <1>1, <1>2, <1>4, <1>6 DEF WorkerEarned, Seen
  <2>3. QED
    BY <1>6, <2>1, <2>2, KnownIs
<1> HIDE DEF o, v, x
<1>8. u.todo \subseteq Phases[r][u.phase] /\ u.phase = work[r].phase
  BY <1>1, <1>6
<1> HIDE DEF w
<1>9. QED
  BY <1>4, <1>6, <1>7, <1>8

LEMMA ReconcileObjectEarned ==
  ASSUME TypeInv, TypeInv', EarnInv, NEW r \in Revs, ReconcileObject(r) \/ WriteFails(r)
  PROVE  EarnInv'
<1>1. met \subseteq met' /\ MetInv'
  BY ObjectEarned
<1>2. PICK u \in Acting(r) :
        /\ u.at = "objects" /\ Advance(r, u) /\ WorkerEarned(r, u)'
        /\ u.todo \subseteq Phases[r][u.phase]
  BY ObjectEarned
<1>3. WorkerEarned(r, work[r])' /\ \A q \in Revs : q # r => work'[q] = work[q]
  BY <1>1, <1>2, AdvanceEarned
<1>4. \A q \in Revs : WorkerEarned(q, work[q])'
  BY <1>1, <1>3, WorkerEarnedStays DEF EarnInv
<1>5. UNCHANGED <<api, cache>>
  BY DEF ReconcileObject, WriteFails
<1>6. ViewsEarned'
  BY <1>1, <1>5, ViewsStayEarned, SameViews DEF EarnInv
<1>7. QED
  BY <1>1, <1>4, <1>6 DEF EarnInv

\* A step in which no object and no listing changes.
LEMMA QuietEarned ==
  ASSUME EarnInv, UNCHANGED <<api, cache, obj, met>>,
         \A q \in Revs : WorkerEarned(q, work'[q])
  PROVE  EarnInv'
<1>1. MetInv' /\ ViewsEarned'
  BY SameMet, SameViews, ViewsStayEarned DEF EarnInv
<1>2. \A q \in Revs : WorkerEarned(q, work[q])'
  BY DEF WorkerEarned, Earned, Seen, Manages, Last
<1>3. QED
  BY <1>1, <1>2 DEF EarnInv

\* A worker that knows of no completion.
LEMMA PlainEarned ==
  ASSUME NEW r, NEW w, w.at \in {"idle", "wait", "release"}
  PROVE  WorkerEarned(r, w)
BY DEF WorkerEarned

LEMMA IdleEarned ==
  ASSUME NEW r
  PROVE  WorkerEarned(r, Idle) /\ WorkerEarned(r, [at |-> "wait"])
         /\ \A c : WorkerEarned(r, [at |-> "release", self |-> c])
BY DEF WorkerEarned, Idle

\* A write, by a worker that ends with it or by others.
LEMMA WriteEarned ==
  ASSUME TypeInv, EarnInv, NEW g \in Listings, Put(g), UNCHANGED <<obj, met, cache>>,
         \A q \in DOMAIN g : Earned(q, g[q].status),
         \A q \in Revs : work'[q] = work[q] \/ work'[q].at \in {"idle", "wait", "release"}
  PROVE  EarnInv'
<1>1. MetInv' /\ ViewsEarned'
  BY PutEarned
<1>2. \A q \in Revs : WorkerEarned(q, work'[q])
  BY PlainEarned DEF EarnInv
<1>3. \A q \in Revs : WorkerEarned(q, work[q])'
  BY <1>2 DEF WorkerEarned, Earned, Seen, Manages, Last
<1>4. QED
  BY <1>1, <1>3 DEF EarnInv

LEMMA StoreEarned ==
  ASSUME EarnInv, NEW r \in Revs, NEW c, Earned(r, c.status)
  PROVE  /\ \A q \in DOMAIN Store(cos, r, c) : Earned(q, Store(cos, r, c)[q].status)
         /\ \A q \in DOMAIN Settled(Store(cos, r, c), r) :
              Earned(q, Settled(Store(cos, r, c), r)[q].status)
         /\ \A q \in DOMAIN Without(cos, r) : Earned(q, Without(cos, r)[q].status)
<1> DEFINE g == Store(cos, r, c)
<1>1. \A q \in DOMAIN cos : Earned(q, cos[q].status)
  BY DEF EarnInv, ViewsEarned, Views
<1>2. \A q \in DOMAIN g : g[q] = IF q = r THEN c ELSE cos[q]
  BY DEF Store
<1>3. DOMAIN g = DOMAIN cos \cup {r}
  BY DEF Store
<1> HIDE DEF g
<1>4. \A q \in DOMAIN g : Earned(q, g[q].status)
  BY <1>1, <1>2, <1>3
<1>5. \A q \in DOMAIN Settled(g, r) : Earned(q, Settled(g, r)[q].status)
  BY <1>4 DEF Settled, Without
<1>6. \A q \in DOMAIN Without(cos, r) : Earned(q, Without(cos, r)[q].status)
  BY <1>1 DEF Without
<1>7. QED
  BY <1>4, <1>5, <1>6 DEF g

LEMMA WorkerFresh ==
  ASSUME NEW r, NEW place, NEW k, r \in DOMAIN cache, EarnInv
  PROVE  WorkerEarned(r, Worker(r, place, k))
<1> DEFINE w == Worker(r, place, k)
<1>1. w.self = cache[r] /\ w.full = {} /\ w.todo = Phases[r][k] /\ w.phase = k
  BY DEF Worker
<1>2. Earned(r, cache[r].status)
  BY DEF EarnInv, ViewsEarned, Views
<1> HIDE DEF w
<1>3. WorkerEarned(r, w)
  BY <1>1, <1>2 DEF WorkerEarned, Seen
<1>4. QED
  BY <1>3 DEF w

LEMMA OpeningEarned ==
  ASSUME TypeInv, EarnInv, NEW r \in Revs
  PROVE  WorkerEarned(r, Opening(r))
<1>1. CASE r \notin DOMAIN cache
  BY <1>1, IdleEarned DEF Opening
<1>2. CASE r \in DOMAIN cache
  <2>1. \/ Opening(r) \in {Idle, [at |-> "release", self |-> cache[r]]}
        \/ \E place, k : Opening(r) = Worker(r, place, k)
    BY <1>2 DEF Opening
  <2>2. QED
    BY <1>2, <2>1, IdleEarned, WorkerFresh
<1>3. QED
  BY <1>1, <1>2

LEMMA BeginEarned ==
  ASSUME TypeInv, EarnInv, NEW r \in Revs,
         Begin(r) \/ \E kind \in {"resolution", "internal"} : BeginFails(r, kind)
  PROVE  EarnInv'
<1>1. CASE Begin(r)
  <2>1. work'[r] = Opening(r) /\ \A q \in Revs : q # r => work'[q] = work[q]
    BY <1>1, OpeningTyped, BecomeTyped DEF Begin, TypeInv
  <2>2. \A q \in Revs : WorkerEarned(q, work'[q])
    BY <2>1, OpeningEarned DEF EarnInv
  <2>3. QED
    BY <1>1, <2>2, QuietEarned DEF Begin
<1>2. ASSUME NEW kind \in {"resolution", "internal"}, BeginFails(r, kind)
      PROVE  EarnInv'
  <2> DEFINE w == Opening(r)
             v == Report(w, {})
             u == [v EXCEPT !.error = kind]
  <2>1. w \in Acting(r) /\ w.at \in {"objects", "teardown"}
    BY <1>2, OpeningTyped DEF BeginFails, Busy
  <2>2. v.at = "report" /\ v.self = w.self /\ v.full = {} /\ v \in Acting(r)
    BY <2>1, ReportFields, ReportTyped DEF Busy
  <2>3. WorkerEarned(r, w)
    BY OpeningEarned
  <2>4. Become(r, u) /\ UNCHANGED <<obj, met, api, cache>>
    BY <1>2 DEF BeginFails
  <2> HIDE DEF v, w
  <2>5. u.at = "report" /\ u.self = v.self /\ u.full = {} /\ u \in Busy(r)
    BY <2>2 DEF Acting, Busy
  <2>6. WorkerEarned(r, u)
    BY <2>1, <2>2, <2>3, <2>5 DEF WorkerEarned
  <2> HIDE DEF u
  <2>7. work'[r] = u /\ \A q \in Revs : q # r => work'[q] = work[q]
    BY <2>4, <2>5, BecomeTyped DEF TypeInv, WorkersOf
  <2>8. \A q \in Revs : WorkerEarned(q, work'[q])
    BY <2>6, <2>7 DEF EarnInv
  <2>9. QED
    BY <2>4, <2>8, QuietEarned
<1>3. QED
  BY <1>1, <1>2

LEMMA EndingEarned ==
  ASSUME TypeInv, EarnInv, NEW r \in Revs, AwaitRemoval(r) \/ Fail(r)
  PROVE  EarnInv'
<1>1. work'[r] = Idle /\ \A q \in Revs : q # r => work'[q] = work[q]
  BY IdleTyped, BecomeTyped DEF AwaitRemoval, Fail, End, TypeInv
<1>2. \A q \in Revs : WorkerEarned(q, work'[q])
  BY <1>1, IdleEarned DEF EarnInv
<1>3. UNCHANGED <<api, cache, obj, met>>
  BY DEF AwaitRemoval, Fail
<1>4. QED
  BY <1>2, <1>3, QuietEarned

LEMMA EnsureFinalizerEarned ==
  ASSUME TypeInv, EarnInv, NEW r \in Revs, EnsureFinalizer(r)
  PROVE  EarnInv'
<1>1. work'[r] = Idle /\ \A q \in Revs : q # r => work'[q] = work[q]
  BY IdleTyped, BecomeTyped DEF EnsureFinalizer, End, TypeInv
<1>2. CASE r \in DOMAIN cos /\ ~cos[r].deleting
  <2> DEFINE c == [cos[r] EXCEPT !.finalizer = TRUE]
             g == Store(cos, r, c)
  <2>1. cos[r] \in COSOf(r) /\ cos \in Listings
    BY <1>2, ListingIs DEF TypeInv, ApiOK
  <2>2. c \in COSOf(r) /\ c.status = cos[r].status
    BY <2>1, FinalizedIs DEF COSOf, COS
  <2>3. Earned(r, c.status)
    BY <1>2, <2>2 DEF EarnInv, ViewsEarned, Views
  <2>4. Put(g) /\ UNCHANGED <<obj, met, cache>>
    BY <1>2 DEF EnsureFinalizer
  <2> HIDE DEF c
  <2>5. g \in Listings /\ \A q \in DOMAIN g : Earned(q, g[q].status)
    BY <2>1, <2>2, <2>3, StoreListed, StoreEarned
  <2> HIDE DEF g
  <2>6. QED
    BY <1>1, <2>4, <2>5, WriteEarned DEF Idle
<1>3. CASE ~(r \in DOMAIN cos /\ ~cos[r].deleting)
  <2>1. UNCHANGED <<api, cache, obj, met>>
    BY <1>3 DEF EnsureFinalizer
  <2>2. \A q \in Revs : WorkerEarned(q, work'[q])
    BY <1>1, IdleEarned DEF EarnInv
  <2>3. QED
    BY <2>1, <2>2, QuietEarned
<1>4. QED
  BY <1>2, <1>3

LEMMA UpdateStatusEarned ==
  ASSUME TypeInv, EarnInv, NEW r \in Revs, UpdateStatus(r)
  PROVE  EarnInv'
<1> DEFINE w == work[r]
           s == NewStatus(r, w)
           c == [w.self EXCEPT !.status = s]
           g == Store(cos, r, c)
           refused == c # w.self /\ (r \notin DOMAIN cos \/ cos[r] # w.self)
<1>1. w \in Acting(r) /\ w.self \in COSOf(r) /\ w.at = "report"
  BY WorkerIs DEF TypeInv, WorkOK, UpdateStatus, Busy, Acting
<1>2. Earned(r, s)
  BY <1>1, NewStatusEarned DEF EarnInv
<1>3. c \in COSOf(r)
  BY <1>1, NewStatusTyped, ReportedIs
<1> HIDE DEF s
<1>4. c.status = s
  BY <1>1 DEF COSOf, COS
<1>5. \A q \in Revs : work'[q] = work[q] \/ work'[q].at \in {"idle", "release"}
  <2>1. PICK v \in {[at |-> "release", self |-> c], Idle} : Become(r, v)
    BY DEF UpdateStatus, End, s
  <2> HIDE DEF c
  <2>2. v \in WorkersOf(r) /\ v.at \in {"idle", "release"}
    BY <1>3, IdleTyped DEF Idle
  <2>3. QED
    BY <2>1, <2>2, BecomeTyped DEF TypeInv
<1>6. /\ IF c # w.self /\ ~refused THEN Put(g) ELSE UNCHANGED api
      /\ UNCHANGED <<obj, met, cache>>
  BY DEF UpdateStatus, s
<1>7. CASE c # w.self /\ ~refused
  <2>1. r \in DOMAIN cos /\ cos \in Listings
    BY <1>7 DEF TypeInv, ApiOK
  <2> HIDE DEF c
  <2>2. g \in Listings /\ \A q \in DOMAIN g : Earned(q, g[q].status)
    BY <1>2, <1>3, <1>4, <2>1, StoreListed, StoreEarned
  <2>3. Put(g)
    BY <1>6, <1>7
  <2> HIDE DEF g
  <2>4. QED
    BY <1>5, <1>6, <2>2, <2>3, WriteEarned
<1>8. CASE ~(c # w.self /\ ~refused)
  <2>1. UNCHANGED <<api, cache, obj, met>>
    BY <1>6, <1>8
  <2>2. \A q \in Revs : WorkerEarned(q, work'[q])
    BY <1>5, PlainEarned DEF EarnInv
  <2>3. QED
    BY <2>1, <2>2, QuietEarned
<1>9. QED
  BY <1>7, <1>8

LEMMA ReleaseEarned ==
  ASSUME TypeInv, EarnInv, NEW r \in Revs, Release(r)
  PROVE  EarnInv'
<1> DEFINE c == work[r].self
           d == [c EXCEPT !.finalizer = FALSE]
           h == Store(cos, r, d)
           g == Settled(h, r)
<1>1. c \in COSOf(r)
  BY WorkerIs DEF TypeInv, WorkOK, Release
<1>2. d \in COSOf(r) /\ d.status = c.status
  BY <1>1, FinalizedIs DEF COSOf, COS
<1>3. CASE r \in DOMAIN cos /\ cos[r] = c
  <2>1. Put(g) /\ Become(r, [at |-> "wait"]) /\ UNCHANGED <<obj, met, cache>>
    BY <1>3 DEF Release
  <2>2. Earned(r, d.status) /\ cos \in Listings
    BY <1>2, <1>3 DEF EarnInv, ViewsEarned, Views, TypeInv, ApiOK
  <2> HIDE DEF d
  <2>3. \A q \in DOMAIN g : Earned(q, g[q].status)
    BY <2>2, StoreEarned
  <2>4. h \in Listings
    BY <1>2, <2>2, StoreListed
  <2> HIDE DEF h
  <2>5. g \in Listings
    BY <2>4, SettledListed
  <2> HIDE DEF g
  <2>6. work'[r].at = "wait" /\ \A q \in Revs : q # r => work'[q] = work[q]
    BY <2>1, IdleTyped, BecomeTyped DEF TypeInv
  <2>7. QED
    BY <2>1, <2>3, <2>5, <2>6, WriteEarned
<1>4. CASE ~(r \in DOMAIN cos /\ cos[r] = c)
  <2>1. UNCHANGED <<api, cache, obj, met>> /\ Become(r, Idle)
    BY <1>4 DEF Release, End
  <2>2. work'[r] = Idle /\ \A q \in Revs : q # r => work'[q] = work[q]
    BY <2>1, IdleTyped, BecomeTyped DEF TypeInv
  <2>3. \A q \in Revs : WorkerEarned(q, work'[q])
    BY <2>2, IdleEarned DEF EarnInv
  <2>4. QED
    BY <2>1, <2>3, QuietEarned
<1>5. QED
  BY <1>3, <1>4

LEMMA RequestEarned ==
  ASSUME TypeInv, EarnInv, NEW r \in Revs, Request(r)
  PROVE  EarnInv'
<1>1. cos \in Listings /\ (r \in DOMAIN cos => cos[r] \in COSOf(r) /\ Earned(r, cos[r].status))
  BY ListingIs DEF TypeInv, ApiOK, EarnInv, ViewsEarned, Views
<1>2. ASSUME NEW g \in Listings, Put(g), \A q \in DOMAIN g : Earned(q, g[q].status),
             UNCHANGED <<obj, met, cache, work>>
      PROVE  EarnInv'
  BY <1>2, WriteEarned
<1>3. ASSUME NEW c \in COSOf(r), Earned(r, c.status), UNCHANGED <<obj, met, cache, work>>,
             Put(Store(cos, r, c)) \/ Put(Settled(Store(cos, r, c), r))
      PROVE  EarnInv'
  <2> DEFINE h == Store(cos, r, c)
             k == Settled(h, r)
  <2>1. h \in Listings
    BY <1>1, StoreListed
  <2>2. k \in Listings
    BY <2>1, SettledListed
  <2>3. /\ \A q \in DOMAIN h : Earned(q, h[q].status)
        /\ \A q \in DOMAIN k : Earned(q, k[q].status)
    BY <1>3, StoreEarned
  <2>4. Put(h) \/ Put(k)
    BY <1>3
  <2>5. UNCHANGED <<obj, met, cache, work>>
    BY <1>3
  <2> HIDE DEF h, k
  <2>6. CASE Put(h)
    BY <1>2, <2>1, <2>3, <2>5, <2>6
  <2>7. CASE Put(k)
    BY <1>2, <2>2, <2>3, <2>5, <2>7
  <2>8. QED
    BY <2>4, <2>6, <2>7
<1>4. CASE CreateRevision(r)
  <2>1. NewCOS \in COSOf(r) /\ Earned(r, NewCOS.status)
    BY NewIs DEF NewCOS, Earned
  <2>2. QED
    BY <1>3, <1>4, <2>1 DEF CreateRevision
<1>5. CASE Archive(r)
  <2> DEFINE c == [cos[r] EXCEPT !.archived = TRUE]
  <2>1. r \in DOMAIN cos /\ Put(Store(cos, r, c)) /\ UNCHANGED <<obj, met, cache, work>>
    BY <1>5 DEF Archive
  <2>2. c \in COSOf(r) /\ c.status = cos[r].status
    BY <1>1, <2>1, ArchivedIs DEF COSOf, COS
  <2> HIDE DEF c
  <2>3. QED
    BY <1>1, <1>3, <2>1, <2>2
<1>6. CASE FinishOrphaning(r)
  <2> DEFINE g == Without(cos, r)
  <2>1. r \in DOMAIN cos /\ Put(g) /\ UNCHANGED <<obj, met, cache, work>>
    BY <1>6 DEF FinishOrphaning
  <2>2. g \in Listings /\ \A q \in DOMAIN g : Earned(q, g[q].status)
    <3>1. g \in Listings
      BY <1>1, WithoutListed
    <3>2. \A q \in DOMAIN g : Earned(q, g[q].status)
      BY <1>1, <2>1, StoreEarned
    <3>3. QED
      BY <3>1, <3>2
  <2> HIDE DEF g
  <2>3. QED
    BY <1>2, <2>1, <2>2
<1>7. ASSUME NEW orphan \in BOOLEAN, Delete(r, orphan)
      PROVE  EarnInv'
  <2> DEFINE c == [cos[r] EXCEPT !.deleting = TRUE, !.orphan = orphan]
  <2>1. /\ r \in DOMAIN cos /\ Put(Settled(Store(cos, r, c), r))
        /\ UNCHANGED <<obj, met, cache, work>>
    BY <1>7 DEF Delete
  <2>2. c \in COSOf(r) /\ c.status = cos[r].status
    BY <1>1, <2>1, DeletedIs DEF COSOf, COS
  <2> HIDE DEF c
  <2>3. QED
    BY <1>1, <1>3, <2>1, <2>2
<1>8. QED
  BY <1>4, <1>5, <1>6, <1>7 DEF Request

\* Where a teardown goes from an object.
LEMMA RetreatEarned ==
  ASSUME TypeInv, met \subseteq met', NEW r \in Revs, NEW w \in Acting(r), w.at = "teardown",
         w.todo \subseteq Phases[r][w.phase], WorkerEarned(r, w), Retreat(r, w)
  PROVE  /\ WorkerEarned(r, work[r])' /\ work'[r].at \in {"teardown", "report"}
         /\ \A q \in Revs : q # r => work'[q] = work[q]
<1> DEFINE x == [w EXCEPT !.phase = w.phase - 1, !.todo = Phases[r][w.phase - 1]]
           y == Report(w, {})
<1>1. PrevPhase(r, w) \in Busy(r) /\ PrevPhase(r, w) \in {x, y}
  BY PrevPhaseTyped DEF PrevPhase
<1>2. w.todo # {} => w \in Busy(r)
  BY DEF Busy
<1>3. /\ work'[r] = IF w.todo = {} THEN PrevPhase(r, w) ELSE w
      /\ \A q \in Revs : q # r => work'[q] = work[q]
  BY <1>1, <1>2, BecomeTyped DEF Retreat, WorkersOf, TypeInv
<1>4. x.at = "teardown" /\ x.self = w.self /\ x.full = w.full
  BY DEF Acting
<1>5. y.at = "report" /\ y.self = w.self /\ y.full = {}
  BY ReportFields
<1> HIDE DEF x, y
<1>6. PICK v : v = work'[r]
  OBVIOUS
<1>7. v.at \in {"teardown", "report"} /\ v.self = w.self /\ v.full \in {{}, w.full}
  BY <1>1, <1>3, <1>4, <1>5, <1>6
<1>8. Earned(r, w.self.status)' /\ \A k \in w.full : \A o \in Phases[r][k] : <<r, o>> \in met'
  BY EarnedStays DEF WorkerEarned, Seen
<1>9. WorkerEarned(r, v)'
  BY <1>7, <1>8, KnownIs
<1>10. QED
  BY <1>3, <1>6, <1>7, <1>9 DEF WorkerEarned, Earned, Seen, Manages, Last

\* Where a worker is after an object of a teardown, before it goes on.
LEMMA ObjectTornDown ==
  ASSUME TypeInv, NEW r \in Revs, TeardownObject(r) \/ DeletionFails(r)
  PROVE  \E u \in Acting(r) :
           /\ u.at = "teardown" /\ u.self = work[r].self /\ u.full = work[r].full
           /\ u.phase = work[r].phase /\ u.todo \subseteq work[r].todo /\ Retreat(r, u)
<1> DEFINE w == work[r]
           o == Min(w.todo)
           mine == obj[o].holder = r
<1>1. w \in Acting(r) /\ w.at = "teardown"
  BY AtObject DEF TeardownObject, DeletionFails
<1>2. CASE TeardownObject(r)
  <2> DEFINE u == [w EXCEPT !.todo = w.todo \ {o}, !.clean = w.clean /\ ~mine]
  <2>1. Retreat(r, u)
    BY <1>2 DEF TeardownObject
  <2> HIDE DEF w, o, mine
  <2>2. /\ u \in Acting(r) /\ u.at = "teardown" /\ u.self = w.self /\ u.phase = w.phase
        /\ u.todo \subseteq w.todo /\ u.full = w.full
    BY <1>1 DEF Acting
  <2> HIDE DEF u
  <2>3. QED
    BY <2>1, <2>2 DEF w
<1>3. CASE DeletionFails(r)
  <2> DEFINE u == [w EXCEPT !.todo = w.todo \ {o}, !.clean = FALSE, !.error = "object"]
  <2>1. Retreat(r, u)
    BY <1>3 DEF DeletionFails
  <2> HIDE DEF w, o, mine
  <2>2. /\ u \in Acting(r) /\ u.at = "teardown" /\ u.self = w.self /\ u.phase = w.phase
        /\ u.todo \subseteq w.todo /\ u.full = w.full
    BY <1>1 DEF Acting
  <2> HIDE DEF u
  <2>3. QED
    BY <2>1, <2>2 DEF w
<1>4. QED
  BY <1>2, <1>3

LEMMA TeardownObjectEarned ==
  ASSUME TypeInv, EarnInv, NEW r \in Revs, TeardownObject(r) \/ DeletionFails(r)
  PROVE  EarnInv'
<1> DEFINE w == work[r]
           o == Min(w.todo)
           mine == obj[o].holder = r
<1>1. /\ w \in Acting(r) /\ w.at = "teardown" /\ w.todo \subseteq Phases[r][w.phase]
      /\ WorkerEarned(r, w)
  BY AtObject DEF TeardownObject, DeletionFails, EarnInv
<1>2. met \subseteq met' /\ MetInv'
  <2>1. CASE TeardownObject(r)
    <3>1. \E x : SetObject(o, x)
      BY <2>1 DEF TeardownObject
    <3>2. QED
      BY <3>1, SetObjectMet DEF EarnInv
  <2>2. CASE DeletionFails(r)
    BY <2>2, SameMet DEF DeletionFails, EarnInv
  <2>3. QED
    BY <2>1, <2>2
<1>3. UNCHANGED <<api, cache>>
  BY DEF TeardownObject, DeletionFails
<1>4. PICK u \in Acting(r) :
        /\ u.at = "teardown" /\ u.self = w.self /\ u.full = w.full /\ u.phase = w.phase
        /\ u.todo \subseteq w.todo /\ Retreat(r, u)
  BY ObjectTornDown
<1>5. WorkerEarned(r, u)
  BY <1>1, <1>4 DEF WorkerEarned
<1> HIDE DEF w, o, mine
<1>6. WorkerEarned(r, work[r])' /\ \A q \in Revs : q # r => work'[q] = work[q]
  BY <1>1, <1>2, <1>4, <1>5, RetreatEarned
<1>7. \A q \in Revs : WorkerEarned(q, work[q])'
  BY <1>2, <1>6, WorkerEarnedStays DEF EarnInv
<1>8. ViewsEarned'
  BY <1>2, <1>3, ViewsStayEarned, SameViews DEF EarnInv
<1>9. QED
  BY <1>2, <1>7, <1>8 DEF EarnInv

LEMMA HappeningEarned ==
  ASSUME TypeInv, EarnInv, NEW o \in Objects, Happening(o)
  PROVE  EarnInv'
<1>1. PICK x \in Changed(o) : Change(o, x)
  BY HappeningIs
<1>2. SetObject(o, x) /\ UNCHANGED <<api, cache, work>>
  BY <1>1 DEF Change
<1>3. met \subseteq met' /\ MetInv'
  BY <1>2, SetObjectMet DEF EarnInv
<1>4. ViewsEarned'
  BY <1>2, <1>3, ViewsStayEarned, SameViews DEF EarnInv
<1>5. \A r \in Revs : WorkerEarned(r, work[r])'
  BY <1>2, <1>3, WorkerEarnedStays DEF EarnInv
<1>6. QED
  BY <1>3, <1>4, <1>5 DEF EarnInv

LEMMA DeliverEarned ==
  ASSUME TypeInv, EarnInv, DeliverCOS
  PROVE  EarnInv'
<1>1. /\ stream \in Seq(Listings) /\ stream # <<>>
      /\ cache' = Head(stream) /\ stream' = Tail(stream) /\ UNCHANGED <<cos, obj, met, work>>
  BY DEF DeliverCOS, TypeInv, ApiOK
<1>2. /\ 1 \in DOMAIN stream /\ cache' = stream[1]
      /\ \A i \in DOMAIN stream' : i + 1 \in DOMAIN stream /\ stream'[i] = stream[i + 1]
  BY <1>1
<1>3. Views' \subseteq Views
  BY <1>1, <1>2 DEF Views
<1>4. MetInv' /\ ViewsEarned'
  BY <1>1, <1>3, SameMet, ViewsStayEarned DEF EarnInv
<1>5. \A r \in Revs : WorkerEarned(r, work[r])'
  BY <1>1, WorkerEarnedStays DEF EarnInv
<1>6. QED
  BY <1>4, <1>5 DEF EarnInv

LEMMA CrashEarned ==
  ASSUME TypeInv, EarnInv, Crash
  PROVE  EarnInv'
<1>1. /\ work' = [r \in Revs |-> Idle] /\ stream' = <<>> /\ cache' = cos
      /\ UNCHANGED <<obj, met, cos>>
  BY DEF Crash
<1>2. DOMAIN stream' = {}
  BY <1>1
<1>3. Views' \subseteq Views
  BY <1>1, <1>2 DEF Views
<1>4. MetInv' /\ ViewsEarned'
  BY <1>1, <1>3, SameMet, ViewsStayEarned DEF EarnInv
<1>5. \A r \in Revs : WorkerEarned(r, work[r])'
  BY <1>1 DEF WorkerEarned, Idle
<1>6. QED
  BY <1>4, <1>5 DEF EarnInv

LEMMA InitEarned == Init => EarnInv
<1> SUFFICES ASSUME Init PROVE EarnInv
  OBVIOUS
<1>1. DOMAIN stream = {} /\ DOMAIN cos = {} /\ cache = cos
  BY DEF Init
<1>2. Views = {cos}
  BY <1>1 DEF Views
<1>3. MetInv
  BY DEF Init, MetInv, MetBy, Fits, Absent
<1>4. \A r \in Revs : WorkerEarned(r, work[r])
  BY DEF WorkerEarned, Idle, Init
<1>5. QED
  BY <1>1, <1>2, <1>3, <1>4 DEF EarnInv, ViewsEarned

LEMMA StutterEarned == EarnInv /\ UNCHANGED vars => EarnInv'
<1> SUFFICES ASSUME EarnInv, UNCHANGED vars PROVE EarnInv'
  OBVIOUS
<1>1. UNCHANGED <<api, cache, obj, met>> /\ work' = work
  BY DEF vars, api
<1>2. \A q \in Revs : WorkerEarned(q, work'[q])
  BY <1>1 DEF EarnInv
<1>3. QED
  BY <1>1, <1>2, QuietEarned

LEMMA NextEarned == TypeInv /\ TypeInv' /\ EarnInv /\ [Next]_vars => EarnInv'
<1> SUFFICES ASSUME TypeInv, TypeInv', EarnInv, [Next]_vars PROVE EarnInv'
  OBVIOUS
<1>1. ASSUME NEW r \in Revs, Work(r) PROVE EarnInv'
  BY <1>1, BeginEarned, EnsureFinalizerEarned, ReconcileObjectEarned, TeardownObjectEarned,
     UpdateStatusEarned, ReleaseEarned, EndingEarned DEF Work
<1>2. ASSUME NEW r \in Revs, Mishap(r) PROVE EarnInv'
  BY <1>2, BeginEarned, ReconcileObjectEarned, TeardownObjectEarned, EndingEarned DEF Mishap
<1>3. QED
  BY <1>1, <1>2, RequestEarned, HappeningEarned, DeliverEarned, CrashEarned, StutterEarned
     DEF Next

\* No status claims a completion that was not earned: a phase has its
\* completedAt, and a revision its own, only if each object has once been
\* complete, although the claim was made from a copy that is older than the
\* objects, by whichever pass, and was carried over from earlier statuses
\* (Engine.Reconcile, the status update).
THEOREM CompletionIsEarned == Spec => []EarnedCompletion
<1>1. Init => TypeInv /\ EarnInv
  BY InitTyped, InitEarned
<1>2. TypeInv /\ EarnInv /\ [Next]_vars => (TypeInv /\ EarnInv)'
  BY NextTyped, NextEarned
<1>3. EarnInv => EarnedCompletion
  BY DEF EarnInv, ViewsEarned, Views, Earned, Seen, EarnedCompletion
<1>4. QED
  BY <1>1, <1>2, <1>3, PTL DEF Spec

-----------------------------------------------------------------------------
(* Order.  Of a revision that no newer one has followed, an object is in   *)
(* place only if every earlier phase has been, so that a phase that was    *)
(* found complete, by whichever pass, has all earlier ones behind it.      *)

Newest(r) == \A q \in born : q <= r

DoneBefore(r, k) == \A j \in Spans(r) : j < k => Seen(r, Phases[r][j])

Ordered(r) ==
  \A k \in Spans(r) : \A o \in Phases[r][k] :
    obj[o].holder = r \/ <<r, o>> \in met => DoneBefore(r, k)

OrderInv ==
  \A r \in Revs : Newest(r) =>
    Ordered(r) /\ (work[r].at = "objects" => DoneBefore(r, work[r].phase))

LEMMA HolderIsBorn ==
  ASSUME SafeInv, NEW o \in Objects, obj[o].holder \in Revs
  PROVE  obj[o].holder \in born
BY DEF SafeInv, LagInv, NoLeak, Views

\* Nothing has progressed beyond the newest revision.
LEMMA MetByNewest ==
  ASSUME NEW r \in Revs, Newest(r), NEW o, NEW x, x.holder \in Revs => x.holder \in born,
         r \in MetBy(o, x)
  PROVE  x.holder = r
<1>1. Verdict(r, {q \in Revs : q > r}, x) \in {"idle", "progressed"}
  BY DEF MetBy, Fits
<1>2. x.holder = r \/ (x.holder \in Revs /\ x.holder > r)
  BY <1>1, COSAssumption DEF Verdict
<1>3. CASE x.holder \in Revs /\ x.holder > r
  <2>1. PICK h : h = x.holder
    OBVIOUS
  <2>2. h \in born /\ h <= r /\ h > r
    BY <1>3, <2>1 DEF Newest
  <2>3. h \in Nat /\ r \in Nat
    BY <1>3, <2>1, COSAssumption
  <2>4. QED
    BY <2>2, <2>3
<1>4. QED
  BY <1>2, <1>3

LEMMA DoneBeforeStays ==
  ASSUME met \subseteq met', NEW r, NEW k, DoneBefore(r, k)
  PROVE  DoneBefore(r, k)'
BY DEF DoneBefore, Seen, Spans, Last

LEMMA OrderedStays ==
  ASSUME met \subseteq met', NEW r \in Revs, Ordered(r),
         \A k \in Spans(r) : \A o \in Phases[r][k] :
           obj'[o].holder = r \/ <<r, o>> \in met' =>
             obj[o].holder = r \/ <<r, o>> \in met \/ DoneBefore(r, k)
  PROVE  Ordered(r)'
<1>1. ASSUME NEW k \in Spans(r), NEW o \in Phases[r][k],
             obj'[o].holder = r \/ <<r, o>> \in met'
      PROVE  DoneBefore(r, k)'
  <2>1. DoneBefore(r, k)
    BY <1>1 DEF Ordered
  <2>2. QED
    BY <2>1, DoneBeforeStays
<1>2. QED
  BY <1>1 DEF Ordered, DoneBefore, Seen, Spans, Last

\* A step that puts no object of the newest revision in place too early.
LEMMA SetObjectOrdered ==
  ASSUME TypeInv, NEW r \in Revs, Newest(r), Ordered(r),
         NEW o \in Objects, NEW x, SetObject(o, x),
         x.holder \in Revs => x.holder \in born,
         x.holder = r =>
           \/ obj[o].holder = r
           \/ \A k \in Spans(r) : o \in Phases[r][k] => DoneBefore(r, k)
  PROVE  met \subseteq met' /\ Ordered(r)'
<1>1. met' = met \cup (MetBy(o, x) \X {o}) /\ obj' = [obj EXCEPT ![o] = x]
  BY DEF SetObject
<1>2. obj'[o] = x /\ \A p \in Objects : p # o => obj'[p] = obj[p]
  BY <1>1 DEF TypeInv
<1>3. \A p : <<r, p>> \in met' => <<r, p>> \in met \/ (p = o /\ x.holder = r)
  BY <1>1, MetByNewest
<1>4. ASSUME NEW k \in Spans(r), NEW p \in Phases[r][k],
             obj'[p].holder = r \/ <<r, p>> \in met'
      PROVE  obj[p].holder = r \/ <<r, p>> \in met \/ DoneBefore(r, k)
  <2>1. p \in Objects
    BY PhaseFacts
  <2>2. CASE p # o
    BY <1>2, <1>3, <1>4, <2>1, <2>2
  <2>3. CASE p = o
    <3>1. x.holder = r \/ <<r, p>> \in met
      BY <1>2, <1>3, <1>4, <2>3
    <3>2. QED
      BY <2>3, <3>1
  <2>4. QED
    BY <2>2, <2>3
<1>5. QED
  BY <1>1, <1>4, OrderedStays

\* A step that puts nothing in place, and in which a worker that reconciles
\* objects stays where it is or begins.
LEMMA CalmOrder ==
  ASSUME OrderInv, UNCHANGED <<obj, met>>, born \subseteq born',
         \A q \in Revs : work'[q].at = "objects" => work'[q] = work[q] \/ work'[q].phase = 1
  PROVE  OrderInv'
<1>1. ASSUME NEW q \in Revs, Newest(q)'
      PROVE  Ordered(q)' /\ (work'[q].at = "objects" => DoneBefore(q, work[q].phase)')
  <2>1. Newest(q)
    BY <1>1 DEF Newest
  <2>2. Ordered(q)'
    BY <2>1, OrderedStays DEF OrderInv
  <2>3. ASSUME work'[q].at = "objects" PROVE DoneBefore(q, work[q].phase)'
    <3>1. PICK k : k = work'[q].phase
      OBVIOUS
    <3>2. DoneBefore(q, k)
      <4>1. CASE k = 1
        BY <4>1, PhaseFacts DEF DoneBefore, Spans
      <4>2. CASE work'[q] = work[q]
        BY <2>1, <2>3, <3>1, <4>2 DEF OrderInv
      <4>3. QED
        BY <2>3, <3>1, <4>1, <4>2
    <3>3. DoneBefore(q, k)'
      BY <3>2, DoneBeforeStays
    <3>4. QED
      BY <3>1, <3>3 DEF DoneBefore, Seen, Spans, Last
  <2>4. QED
    BY <2>2, <2>3
<1>2. QED
  BY <1>1 DEF OrderInv

\* What a worker may do to itself without touching objects.
LEMMA OpeningOrder ==
  ASSUME NEW r \in Revs, Opening(r).at = "objects"
  PROVE  Opening(r).phase = 1
<1>1. \A c : [at |-> "release", self |-> c].at # "objects"
  OBVIOUS
<1>2. Idle.at # "objects"
  BY DEF Idle
<1>3. \A place, k : Worker(r, place, k).at = place /\ Worker(r, place, k).phase = k
  BY WorkerFields
<1>4. \/ Opening(r) = Idle \/ \E c : Opening(r) = [at |-> "release", self |-> c]
      \/ \E place : Opening(r) = Worker(r, place, 1)
      \/ Opening(r) = Worker(r, "teardown", Last(r))
  <2>1. CASE r \notin DOMAIN cache
    BY <2>1 DEF Opening
  <2>2. CASE r \in DOMAIN cache
    <3> DEFINE c == cache[r]
    <3>1. CASE IsActive(c) /\ ~c.finalizer
      BY <2>2, <3>1 DEF Opening
    <3>2. CASE IsActive(c) /\ c.finalizer
      BY <2>2, <3>2 DEF Opening
    <3>3. CASE ~IsActive(c)
      BY <2>2, <3>3 DEF Opening
    <3>4. QED
      BY <3>1, <3>2, <3>3
  <2>3. QED
    BY <2>1, <2>2
<1>5. QED
  BY <1>1, <1>2, <1>3, <1>4

\* From a phase to the next: what is complete, or was reported as complete, has
\* everything before it behind it.
LEMMA NextPhaseOrder ==
  ASSUME NEW r \in Revs, NEW w \in Acting(r), w.at = "objects", w.todo = {},
         WorkerEarned(r, w)', Ordered(r)', DoneBefore(r, w.phase)',
         NEW v, v = NextPhase(r, w), v.at = "objects"
  PROVE  DoneBefore(r, v.phase)'
<1> DEFINE full == w.full \cup (IF w.clean THEN {w.phase} ELSE {})
           Go(pass) == [w EXCEPT !.pass = pass, !.phase = w.phase + 1,
                          !.todo = Phases[r][w.phase + 1], !.clean = TRUE, !.full = full]
           last == [w EXCEPT !.moved = w.moved /\ w.pass = "gated" /\ w.phase = Last(r)]
           completed == w.self.status.completed
<1>1. /\ \A k \in completed : \A o \in Phases[r][k] : <<r, o>> \in met'
      /\ w.clean => \A o \in Phases[r][w.phase] : <<r, o>> \in met'
  BY KnownIs DEF Earned, Seen
<1>2. w.phase \in Spans(r) /\ completed \subseteq Spans(r)
  BY DEF Acting, COSOf, COS
<1>3. \A pass : Go(pass).phase = w.phase + 1
  BY DEF Acting
<1>4. last \in Acting(r)
  BY DEF Acting
<1>5. /\ \/ v = Go("gated") /\ w.clean
         \/ v = Go("drift") /\ (w.phase + 1 \in completed \/ w.phase \in completed)
         \/ v = Report(w, full) \/ v = Report(last, full \cup Glimpse(r, w))
  BY DEF NextPhase
<1> HIDE DEF full, last, Go, completed
<1>6. \A fs : Report(w, fs).at = "report" /\ Report(last, fs).at = "report"
  BY <1>4, ReportFields
<1>7. \/ v = Go("gated") /\ w.clean
      \/ v = Go("drift") /\ (w.phase + 1 \in completed \/ w.phase \in completed)
  BY <1>5, <1>6
<1>8. v.phase = w.phase + 1 /\ (w.clean \/ w.phase + 1 \in completed \/ w.phase \in completed)
  BY <1>3, <1>7
<1>9. \A j \in Spans(r) : j < w.phase => \A o \in Phases[r][j] : <<r, o>> \in met'
  BY DEF DoneBefore, Seen, Spans, Last
<1>10. \A j \in Spans(r) : j < w.phase + 1 => \A o \in Phases[r][j] : <<r, o>> \in met'
  <2>1. Spans(r) \subseteq Nat
    BY DEF Spans
  <2>2. CASE w.clean \/ w.phase \in completed
    <3>1. \A o \in Phases[r][w.phase] : <<r, o>> \in met'
      BY <1>1, <2>2
    <3>2. \A j \in Spans(r) : j < w.phase + 1 => j < w.phase \/ j = w.phase
      BY <1>2, <2>1
    <3>3. QED
      BY <1>9, <3>1, <3>2
  <2>3. CASE w.phase + 1 \in completed
    <3>1. w.phase + 1 \in Spans(r)
      BY <1>2, <2>3
    <3>2. PICK o \in Phases[r][w.phase + 1] : <<r, o>> \in met'
      BY <1>1, <2>3, <3>1, PhaseFacts
    <3>3. DoneBefore(r, w.phase + 1)'
      BY <3>1, <3>2 DEF Ordered, Spans, Last
    <3>4. QED
      BY <3>3 DEF DoneBefore, Seen, Spans, Last
  <2>4. QED
    BY <1>8, <2>2, <2>3
<1>11. QED
  BY <1>8, <1>10 DEF DoneBefore, Seen, Spans, Last

LEMMA ReconcileObjectOrder ==
  ASSUME TypeInv, TypeInv', SafeInv, EarnInv, OrderInv, NEW r \in Revs,
         ReconcileObject(r) \/ WriteFails(r)
  PROVE  OrderInv'
<1> DEFINE w == work[r]
           o == Min(w.todo)
<1>1. /\ w.at = "objects" /\ o \in Objects /\ o \in w.todo /\ w.phase \in Spans(r)
      /\ w.todo \subseteq Phases[r][w.phase]
  BY AtObject DEF ReconcileObject, WriteFails
<1>2. PICK u \in Acting(r) :
        /\ u.at = "objects" /\ Advance(r, u) /\ WorkerEarned(r, u)'
        /\ u.phase = w.phase /\ u.todo \subseteq Phases[r][u.phase]
  BY ObjectEarned
<1>3. PICK x \in {obj[o], Desired(r, o)} : SetObject(o, x)
  BY DEF ReconcileObject, WriteFails
<1>4. x.holder \in {obj[o].holder, r}
  BY DEF Desired
<1>5. r \in born
  BY <1>1 DEF SafeInv, WorkerInv, Protected, LagInv, Views
<1>6. x.holder \in Revs => x.holder \in born
  BY <1>1, <1>4, <1>5, HolderIsBorn
<1>7. \A k \in Spans(r) : o \in Phases[r][k] => k = w.phase
  BY <1>1, PhaseFacts
<1>8. born' = born
  BY DEF ReconcileObject, WriteFails
<1> HIDE DEF w, o
<1>9. ASSUME NEW q \in Revs, Newest(q)'
      PROVE  met \subseteq met' /\ Newest(q) /\ Ordered(q)'
  <2>1. Newest(q) /\ Ordered(q)
    BY <1>8, <1>9 DEF Newest, OrderInv
  <2>2. ASSUME x.holder = q
        PROVE  obj[o].holder = q \/ \A k \in Spans(q) : o \in Phases[q][k] => DoneBefore(q, k)
    <3>1. CASE q # r
      BY <1>4, <2>2, <3>1
    <3>2. CASE q = r
      <4>1. DoneBefore(r, w.phase)
        BY <1>1, <2>1, <3>2 DEF OrderInv, w
      <4>2. QED
        BY <1>7, <3>2, <4>1
    <3>3. QED
      BY <3>1, <3>2
  <2>3. QED
    BY <1>1, <1>3, <1>6, <2>1, <2>2, SetObjectOrdered
<1>10. NextPhase(r, u) \in Busy(r)
  BY <1>2, NextPhaseTyped
<1>11. u.todo # {} => u \in Busy(r)
  BY <1>2 DEF Busy
<1>12. /\ work'[r] = IF u.todo = {} THEN NextPhase(r, u) ELSE u
       /\ \A q \in Revs : q # r => work'[q] = work[q]
  BY <1>2, <1>10, <1>11, BecomeTyped DEF Advance, WorkersOf, TypeInv
<1>13. ASSUME NEW q \in Revs, Newest(q)', work'[q].at = "objects",
              NEW k, k = work'[q].phase
       PROVE  DoneBefore(q, k)'
  <2>1. met \subseteq met' /\ Newest(q) /\ Ordered(q)'
    BY <1>9, <1>13
  <2>2. CASE q # r
    <3>1. DoneBefore(q, k)
      BY <1>12, <1>13, <2>1, <2>2 DEF OrderInv
    <3>2. QED
      BY <2>1, <3>1, DoneBeforeStays
  <2>3. CASE q = r
    <3>1. DoneBefore(r, w.phase)
      BY <1>1, <2>1, <2>3 DEF OrderInv, w
    <3>2. PICK j : j = w.phase
      OBVIOUS
    <3>3. DoneBefore(r, j)'
      BY <2>1, <3>1, <3>2, DoneBeforeStays
    <3>4. CASE u.todo # {}
      BY <1>2, <1>12, <1>13, <2>3, <3>2, <3>3, <3>4
    <3>5. CASE u.todo = {}
      <4>1. PICK v : v = NextPhase(r, u)
        OBVIOUS
      <4>2. v.at = "objects" /\ k = v.phase
        BY <1>12, <1>13, <2>3, <3>5, <4>1
      <4>3. DoneBefore(r, u.phase)'
        BY <1>2, <3>2, <3>3 DEF DoneBefore, Seen, Spans, Last
      <4>4. DoneBefore(r, v.phase)'
        BY <1>2, <2>1, <2>3, <3>5, <4>1, <4>2, <4>3, NextPhaseOrder
      <4>5. QED
        BY <2>3, <4>2, <4>4 DEF DoneBefore, Seen, Spans, Last
    <3>6. QED
      BY <3>4, <3>5
  <2>4. QED
    BY <2>2, <2>3
<1>14. ASSUME NEW q \in Revs, Newest(q)', work'[q].at = "objects"
       PROVE  DoneBefore(q, work[q].phase)'
  BY <1>13, <1>14 DEF DoneBefore, Seen, Spans, Last
<1>15. QED
  BY <1>9, <1>14 DEF OrderInv

LEMMA BecomeOrder ==
  ASSUME TypeInv, NEW r \in Revs, NEW w, Become(r, w), w.at = "objects" => w.phase = 1
  PROVE  \A q \in Revs : work'[q].at = "objects" => work'[q] = work[q] \/ work'[q].phase = 1
BY DEF Become, TypeInv, WorkOK

LEMMA EndOrder ==
  ASSUME TypeInv, NEW r \in Revs, NEW b, End(r, b)
  PROVE  \A q \in Revs : work'[q].at = "objects" => work'[q] = work[q] \/ work'[q].phase = 1
<1>1. Idle.at # "objects"
  BY DEF Idle
<1>2. QED
  BY <1>1, BecomeOrder DEF End

LEMMA BeginOrder ==
  ASSUME TypeInv, OrderInv, NEW r \in Revs,
         Begin(r) \/ \E kind \in {"resolution", "internal"} : BeginFails(r, kind)
  PROVE  OrderInv'
<1>1. CASE Begin(r)
  <2>1. Become(r, Opening(r)) /\ UNCHANGED <<obj, met, born>>
    BY <1>1 DEF Begin
  <2>2. QED
    BY <2>1, OpeningOrder, BecomeOrder, CalmOrder
<1>2. ASSUME NEW kind \in {"resolution", "internal"}, BeginFails(r, kind)
      PROVE  OrderInv'
  <2> DEFINE w == Report(Opening(r), {})
  <2>1. Opening(r) \in Acting(r)
    BY <1>2, OpeningTyped DEF BeginFails, Busy
  <2>2. w \in Acting(r) /\ w.at = "report"
    BY <2>1, ReportTyped, ReportFields DEF Busy
  <2>3. Become(r, [w EXCEPT !.error = kind]) /\ UNCHANGED <<obj, met, born>>
    BY <1>2 DEF BeginFails
  <2> HIDE DEF w
  <2>4. [w EXCEPT !.error = kind].at = "report"
    BY <2>2 DEF Acting
  <2>5. QED
    BY <2>3, <2>4, BecomeOrder, CalmOrder
<1>3. QED
  BY <1>1, <1>2

\* The worker's other calls write no object.
LEMMA CallOrder ==
  ASSUME TypeInv, OrderInv, NEW r \in Revs,
         \/ EnsureFinalizer(r) \/ UpdateStatus(r) \/ Release(r) \/ AwaitRemoval(r) \/ Fail(r)
  PROVE  OrderInv'
<1>1. UNCHANGED <<obj, met, born>>
  BY DEF EnsureFinalizer, UpdateStatus, Release, AwaitRemoval, Fail
<1>2. (\E b : End(r, b)) \/ (\E w : Become(r, w) /\ w.at \in {"release", "wait"})
  <2>1. CASE EnsureFinalizer(r) \/ AwaitRemoval(r) \/ Fail(r)
    BY <2>1 DEF EnsureFinalizer, AwaitRemoval, Fail
  <2>2. CASE Release(r)
    <3>1. Become(r, [at |-> "wait"]) \/ End(r, TRUE)
      BY <2>2 DEF Release
    <3>2. [at |-> "wait"].at = "wait"
      OBVIOUS
    <3>3. QED
      BY <3>1, <3>2
  <2>3. CASE UpdateStatus(r)
    <3>1. (\E c : Become(r, [at |-> "release", self |-> c])) \/ \E b : End(r, b)
      BY <2>3 DEF UpdateStatus
    <3>2. \A c : [at |-> "release", self |-> c].at = "release"
      OBVIOUS
    <3>3. QED
      BY <3>1, <3>2
  <2>4. QED
    BY <2>1, <2>2, <2>3
<1>3. \A q \in Revs : work'[q].at = "objects" => work'[q] = work[q] \/ work'[q].phase = 1
  BY <1>2, EndOrder, BecomeOrder
<1>4. QED
  BY <1>1, <1>3, CalmOrder

\* A step that sets an object to one that is nobody's, or still its owner's.
LEMMA AnotherOwnerOrder ==
  ASSUME TypeInv, SafeInv, OrderInv, born' = born,
         NEW o \in Objects, NEW x, SetObject(o, x),
         x.holder = obj[o].holder \/ x.holder \notin Revs,
         \A q \in Revs : work'[q].at = "objects" => work'[q] = work[q]
  PROVE  OrderInv'
<1>1. x.holder \in Revs => x.holder \in born
  BY HolderIsBorn
<1>2. ASSUME NEW q \in Revs, Newest(q)'
      PROVE  met \subseteq met' /\ Newest(q) /\ Ordered(q)'
  <2>1. Newest(q) /\ Ordered(q)
    BY <1>2 DEF Newest, OrderInv
  <2>2. QED
    BY <1>1, <2>1, SetObjectOrdered
<1>3. ASSUME NEW q \in Revs, Newest(q)', work'[q].at = "objects"
      PROVE  DoneBefore(q, work[q].phase)'
  <2>1. PICK k : k = work[q].phase
    OBVIOUS
  <2>2. work'[q] = work[q] /\ DoneBefore(q, k)
    BY <1>2, <1>3, <2>1 DEF OrderInv
  <2>3. DoneBefore(q, k)'
    BY <1>2, <1>3, <2>2, DoneBeforeStays
  <2>4. QED
    BY <2>1, <2>2, <2>3 DEF DoneBefore, Seen, Spans, Last
<1>4. QED
  BY <1>2, <1>3 DEF OrderInv

LEMMA TeardownObjectOrder ==
  ASSUME TypeInv, SafeInv, EarnInv, OrderInv, NEW r \in Revs,
         TeardownObject(r) \/ DeletionFails(r)
  PROVE  OrderInv'
<1> DEFINE o == Min(work[r].todo)
<1>1. /\ work[r].todo \subseteq Phases[r][work[r].phase] /\ o \in Objects
      /\ WorkerEarned(r, work[r]) /\ work[r].at = "teardown"
  BY AtObject DEF TeardownObject, DeletionFails, EarnInv
<1>2. PICK u \in Acting(r) :
        /\ u.at = "teardown" /\ u.self = work[r].self /\ u.full = work[r].full
        /\ u.phase = work[r].phase /\ u.todo \subseteq work[r].todo /\ Retreat(r, u)
  BY ObjectTornDown
<1>3. WorkerEarned(r, u)
  BY <1>1, <1>2 DEF WorkerEarned
<1>4. ASSUME met \subseteq met'
      PROVE  \A q \in Revs : work'[q].at = "objects" => work'[q] = work[q]
  BY <1>1, <1>2, <1>3, <1>4, RetreatEarned
<1>5. CASE TeardownObject(r)
  <2>1. \E x \in {obj[o], Absent, [obj[o] EXCEPT !.dying = TRUE]} : SetObject(o, x)
    BY <1>5 DEF TeardownObject
  <2>2. PICK x \in {obj[o], Absent, [obj[o] EXCEPT !.dying = TRUE]} : SetObject(o, x)
    BY <2>1
  <2>3. Absent.holder = Missing /\ Missing \notin Revs
    BY COSAssumption DEF Absent
  <2>4. obj[o] \in Thing
    BY <1>1 DEF TypeInv
  <2>5. [obj[o] EXCEPT !.dying = TRUE].holder = obj[o].holder
    BY <2>4 DEF Thing
  <2> HIDE DEF o
  <2>6. x.holder = obj[o].holder \/ x.holder \notin Revs
    BY <2>2, <2>3, <2>5
  <2>7. met \subseteq met' /\ born' = born
    BY <1>5, <2>2 DEF SetObject, TeardownObject
  <2>8. QED
    BY <1>1, <1>4, <2>2, <2>6, <2>7, AnotherOwnerOrder
<1>6. CASE DeletionFails(r)
  <2>1. UNCHANGED <<obj, met, born>>
    BY <1>6 DEF DeletionFails
  <2>2. QED
    BY <1>4, <2>1, CalmOrder
<1>7. QED
  BY <1>5, <1>6

\* Others never make a revision the owner of an object.
LEMMA HappeningOwner ==
  ASSUME TypeInv, NEW o \in Objects, Happening(o)
  PROVE  \E x : /\ SetObject(o, x) /\ UNCHANGED <<work, born>>
                /\ x.holder = obj[o].holder \/ x.holder \notin Revs
<1>1. PICK x \in Changed(o) : Change(o, x)
  BY HappeningIs
<1>2. SetObject(o, x) /\ UNCHANGED <<work, born>>
  BY <1>1 DEF Change
<1>3. x.holder = obj[o].holder \/ x.holder \in Nobody \cup {Missing}
  <2>1. obj[o] \in Thing
    BY DEF TypeInv
  <2>2. /\ [obj[o] EXCEPT !.dying = TRUE].holder = obj[o].holder
        /\ [obj[o] EXCEPT !.content = Other].holder = obj[o].holder
        /\ [obj[o] EXCEPT !.ready = TRUE].holder = obj[o].holder
        /\ [obj[o] EXCEPT !.ready = FALSE].holder = obj[o].holder
        /\ [obj[o] EXCEPT !.holder = Unowned].holder = Unowned
    BY <2>1 DEF Thing
  <2>3. /\ Absent.holder = Missing
        /\ \A who : [Absent EXCEPT !.holder = who, !.ready = o \notin Gates].holder = who
    BY DEF Absent
  <2>4. QED
    BY <1>1, <2>2, <2>3, Zenon DEF Changed, Nobody
<1>4. x.holder = obj[o].holder \/ x.holder \notin Revs
  BY <1>3, COSAssumption DEF Nobody
<1>5. QED
  BY <1>2, <1>4

LEMMA HappeningOrder ==
  ASSUME TypeInv, SafeInv, OrderInv, NEW o \in Objects, Happening(o)
  PROVE  OrderInv'
BY HappeningOwner, AnotherOwnerOrder

LEMMA OthersOrder ==
  ASSUME OrderInv,
         (\E r \in Revs : Request(r)) \/ DeliverCOS \/ Crash \/ UNCHANGED vars
  PROVE  OrderInv'
<1>1. /\ obj' = obj /\ met' = met /\ born \subseteq born'
      /\ work' = work \/ work' = [r \in Revs |-> Idle]
  <2>1. CASE \E r \in Revs : Request(r)
    BY <2>1 DEF Request, CreateRevision, Archive, Delete, FinishOrphaning
  <2>2. CASE DeliverCOS
    BY <2>2 DEF DeliverCOS
  <2>3. CASE Crash
    BY <2>3 DEF Crash
  <2>4. CASE UNCHANGED vars
    BY <2>4 DEF vars
  <2>5. QED
    BY <2>1, <2>2, <2>3, <2>4
<1>2. Idle.at # "objects"
  BY DEF Idle
<1>3. \A q \in Revs : work'[q].at = "objects" => work'[q] = work[q]
  BY <1>1, <1>2
<1>4. QED
  BY <1>1, <1>3, CalmOrder

LEMMA NextOrder ==
  TypeInv /\ TypeInv' /\ SafeInv /\ EarnInv /\ OrderInv /\ [Next]_vars => OrderInv'
<1> SUFFICES ASSUME TypeInv, TypeInv', SafeInv, EarnInv, OrderInv, [Next]_vars PROVE OrderInv'
  OBVIOUS
<1>1. ASSUME NEW r \in Revs, Work(r) PROVE OrderInv'
  BY <1>1, BeginOrder, CallOrder, ReconcileObjectOrder, TeardownObjectOrder DEF Work
<1>2. ASSUME NEW r \in Revs, Mishap(r) PROVE OrderInv'
  BY <1>2, BeginOrder, CallOrder, ReconcileObjectOrder, TeardownObjectOrder DEF Mishap
<1>3. QED
  BY <1>1, <1>2, HappeningOrder, OthersOrder DEF Next

LEMMA InitOrder == Init => OrderInv
<1> SUFFICES ASSUME Init PROVE OrderInv
  OBVIOUS
<1>1. ASSUME NEW r \in Revs PROVE Ordered(r)
  <2>1. \A k \in Spans(r) : \A o \in Phases[r][k] : obj[o].holder = Missing
    BY PhaseFacts DEF Init, Absent
  <2>2. QED
    BY <2>1, COSAssumption DEF Init, Ordered
<1>2. \A r \in Revs : work[r].at # "objects"
  BY DEF Init, Idle
<1>3. QED
  BY <1>1, <1>2 DEF OrderInv

\* An object is taken by the worker of the revision, in the phase it is in.
LEMMA TakesIs ==
  ASSUME TypeInv, [Next]_vars, NEW r \in Revs, NEW o \in Objects, Takes(r, o)
  PROVE  o \in Phases[r][work[r].phase] /\ work[r].phase \in Spans(r)
<1>1. work[r].at = "objects" /\ obj[o].holder # r /\ obj'[o].holder = r
  BY DEF Takes
<1>2. CASE \E q \in Revs : ReconcileObject(q) \/ WriteFails(q)
  <2>1. PICK q \in Revs : ReconcileObject(q) \/ WriteFails(q)
    BY <1>2
  <2> DEFINE p == Min(work[q].todo)
  <2>2. /\ p \in work[q].todo /\ p \in Objects /\ work[q].phase \in Spans(q)
        /\ work[q].todo \subseteq Phases[q][work[q].phase]
    BY <2>1, AtObject DEF ReconcileObject, WriteFails
  <2>3. PICK x \in {obj[p], Desired(q, p)} : SetObject(p, x)
    BY <2>1 DEF ReconcileObject, WriteFails
  <2>4. x.holder \in {obj[p].holder, q}
    BY <2>3 DEF Desired
  <2> HIDE DEF p
  <2>5. obj'[p] = x /\ \A y \in Objects : y # p => obj'[y] = obj[y]
    BY <2>2, <2>3 DEF SetObject, TypeInv
  <2>6. o = p /\ q = r
    BY <1>1, <2>4, <2>5
  <2>7. QED
    BY <2>2, <2>6
<1>3. CASE \E q \in Revs : TeardownObject(q)
  <2>1. PICK q \in Revs : TeardownObject(q)
    BY <1>3
  <2> DEFINE p == Min(work[q].todo)
  <2>2. p \in Objects
    BY <2>1, AtObject DEF TeardownObject
  <2>3. PICK x \in {obj[p], Absent, [obj[p] EXCEPT !.dying = TRUE]} : SetObject(p, x)
    BY <2>1 DEF TeardownObject
  <2>4. x.holder \in {obj[p].holder, Missing}
    BY <2>2, <2>3 DEF Absent, TypeInv, Thing
  <2> HIDE DEF p
  <2>5. obj'[p] = x /\ \A y \in Objects : y # p => obj'[y] = obj[y]
    BY <2>2, <2>3 DEF SetObject, TypeInv
  <2>6. QED
    BY <1>1, <2>4, <2>5, COSAssumption
<1>4. CASE \E y \in Objects : Happening(y)
  <2>1. PICK y \in Objects : Happening(y)
    BY <1>4
  <2>2. PICK x : SetObject(y, x) /\ (x.holder = obj[y].holder \/ x.holder \notin Revs)
    BY <2>1, HappeningOwner
  <2>3. obj'[y] = x /\ \A z \in Objects : z # y => obj'[z] = obj[z]
    BY <2>2 DEF SetObject, TypeInv
  <2>4. QED
    BY <1>1, <2>2, <2>3
<1>5. obj' # obj
  BY <1>1
<1>6. QED
  BY <1>2, <1>3, <1>4, <1>5 DEF Next, Work, Mishap, Request, Begin, BeginFails, EnsureFinalizer,
     UpdateStatus, Release, AwaitRemoval, Fail, DeletionFails, CreateRevision, Archive, Delete,
     FinishOrphaning, DeliverCOS, Crash, vars

\* Of the revision that no newer one has followed, an object is created or
\* adopted only when all earlier phases have been complete: in the gated pass
\* each was, and in the drift pass the phase or the one before it was completed
\* before, which needed all earlier ones (Engine.Reconcile, splitPhases).
THEOREM PhasesInOrder == Spec => PhaseOrder
<1>1. TypeInv /\ OrderInv /\ [Next]_vars =>
        [\A r \in Revs : (\A q \in born : q <= r) =>
           \A k \in 1 .. Last(r) : \A o \in Phases[r][k] :
             Takes(r, o) => \A j \in 1 .. k - 1 : \A p \in Phases[r][j] : <<r, p>> \in met]_vars
  <2> SUFFICES ASSUME TypeInv, OrderInv, [Next]_vars,
                      NEW r \in Revs, \A q \in born : q <= r,
                      NEW k \in 1 .. Last(r), NEW o \in Phases[r][k], Takes(r, o),
                      NEW j \in 1 .. k - 1, NEW p \in Phases[r][j]
               PROVE  <<r, p>> \in met
    OBVIOUS
  <2>1. k \in Spans(r) /\ j \in Spans(r) /\ j < k
    BY PhaseFacts DEF Spans
  <2>2. o \in Objects
    BY <2>1, PhaseFacts
  <2>3. work[r].phase = k
    BY <2>1, <2>2, TakesIs, PhaseFacts
  <2>4. DoneBefore(r, k)
    BY <2>3 DEF OrderInv, Newest, Takes
  <2>5. QED
    BY <2>1, <2>4 DEF DoneBefore, Seen
<1>2. Init => TypeInv /\ SafeInv /\ EarnInv /\ OrderInv
  BY InitTyped, InitSafe, InitEarned, InitOrder
<1>3. TypeInv /\ SafeInv /\ EarnInv /\ OrderInv /\ [Next]_vars =>
        (TypeInv /\ SafeInv /\ EarnInv /\ OrderInv)'
  BY NextTyped, NextSafe, NextEarned, NextOrder
<1>4. QED
  BY <1>1, <1>2, <1>3, PTL DEF Spec, PhaseOrder

-----------------------------------------------------------------------------
(* Refinement.  What the controller does to the owners of objects and the  *)
(* protection of revisions is what ObjectOwnership allows.                 *)

OwnerOf == [o \in Objects |-> obj[o].holder]
StageOf == [r \in Revs |-> Stage(r)]

OwnershipStep == [Ownership!Next]_<<OwnerOf, StageOf>>

\* A step that changes one object.
LEMMA OwnerMoves ==
  ASSUME TypeInv, NEW o \in Objects, NEW x, SetObject(o, x), UNCHANGED api,
         LET h == obj[o].holder
         IN \/ x.holder = h
            \/ x.holder = Missing
            \/ h = Missing /\ x.holder \in Nobody
            \/ h \in Revs /\ Stage(h) = "leaving" /\ x.holder = Unowned
            \/ /\ x.holder \in Revs /\ Stage(x.holder) # "free"
               /\ h = Missing \/ (h = Unowned /\ AdoptsFree) \/ (h \in Revs /\ h < x.holder)
  PROVE  OwnershipStep
<1> DEFINE h == obj[o].holder
           g == x.holder
<1>1. OwnerOf' = [OwnerOf EXCEPT ![o] = g] /\ OwnerOf[o] = h
  BY DEF OwnerOf, SetObject, TypeInv
<1>2. StageOf' = StageOf /\ \A r \in Revs : StageOf[r] = Stage(r)
  BY DEF StageOf, Stage, api, IsActive, Orphaning
<1> HIDE DEF h, g
<1>3. CASE g = h
  <2>1. OwnerOf' = OwnerOf
    BY <1>1, <1>3 DEF OwnerOf
  <2>2. QED
    BY <1>2, <2>1 DEF OwnershipStep
<1>4. CASE g = Missing \/ (h = Missing /\ g \in Nobody)
  <2>1. Ownership!Interfere(o)
    BY <1>1, <1>2, <1>4 DEF Ownership!Interfere, Nobody, OwnerOf, StageOf
  <2>2. QED
    BY <2>1 DEF OwnershipStep, Ownership!Next
<1>5. CASE h \in Revs /\ Stage(h) = "leaving" /\ g = Unowned
  <2>1. Ownership!Drop(h, o)
    BY <1>1, <1>2, <1>5 DEF Ownership!Drop, OwnerOf, StageOf
  <2>2. QED
    BY <1>5, <2>1 DEF OwnershipStep, Ownership!Next
<1>6. CASE /\ g \in Revs /\ Stage(g) # "free"
           /\ h = Missing \/ (h = Unowned /\ AdoptsFree) \/ (h \in Revs /\ h < g)
  <2>1. Ownership!Claim(g, o)
    BY <1>1, <1>2, <1>6 DEF Ownership!Claim, OwnerOf, StageOf
  <2>2. QED
    BY <1>6, <2>1 DEF OwnershipStep, Ownership!Next
<1>7. QED
  BY <1>3, <1>4, <1>5, <1>6 DEF h, g

\* A step that changes one revision.
LEMMA StageMoves ==
  ASSUME TypeInv, NEW r \in Revs, UNCHANGED obj, NEW g, cos' = g,
         \A q \in Revs : q # r => (q \in DOMAIN cos <=> q \in DOMAIN g)
                                  /\ (q \in DOMAIN g => g[q] = cos[q]),
         \/ Stage(r)' = Stage(r)
         \/ Stage(r) = "free" /\ Stage(r)' \in {"held", "leaving"}
         \/ Stage(r) = "held" /\ Stage(r)' = "leaving"
         \/ Stage(r) = "leaving" /\ Stage(r)' = "free" /\ Clear(r)
  PROVE  OwnershipStep
<1> DEFINE s == Stage(r)'
<1>1. OwnerOf' = OwnerOf /\ \A o \in Objects : OwnerOf[o] = obj[o].holder
  BY DEF OwnerOf
<1>2. \A q \in Revs : q # r => Stage(q)' = Stage(q)
  BY DEF Stage, IsActive, Orphaning
<1>3. StageOf' = [StageOf EXCEPT ![r] = s] /\ StageOf[r] = Stage(r)
  BY <1>2 DEF StageOf
<1>4. CASE s = Stage(r)
  <2>1. StageOf' = StageOf
    BY <1>3, <1>4 DEF StageOf
  <2>2. QED
    BY <1>1, <2>1 DEF OwnershipStep
<1>5. CASE (Stage(r) = "free" /\ s \in {"held", "leaving"}) \/ (Stage(r) = "held" /\ s = "leaving")
  <2>1. PICK next \in {"held", "leaving"} : next = s
    BY <1>5
  <2>2. Ownership!Enter(r, next)
    BY <1>1, <1>3, <1>5, <2>1 DEF Ownership!Enter, OwnerOf, StageOf
  <2>3. QED
    BY <2>2 DEF OwnershipStep, Ownership!Next
<1>6. CASE Stage(r) = "leaving" /\ s = "free" /\ Clear(r)
  <2>1. Ownership!Leave(r)
    BY <1>1, <1>3, <1>6 DEF Ownership!Leave, OwnerOf, StageOf, Clear
  <2>2. QED
    BY <2>1 DEF OwnershipStep, Ownership!Next
<1>7. QED
  BY <1>4, <1>5, <1>6

\* A step that touches neither.
LEMMA NothingMoves == UNCHANGED <<obj, cos>> => OwnershipStep
BY DEF OwnershipStep, OwnerOf, StageOf, Stage, IsActive, Orphaning

LEMMA ReconcileObjectOwns ==
  ASSUME TypeInv, SafeInv, NEW r \in Revs, ReconcileObject(r) \/ WriteFails(r)
  PROVE  OwnershipStep
<1> DEFINE w == work[r]
           o == Min(w.todo)
           h == obj[o].holder
           v == Verdict(r, w.siblings, obj[o])
           x == IF v = "write" THEN Desired(r, o) ELSE obj[o]
<1>1. /\ w \in Acting(r) /\ w.at = "objects" /\ o \in Objects /\ w.siblings \in SUBSET Revs
  BY AtObject DEF ReconcileObject, WriteFails, Acting
<1>2. UNCHANGED api /\ (SetObject(o, x) \/ SetObject(o, obj[o]))
  BY DEF ReconcileObject, WriteFails
<1>3. Stage(r) # "free"
  BY <1>1 DEF SafeInv, WorkerInv, Protected, Stage
<1>4. obj[o] \in Thing
  BY <1>1 DEF TypeInv
<1>5. x.holder = h \/ (x.holder = r /\ (h = Missing \/ (h = Unowned /\ AdoptsFree)
                                        \/ (h \in Revs /\ h < r)))
  <2>1. CASE v = "write"
    <3>1. x.holder = r
      BY <2>1 DEF Desired
    <3>2. h = Missing \/ h = r \/ (h = Unowned /\ AdoptsFree) \/ (h \in w.siblings /\ ~(h > r))
      BY <2>1 DEF Verdict
    <3>3. Revs \subseteq Nat
      BY COSAssumption
    <3> HIDE DEF h, v, x, w, o
    <3>4. QED
      BY <1>1, <3>1, <3>2, <3>3
  <2>2. CASE v # "write"
    BY <2>2
  <2>3. QED
    BY <2>1, <2>2
<1> HIDE DEF w, o, v, x
<1>6. QED
  BY <1>1, <1>2, <1>3, <1>5, OwnerMoves

LEMMA TeardownObjectOwns ==
  ASSUME TypeInv, SafeInv, NEW r \in Revs, TeardownObject(r) \/ DeletionFails(r)
  PROVE  OwnershipStep
<1> DEFINE o == Min(work[r].todo)
<1>1. o \in Objects
  BY AtObject DEF TeardownObject, DeletionFails
<1>2. CASE TeardownObject(r)
  <2>1. UNCHANGED api /\ \E x \in {Absent, [obj[o] EXCEPT !.dying = TRUE], obj[o]} : SetObject(o, x)
    BY <1>2 DEF TeardownObject
  <2>2. PICK x \in {Absent, [obj[o] EXCEPT !.dying = TRUE], obj[o]} : SetObject(o, x)
    BY <2>1
  <2>3. obj[o] \in Thing
    BY <1>1 DEF TypeInv
  <2> HIDE DEF o
  <2>4. x.holder = obj[o].holder \/ x.holder = Missing
    BY <2>2, <2>3 DEF Absent, Thing
  <2>5. QED
    BY <1>1, <2>1, <2>2, <2>4, OwnerMoves
<1>3. CASE DeletionFails(r)
  BY <1>3, NothingMoves DEF DeletionFails, api
<1>4. QED
  BY <1>2, <1>3

LEMMA HappeningOwns ==
  ASSUME TypeInv, SafeInv, NEW o \in Objects, Happening(o)
  PROVE  OwnershipStep
<1>1. obj[o] \in Thing
  BY DEF TypeInv
<1>2. ASSUME NEW x, Change(o, x),
             \/ x.holder = obj[o].holder
             \/ x.holder = Missing
             \/ obj[o].holder = Missing /\ x.holder \in Nobody
             \/ /\ obj[o].holder \in Revs /\ Stage(obj[o].holder) = "leaving"
                /\ x.holder = Unowned
      PROVE  OwnershipStep
  BY <1>2, OwnerMoves DEF Change
<1>3. CASE OrphanObject(o)
  <2> DEFINE x == [obj[o] EXCEPT !.holder = Unowned]
  <2>1. Change(o, x) /\ obj[o].holder \in DOMAIN cos /\ Orphaning(cos[obj[o].holder])
    BY <1>3 DEF OrphanObject
  <2>2. x.holder = Unowned
    BY <1>1 DEF Thing
  <2>3. obj[o].holder \in Revs
    BY <2>1, ListingIs DEF TypeInv, ApiOK
  <2>4. Stage(obj[o].holder) = "leaving"
    BY <2>1 DEF Stage, Orphaning, IsActive
  <2> HIDE DEF x
  <2>5. QED
    BY <1>2, <2>1, <2>2, <2>3, <2>4
<1>4. CASE OpenGate(o) \/ CloseGate(o) \/ DriftObject(o)
  <2>1. PICK x \in {[obj[o] EXCEPT !.ready = TRUE], [obj[o] EXCEPT !.ready = FALSE],
                    [obj[o] EXCEPT !.content = Other]} : Change(o, x)
    BY <1>4 DEF OpenGate, CloseGate, DriftObject
  <2>2. x.holder = obj[o].holder
    BY <1>1, <2>1 DEF Thing
  <2>3. QED
    BY <1>2, <2>1, <2>2
<1>5. CASE Vanish(o) \/ RemoveObject(o) \/ ClearForeign(o)
  <2>1. PICK x \in {Absent, [obj[o] EXCEPT !.dying = TRUE]} : Change(o, x)
    BY <1>5 DEF Vanish, RemoveObject, ClearForeign
  <2>2. x.holder = obj[o].holder \/ x.holder = Missing
    BY <1>1, <2>1 DEF Thing, Absent
  <2>3. QED
    BY <1>2, <2>1, <2>2
<1>6. CASE CreateForeign(o)
  <2>1. PICK who \in Nobody : Change(o, [Absent EXCEPT !.holder = who, !.ready = o \notin Gates])
    BY <1>6 DEF CreateForeign
  <2>2. PICK x : x = [Absent EXCEPT !.holder = who, !.ready = o \notin Gates]
    OBVIOUS
  <2>3. x.holder = who /\ obj[o].holder = Missing
    BY <1>6, <2>2 DEF Absent, CreateForeign, IsThere
  <2>4. QED
    BY <1>2, <2>1, <2>2, <2>3
<1>7. QED
  BY <1>3, <1>4, <1>5, <1>6 DEF Happening

\* What somebody writes is a revision in its next stage.
LEMMA StoreMoves ==
  ASSUME TypeInv, NEW r \in Revs, r \in DOMAIN cos, NEW c \in COSOf(r), NEW g \in Listings,
         Put(g), g \in {Store(cos, r, c), Settled(Store(cos, r, c), r)},
         UNCHANGED <<obj, cache>>,
         LET new == IF ~(c.finalizer \/ Orphaning(c)) THEN "free"
                    ELSE IF IsActive(c) THEN "held" ELSE "leaving"
         IN \/ new = Stage(r)
            \/ Stage(r) = "free" /\ new \in {"held", "leaving"}
            \/ Stage(r) = "held" /\ new = "leaving"
            \/ Stage(r) = "leaving" /\ new = "free" /\ Clear(r)
  PROVE  OwnershipStep
<1> DEFINE h == Store(cos, r, c)
           new == IF ~(c.finalizer \/ Orphaning(c)) THEN "free"
                  ELSE IF IsActive(c) THEN "held" ELSE "leaving"
<1>1. h[r] = c /\ DOMAIN h = DOMAIN cos /\ \A q \in DOMAIN cos : q # r => h[q] = cos[q]
  BY StoreIs
<1>2. cos' = g
  BY PutViews
<1> HIDE DEF h
<1>3. /\ \A q \in Revs : q # r => (q \in DOMAIN cos <=> q \in DOMAIN g)
                                  /\ (q \in DOMAIN g => g[q] = cos[q])
      /\ r \in DOMAIN g => g[r] = c
      /\ r \notin DOMAIN g => ~(c.finalizer \/ Orphaning(c))
  <2>1. g = h \/ (g = Without(h, r) /\ c.deleting /\ ~c.finalizer /\ ~c.orphan)
    BY <1>1 DEF Settled, h
  <2>2. QED
    BY <1>1, <2>1 DEF Without, Orphaning
<1>4. Stage(r)' = new
  BY <1>2, <1>3 DEF Stage, Orphaning, IsActive
<1> HIDE DEF new
<1>5. \/ new = Stage(r)
      \/ Stage(r) = "free" /\ new \in {"held", "leaving"}
      \/ Stage(r) = "held" /\ new = "leaving"
      \/ Stage(r) = "leaving" /\ new = "free" /\ Clear(r)
  BY DEF new
<1>6. QED
  BY <1>2, <1>3, <1>4, <1>5, StageMoves

LEMMA EnsureFinalizerOwns ==
  ASSUME TypeInv, SafeInv, NEW r \in Revs, EnsureFinalizer(r)
  PROVE  OwnershipStep
<1>1. CASE r \in DOMAIN cos /\ ~cos[r].deleting
  <2> DEFINE c == [cos[r] EXCEPT !.finalizer = TRUE]
             g == Store(cos, r, c)
  <2>1. cos[r] \in COSOf(r) /\ cos \in Listings
    BY <1>1, ListingIs DEF TypeInv, ApiOK
  <2>2. c \in COSOf(r)
    BY <2>1, FinalizedIs
  <2>3. /\ c.archived = cos[r].archived /\ c.deleting = cos[r].deleting
        /\ c.orphan = cos[r].orphan /\ c.finalizer = TRUE
    BY <2>1 DEF COSOf, COS
  <2>4. Put(g) /\ UNCHANGED <<obj, cache>>
    BY <1>1 DEF EnsureFinalizer
  <2> HIDE DEF c
  <2>5. g \in Listings
    BY <2>1, <2>2, StoreListed
  <2>6. Stage(r) \in {"free", IF IsActive(c) THEN "held" ELSE "leaving"}
    BY <1>1, <2>3 DEF Stage, IsActive, Orphaning
  <2>7. QED
    BY <1>1, <2>2, <2>3, <2>4, <2>5, <2>6, StoreMoves
<1>2. CASE ~(r \in DOMAIN cos /\ ~cos[r].deleting)
  BY <1>2, NothingMoves DEF EnsureFinalizer, api
<1>3. QED
  BY <1>1, <1>2

LEMMA UpdateStatusOwns ==
  ASSUME TypeInv, SafeInv, NEW r \in Revs, UpdateStatus(r)
  PROVE  OwnershipStep
<1> DEFINE w == work[r]
           c == [w.self EXCEPT !.status = NewStatus(r, w)]
           g == Store(cos, r, c)
           refused == c # w.self /\ (r \notin DOMAIN cos \/ cos[r] # w.self)
<1>1. w \in Acting(r) /\ w.self \in COSOf(r)
  BY WorkerIs DEF TypeInv, WorkOK, UpdateStatus, Busy, Acting
<1>2. c \in COSOf(r)
  BY <1>1, NewStatusTyped, ReportedIs
<1>3. /\ c.archived = w.self.archived /\ c.deleting = w.self.deleting
      /\ c.orphan = w.self.orphan /\ c.finalizer = w.self.finalizer
  BY <1>1 DEF COSOf, COS
<1>4. /\ IF c # w.self /\ ~refused THEN Put(g) ELSE UNCHANGED api
      /\ UNCHANGED <<obj, cache>>
  BY DEF UpdateStatus
<1> HIDE DEF c
<1>5. CASE c # w.self /\ ~refused
  <2>1. r \in DOMAIN cos /\ cos[r] = w.self /\ cos \in Listings
    BY <1>5 DEF TypeInv, ApiOK
  <2>2. g \in Listings /\ Put(g)
    BY <1>2, <1>4, <1>5, <2>1, StoreListed
  <2>3. Stage(r) = IF ~(c.finalizer \/ Orphaning(c)) THEN "free"
                   ELSE IF IsActive(c) THEN "held" ELSE "leaving"
    BY <1>3, <2>1 DEF Stage, IsActive, Orphaning
  <2>4. QED
    BY <1>2, <1>4, <2>1, <2>2, <2>3, StoreMoves
<1>6. CASE ~(c # w.self /\ ~refused)
  BY <1>4, <1>6, NothingMoves DEF api
<1>7. QED
  BY <1>5, <1>6

LEMMA ReleaseOwns ==
  ASSUME TypeInv, SafeInv, NEW r \in Revs, Release(r)
  PROVE  OwnershipStep
<1> DEFINE c == work[r].self
           d == [c EXCEPT !.finalizer = FALSE]
           h == Store(cos, r, d)
           g == Settled(h, r)
<1>1. c \in COSOf(r) /\ work[r].at = "release"
  BY WorkerIs DEF TypeInv, WorkOK, Release
<1>2. d \in COSOf(r)
  BY <1>1, FinalizedIs
<1>3. d.archived = c.archived /\ d.deleting = c.deleting /\ d.orphan = c.orphan
      /\ d.finalizer = FALSE
  BY <1>1 DEF COSOf, COS
<1>4. ~IsActive(c) /\ (Orphaning(c) \/ Clear(r))
  BY <1>1 DEF SafeInv, WorkerInv
<1>5. CASE r \in DOMAIN cos /\ cos[r] = c
  <2>1. Put(g) /\ UNCHANGED <<obj, cache>>
    BY <1>5 DEF Release
  <2> HIDE DEF d
  <2>2. cos \in Listings
    BY DEF TypeInv, ApiOK
  <2>3. h \in Listings
    BY <1>2, <2>2, StoreListed
  <2>4. g \in Listings
    BY <2>3, SettledListed
  <2>5. /\ Stage(r) \in {"free", "leaving"}
        /\ Orphaning(d) => Stage(r) = "leaving"
        /\ ~Orphaning(d) => Clear(r)
    BY <1>3, <1>4, <1>5 DEF Stage, IsActive, Orphaning
  <2>6. ~IsActive(d) /\ ~d.finalizer
    BY <1>3, <1>4 DEF IsActive
  <2>7. QED
    BY <1>2, <1>5, <2>1, <2>4, <2>5, <2>6, StoreMoves
<1>6. CASE ~(r \in DOMAIN cos /\ cos[r] = c)
  BY <1>6, NothingMoves DEF Release, api
<1>7. QED
  BY <1>5, <1>6

LEMMA RequestOwns ==
  ASSUME TypeInv, SafeInv, NEW r \in Revs, Request(r)
  PROVE  OwnershipStep
<1>1. cos \in Listings /\ DOMAIN cos \subseteq born
      /\ (r \in DOMAIN cos => cos[r] \in COSOf(r))
  BY ListingIs DEF TypeInv, ApiOK, SafeInv, LagInv, Views
<1>2. CASE CreateRevision(r)
  <2> DEFINE g == Store(cos, r, NewCOS)
  <2>1. r \notin DOMAIN cos /\ Put(g) /\ UNCHANGED <<obj, cache>>
    BY <1>1, <1>2 DEF CreateRevision
  <2>2. /\ g \in Listings /\ DOMAIN g = DOMAIN cos \cup {r} /\ g[r] = NewCOS
        /\ \A q \in DOMAIN cos : q # r => g[q] = cos[q]
    <3>1. PICK c \in COSOf(r) : c = NewCOS
      BY NewIs
    <3>2. QED
      BY <1>1, <3>1, StoreListed
  <2> HIDE DEF g
  <2>3. cos' = g
    BY <2>1, <2>2, PutViews
  <2>4. Stage(r) = "free" /\ Stage(r)' = "free"
    BY <2>1, <2>2, <2>3 DEF Stage, NewCOS, Orphaning
  <2>5. QED
    BY <2>1, <2>2, <2>3, <2>4, StageMoves
<1>3. CASE Archive(r)
  <2> DEFINE c == [cos[r] EXCEPT !.archived = TRUE]
             g == Store(cos, r, c)
  <2>1. r \in DOMAIN cos /\ IsActive(cos[r]) /\ Put(g) /\ UNCHANGED <<obj, cache>>
    BY <1>3 DEF Archive
  <2>2. c \in COSOf(r)
    BY <1>1, <2>1, ArchivedIs
  <2>3. /\ c.archived = TRUE /\ c.deleting = cos[r].deleting
        /\ c.orphan = cos[r].orphan /\ c.finalizer = cos[r].finalizer
    BY <1>1, <2>1 DEF COSOf, COS
  <2> HIDE DEF c
  <2>4. g \in Listings
    BY <1>1, <2>2, StoreListed
  <2>5. /\ ~IsActive(c)
        /\ Stage(r) = IF c.finalizer \/ Orphaning(c) THEN "held" ELSE "free"
    BY <2>1, <2>3 DEF Stage, IsActive, Orphaning
  <2>6. QED
    BY <2>1, <2>2, <2>4, <2>5, StoreMoves
<1>4. CASE FinishOrphaning(r)
  <2> DEFINE g == Without(cos, r)
  <2>1. /\ r \in DOMAIN cos /\ Orphaning(cos[r]) /\ Clear(r)
        /\ Put(g) /\ UNCHANGED <<obj, cache>>
    BY <1>4 DEF FinishOrphaning, Clear
  <2>2. /\ g \in Listings /\ DOMAIN g = DOMAIN cos \ {r}
        /\ \A q \in DOMAIN cos : q # r => g[q] = cos[q]
    BY <1>1, WithoutListed
  <2> HIDE DEF g
  <2>3. cos' = g
    BY <2>1, <2>2, PutViews
  <2>4. Stage(r) = "leaving" /\ Stage(r)' = "free"
    BY <2>1, <2>2, <2>3 DEF Stage, IsActive, Orphaning
  <2>5. \A q \in Revs : q # r => (q \in DOMAIN cos <=> q \in DOMAIN g)
                                 /\ (q \in DOMAIN g => g[q] = cos[q])
    BY <2>2
  <2>6. QED
    BY <2>1, <2>3, <2>4, <2>5, StageMoves
<1>5. ASSUME NEW orphan \in BOOLEAN, Delete(r, orphan)
      PROVE  OwnershipStep
  <2> DEFINE c == [cos[r] EXCEPT !.deleting = TRUE, !.orphan = orphan]
             h == Store(cos, r, c)
             g == Settled(h, r)
  <2>1. /\ r \in DOMAIN cos /\ ~cos[r].deleting
        /\ Put(g) /\ UNCHANGED <<obj, cache>>
    BY <1>5 DEF Delete
  <2>2. c \in COSOf(r)
    BY <1>1, <2>1, DeletedIs
  <2>3. /\ c.archived = cos[r].archived /\ c.deleting = TRUE
        /\ c.orphan = orphan /\ c.finalizer = cos[r].finalizer
    BY <1>1, <2>1 DEF COSOf, COS
  <2> HIDE DEF c
  <2>4. h \in Listings
    BY <1>1, <2>2, StoreListed
  <2>5. g \in Listings
    BY <2>4, SettledListed
  <2>6. /\ ~IsActive(c)
        /\ c.finalizer => Stage(r) \in {"held", "leaving"}
        /\ ~c.finalizer => Stage(r) = "free"
    BY <2>1, <2>3 DEF Stage, IsActive, Orphaning
  <2>7. QED
    BY <2>1, <2>2, <2>5, <2>6, StoreMoves
<1>6. QED
  BY <1>2, <1>3, <1>4, <1>5 DEF Request

LEMMA NextOwns == TypeInv /\ SafeInv /\ [Next]_vars => OwnershipStep
<1> SUFFICES ASSUME TypeInv, SafeInv, [Next]_vars PROVE OwnershipStep
  OBVIOUS
<1>1. ASSUME NEW r \in Revs,
             \/ Begin(r) \/ AwaitRemoval(r) \/ Fail(r)
             \/ \E kind \in {"resolution", "internal"} : BeginFails(r, kind)
      PROVE  OwnershipStep
  BY <1>1, NothingMoves DEF Begin, AwaitRemoval, Fail, BeginFails, api
<1>2. ASSUME NEW r \in Revs, Work(r) PROVE OwnershipStep
  BY <1>1, <1>2, EnsureFinalizerOwns, ReconcileObjectOwns, TeardownObjectOwns,
     UpdateStatusOwns, ReleaseOwns DEF Work
<1>3. ASSUME NEW r \in Revs, Mishap(r) PROVE OwnershipStep
  BY <1>1, <1>3, ReconcileObjectOwns, TeardownObjectOwns DEF Mishap
<1>4. CASE DeliverCOS \/ Crash \/ UNCHANGED vars
  BY <1>4, NothingMoves DEF DeliverCOS, Crash, vars
<1>5. QED
  BY <1>2, <1>3, <1>4, RequestOwns, HappeningOwns DEF Next

\* The controller, with its caches, phases, retries and restarts, implements
\* ObjectOwnership: every step of it and of those around it changes owners and
\* protection as that allows, or not at all (ensureFinalizer, the engine,
\* release).
THEOREM OwnershipImplemented == Spec => ImplementsOwnership
<1>1. Init => Ownership!Init
  BY DEF Init, Ownership!Init, Absent, Stage
<1>2. TypeInv /\ SafeInv /\ [Next]_vars => [Ownership!Next]_<<OwnerOf, StageOf>>
  BY NextOwns DEF OwnershipStep
<1>3. QED
  BY <1>1, <1>2, Safe, PTL
     DEF Spec, ImplementsOwnership, Ownership!Spec, OwnerOf, StageOf
=============================================================================
