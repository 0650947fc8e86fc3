--------------------------- MODULE COSController ---------------------------
(***************************************************************************)
(* The ClusterObjectSet controller: one worker per revision of a group,    *)
(* all of them working on the same cluster objects.                        *)
(*                                                                         *)
(* A worker reads its revision and the list of its siblings from the       *)
(* informer's cache once.  An active revision gets its finalizer, then its *)
(* objects are reconciled one by one, phase after phase; a revision that   *)
(* is archived or being deleted is torn down in reverse and released.      *)
(* Between two calls the other revisions' workers, users, the garbage      *)
(* collector and everything that changes the objects may act.              *)
(*                                                                         *)
(* Boxcutter, which compares and writes single objects, is external; what  *)
(* the code relies on is in Verdict and Desired.                           *)
(***************************************************************************)
EXTENDS Naturals, FiniteSets, Sequences, FiniteSetsExt

CONSTANTS
  Revs,          \* revision numbers of the group
  Objects,       \* the cluster objects they manage, numbered
  Phases,        \* spec.phases: for each revision a sequence of sets of objects
  Gates,         \* objects with an assertion that somebody else makes true
  AdoptsFree,    \* collision protection IfNoController instead of Prevent
  Missing, Unowned, Foreign, \* "controllers" that are not revisions of the group
  Other,         \* "content" that no revision asks for
  MaxLag,        \* bound: API writes the informer may be behind
  Budget         \* bound: how often each disturbance, and any, may happen

Disturbances == {"drift", "removal", "foreign", "touch", "fault", "any"}

ASSUME COSAssumption ==
  /\ Revs \subseteq Nat /\ IsFiniteSet(Revs)
  /\ Objects \subseteq Nat /\ IsFiniteSet(Objects)
  /\ Phases \in [Revs -> Seq(SUBSET Objects)]
  /\ \A r \in Revs :
       /\ Len(Phases[r]) > 0
       /\ \A k \in DOMAIN Phases[r] : Phases[r][k] # {}
       /\ \A j, k \in DOMAIN Phases[r] : j # k => Phases[r][j] \cap Phases[r][k] = {}
  /\ Gates \subseteq Objects
  /\ AdoptsFree \in BOOLEAN
  /\ {Missing, Unowned, Foreign, Other} \cap Revs = {}
  /\ Missing # Unowned /\ Missing # Foreign /\ Unowned # Foreign
  /\ MaxLag \in Nat \ {0}
  /\ Budget \in [Disturbances -> Nat]

VARIABLES
  obj,     \* the cluster objects
  cos,     \* the API server's ClusterObjectSets of the group
  stream,  \* watch events the informer has not delivered yet, oldest first
  cache,   \* the informer's copy of the group
  queued,  \* revisions in the controller's work queue
  work,    \* what the worker of each revision is doing
  budget,  \* disturbances left
  born,    \* revisions that have been created (their numbers rise)
  met      \* history: pairs of a revision and an object that has once been
           \* what the revision wants it to be

api  == <<cos, stream>>
vars == <<obj, cos, stream, cache, queued, work, budget, born, met>>

Last(r) == Len(Phases[r])
Manages(r) == UNION {Phases[r][k] : k \in 1 .. Last(r)}

-----------------------------------------------------------------------------
(* Cluster objects.  holder is the controller owner reference, content the *)
(* revision whose spec the object matches, ready whether its assertions    *)
(* hold, dying that it is deleted but held back by finalizers.             *)

Nobody == {Unowned, Foreign}
Absent == [holder |-> Missing, content |-> Other, ready |-> FALSE, dying |-> FALSE]
IsThere(x) == x.holder # Missing

\* What an object becomes when revision r creates, updates or adopts it.
Desired(r, o) ==
  [holder |-> r, content |-> r, ready |-> obj[o].ready \/ o \notin Gates, dying |-> obj[o].dying]

\* Variant: a revision takes an object from any sibling, newer or older.
VerdictAnySibling(r, siblings, x) ==
  CASE x.holder = Missing   -> "write"
    [] x.holder = r         -> IF x.content = r THEN "idle" ELSE "write"
    [] x.holder \in siblings -> "write"
    [] OTHER                -> "collision"

\* What boxcutter finds when it compares an object with a revision that knows
\* the given siblings: nothing to do, something to write, an object that a
\* newer sibling has taken over, or one that belongs to somebody else.
Verdict(r, siblings, x) ==
  CASE x.holder = Missing    -> "write"
    [] x.holder = r           -> IF x.content = r THEN "idle" ELSE "write"
    [] x.holder \in siblings  -> IF x.holder > r THEN "progressed" ELSE "write"
    [] x.holder = Unowned      -> IF AdoptsFree THEN "write" ELSE "collision"
    [] OTHER                  -> "collision"

\* An object is complete for a revision when it is in sync, or a newer sibling
\* has it, and its assertions hold.
Fits(r, siblings, x) == Verdict(r, siblings, x) \in {"idle", "progressed"} /\ x.ready

\* Variant: objects are not watched.
WokenByNone(o, x) == {}

\* Only the controller owner of an object, before or after, is woken by it.
Woken(o, x) == IF x = obj[o] THEN {} ELSE {obj[o].holder, x.holder} \cap Revs

\* The revisions for which an object is complete when it is x.
MetBy(o, x) == {r \in Revs : o \in Manages(r) /\ Fits(r, {q \in Revs : q > r}, x)}

SetObject(o, x) ==
  /\ obj' = [obj EXCEPT ![o] = x]
  /\ met' = met \cup (MetBy(o, x) \X {o})

-----------------------------------------------------------------------------
(* Revisions at the API server.                                            *)

Reasons == {"None", "Available", "Unavailable", "Superseded", "Invalid", "ReconcileError",
            "InternalError", "TearingDown", "TornDown", "TeardownError"}

\* done is status.completedAt, completed the phases that have a completedAt.
Statuses == [reason : Reasons, done : BOOLEAN, completed : SUBSET Nat]

COS == [archived : BOOLEAN, deleting : BOOLEAN, orphan : BOOLEAN,
        finalizer : BOOLEAN, status : Statuses]

NewCOS == [archived |-> FALSE, deleting |-> FALSE, orphan |-> FALSE, finalizer |-> FALSE,
           status |-> [reason |-> "None", done |-> FALSE, completed |-> {}]]

IsActive(c)  == ~c.archived /\ ~c.deleting
Orphaning(c) == c.deleting /\ c.orphan

Store(g, r, c) == [q \in DOMAIN g \cup {r} |-> IF q = r THEN c ELSE g[q]]
Without(g, r)  == [q \in DOMAIN g \ {r} |-> g[q]]

\* A write that changes nothing makes no event.
Put(g) ==
  IF g = cos THEN UNCHANGED api
  ELSE Len(stream) < MaxLag /\ cos' = g /\ stream' = Append(stream, g)

\* A deleted revision that no finalizer holds is gone.
Settled(g, r) ==
  IF g[r].deleting /\ ~g[r].finalizer /\ ~g[r].orphan THEN Without(g, r) ELSE g

\* resolveSiblings: the other active members of the listed group.
Siblings(g, r) == {q \in DOMAIN g \ {r} : IsActive(g[q])}

-----------------------------------------------------------------------------
(* A worker: where it is, its copy of the revision, the siblings it knows, *)
(* the pass and phase it is in, the objects of the phase it has still to   *)
(* look at, whether the phase is complete so far, whether every object so  *)
(* far has progressed to a newer revision, the phases found complete, the  *)
(* error.                                                                  *)

\* Variant: a worker keeps its error when it ends.
IdleUncleared == [at |-> "idle", error |-> "none"]

Idle == [at |-> "idle"]

Worker(r, place, phase) ==
  [at |-> place, self |-> cache[r], siblings |-> Siblings(cache, r),
   pass |-> "gated", phase |-> phase, todo |-> Phases[r][phase],
   clean |-> TRUE, moved |-> TRUE, full |-> {}, error |-> "none"]

\* Variant: objects are reconciled whether or not the finalizer is stored.
OpeningUnguarded(r) ==
  IF r \notin DOMAIN cache THEN Idle
  ELSE IF IsActive(cache[r]) THEN Worker(r, "objects", 1)
  ELSE IF ~cache[r].finalizer THEN Idle ELSE Worker(r, "teardown", Last(r))

\* Variant: the orphan finalizer is not looked at.
OpeningCascade(r) ==
  IF r \notin DOMAIN cache \/ (~IsActive(cache[r]) /\ ~cache[r].finalizer) THEN Idle
  ELSE IF ~IsActive(cache[r]) THEN Worker(r, "teardown", Last(r))
  ELSE Worker(r, IF cache[r].finalizer THEN "objects" ELSE "finalizer", 1)

\* reconcile, reconcileActive and teardown, up to the first call.
Opening(r) ==
  IF r \notin DOMAIN cache THEN Idle
  ELSE LET c == cache[r]
       IN CASE IsActive(c) /\ ~c.finalizer    -> Worker(r, "finalizer", 1)
            [] IsActive(c) /\ c.finalizer     -> Worker(r, "objects", 1)
            [] ~IsActive(c) /\ ~c.finalizer   -> Idle
            [] Orphaning(c) /\ c.finalizer    -> [at |-> "release", self |-> c]
            [] OTHER                          -> Worker(r, "teardown", Last(r))

Become(r, w) == work' = [work EXCEPT ![r] = w]

\* Variant: errors are swallowed.
EndQuietly(r, again) == Become(r, Idle) /\ UNCHANGED queued

\* The worker ends; after an error the queue runs it again.
End(r, again) ==
  /\ Become(r, Idle)
  /\ queued' = IF again THEN queued \cup {r} ELSE queued

\* The engine is done: what the status is made from.
Report(w, full) ==
  [w EXCEPT !.at = "report", !.siblings = {}, !.pass = "gated", !.phase = 1, !.todo = {},
            !.full = full]

Begin(r) ==
  /\ r \in queued /\ work[r] = Idle
  /\ queued' = queued \ {r}
  /\ Become(r, Opening(r))
  /\ UNCHANGED <<obj, met, api, cache, budget, born>>

Spend(kind) ==
  /\ budget[kind] > 0 /\ budget["any"] > 0
  /\ budget' = [budget EXCEPT ![kind] = @ - 1, !["any"] = @ - 1]

\* The content cannot be resolved, or the engine not be built: nothing is
\* written and the status says why.
BeginFails(r, kind) ==
  /\ r \in queued /\ work[r] = Idle
  /\ Opening(r).at \in {"objects", "teardown"}
  /\ Spend("fault")
  /\ queued' = queued \ {r}
  /\ Become(r, [Report(Opening(r), {}) EXCEPT !.error = kind])
  /\ UNCHANGED <<obj, met, api, cache, born>>

\* The finalizer is applied and the reconcile ends; the event starts the next
\* one.  The API server adds no finalizer to a revision that is being deleted
\* and creates none from an apply without a spec.
EnsureFinalizer(r) ==
  /\ work[r].at = "finalizer"
  /\ IF r \in DOMAIN cos /\ ~cos[r].deleting
     THEN Put(Store(cos, r, [cos[r] EXCEPT !.finalizer = TRUE])) /\ End(r, FALSE)
     ELSE UNCHANGED api /\ End(r, TRUE)
  /\ UNCHANGED <<obj, met, cache, budget, born>>

-----------------------------------------------------------------------------
(* The three passes of the engine.                                         *)

\* Variant: phases that are only looked at count as complete.
GlimpseAll(r, w) == w.phase + 1 .. Last(r)

\* Phases the read-only pass would find complete.
Glimpse(r, w) ==
  {j \in w.phase + 1 .. Last(r) : \A o \in Phases[r][j] : Fits(r, w.siblings, obj'[o])}

\* Variant: the drift pass begins after any phase that is not complete.
NextPhaseUnsplit(r, w) ==
  LET full == w.full \cup (IF w.clean THEN {w.phase} ELSE {})
  IN IF w.phase = Last(r) \/ w.error # "none" THEN Report(w, full)
     ELSE [w EXCEPT !.pass = IF w.clean THEN @ ELSE "drift", !.phase = @ + 1,
                    !.todo = Phases[r][w.phase + 1], !.clean = TRUE, !.full = full]

\* After the last object of a phase.  The gated pass stops at the first phase
\* that is not complete.  The drift pass goes on if the phase after it was
\* completed before, up to and including the first that was not.  The
\* read-only pass looks at the rest.
NextPhase(r, w) ==
  LET k    == w.phase
      full == w.full \cup (IF w.clean THEN {k} ELSE {})
      Go(pass) == [w EXCEPT !.pass = pass, !.phase = k + 1, !.todo = Phases[r][k + 1],
                            !.clean = TRUE, !.full = full]
      completed == w.self.status.completed
  IN CASE w.error # "none"                     -> Report(w, full)
       [] w.error = "none" /\ w.pass = "gated" /\ w.clean /\ k < Last(r) -> Go("gated")
       [] w.error = "none" /\ w.pass = "gated" /\ ~w.clean /\ k + 1 \in completed -> Go("drift")
       [] w.error = "none" /\ w.pass = "drift" /\ k \in completed /\ k < Last(r) -> Go("drift")
       [] OTHER -> Report([w EXCEPT !.moved = @ /\ w.pass = "gated" /\ k = Last(r)],
                          full \cup Glimpse(r, w))

Advance(r, w) == Become(r, IF w.todo = {} THEN NextPhase(r, w) ELSE w)

\* One object: compared and, where needed, created, updated or adopted.
ReconcileObject(r) ==
  /\ work[r].at = "objects"
  /\ LET w == work[r]
         o == Min(w.todo)
         v == Verdict(r, w.siblings, obj[o])
         x == IF v = "write" THEN Desired(r, o) ELSE obj[o]
     IN /\ SetObject(o, x)
        /\ queued' = queued \cup Woken(o, x)
        /\ Advance(r, [w EXCEPT !.todo = @ \ {o}, !.clean = @ /\ Fits(r, w.siblings, x),
                                !.moved = @ /\ v = "progressed"])
  /\ UNCHANGED <<api, cache, budget, born>>

\* A write fails: the rest of the phase is still reconciled, then it ends.
WriteFails(r) ==
  /\ work[r].at = "objects"
  /\ LET w == work[r]
         o == Min(w.todo)
     IN /\ Verdict(r, w.siblings, obj[o]) = "write"
        /\ Spend("fault")
        /\ SetObject(o, obj[o])
        /\ Advance(r, [w EXCEPT !.todo = @ \ {o}, !.clean = FALSE, !.moved = FALSE,
                                !.error = "object"])
  /\ UNCHANGED <<api, cache, queued, born>>

-----------------------------------------------------------------------------
(* Teardown, from the last phase to the first.                             *)

\* Variant: the next phase is torn down while objects of this one remain.
PrevPhaseUnclean(r, w) ==
  IF w.phase > 1 /\ w.error = "none"
  THEN [w EXCEPT !.phase = @ - 1, !.todo = Phases[r][w.phase - 1]]
  ELSE Report(w, {})

\* Variant: a phase counts as gone once its objects were asked to go.
PrevPhaseHasty(r, w) ==
  IF w.phase > 1 /\ w.error = "none"
  THEN [w EXCEPT !.phase = @ - 1, !.todo = Phases[r][w.phase - 1], !.clean = TRUE]
  ELSE Report([w EXCEPT !.clean = TRUE], {})

PrevPhase(r, w) ==
  IF w.clean /\ w.phase > 1 /\ w.error = "none"
  THEN [w EXCEPT !.phase = @ - 1, !.todo = Phases[r][w.phase - 1]]
  ELSE Report(w, {})

Retreat(r, w) == Become(r, IF w.todo = {} THEN PrevPhase(r, w) ELSE w)

\* One object: deleted if the revision holds it, which its finalizers may
\* delay; either way it is waited for until a later teardown finds it gone.
TeardownObject(r) ==
  /\ work[r].at = "teardown"
  /\ LET w == work[r]
         o == Min(w.todo)
         mine == obj[o].holder = r
     IN /\ \E x \in IF mine /\ ~obj[o].dying THEN {Absent, [obj[o] EXCEPT !.dying = TRUE]}
                    ELSE {obj[o]} :
             SetObject(o, x) /\ queued' = queued \cup Woken(o, x)
        /\ Retreat(r, [w EXCEPT !.todo = @ \ {o}, !.clean = @ /\ ~mine])
  /\ UNCHANGED <<api, cache, budget, born>>

DeletionFails(r) ==
  /\ work[r].at = "teardown"
  /\ LET w == work[r]
         o == Min(w.todo)
     IN /\ obj[o].holder = r
        /\ Spend("fault")
        /\ Retreat(r, [w EXCEPT !.todo = @ \ {o}, !.clean = FALSE, !.error = "object"])
  /\ UNCHANGED <<obj, met, api, cache, queued, born>>

-----------------------------------------------------------------------------
(* Status and release.                                                     *)

\* Phases found available get a completedAt, which later results preserve.
NewStatus(r, w) ==
  LET old == w.self.status
      Say(reason) == [old EXCEPT !.reason = reason, !.completed = @ \cup w.full]
  IN CASE w.error = "resolution" -> [old EXCEPT !.reason = "Invalid"]
       [] w.error = "internal"   -> [old EXCEPT !.reason = "InternalError", !.completed = {}]
       [] w.error = "object"     -> Say(IF IsActive(w.self) THEN "ReconcileError" ELSE "TeardownError")
       [] w.error = "none" /\ ~IsActive(w.self) -> Say(IF w.clean THEN "TornDown" ELSE "TearingDown")
       [] w.error = "none" /\ IsActive(w.self) ->
            IF w.moved THEN [old EXCEPT !.reason = "Superseded"]
            ELSE IF w.full = 1 .. Last(r) THEN [Say("Available") EXCEPT !.done = TRUE]
            ELSE Say("Unavailable")

\* A refused or failed update is an error; so is what the engine reported.
UpdateStatus(r) ==
  /\ work[r].at = "report"
  /\ LET w == work[r]
         c == [w.self EXCEPT !.status = NewStatus(r, w)]
         refused == c # w.self /\ (r \notin DOMAIN cos \/ cos[r] # w.self)
     IN /\ IF c # w.self /\ ~refused THEN Put(Store(cos, r, c)) ELSE UNCHANGED api
        /\ IF ~refused /\ w.error = "none" /\ ~IsActive(c) /\ w.clean
           THEN Become(r, [at |-> "release", self |-> c]) /\ UNCHANGED queued
           ELSE End(r, refused \/ w.error # "none" \/ ~IsActive(c))
  /\ UNCHANGED <<obj, met, cache, budget, born>>

\* The finalizer is removed under the optimistic lock of the copy at hand.
Release(r) ==
  /\ work[r].at = "release"
  /\ LET c == work[r].self
     IN IF r \in DOMAIN cos /\ cos[r] = c
        THEN /\ Put(Settled(Store(cos, r, [c EXCEPT !.finalizer = FALSE]), r))
             /\ Become(r, [at |-> "wait"]) /\ UNCHANGED queued
        ELSE UNCHANGED api /\ End(r, TRUE)
  /\ UNCHANGED <<obj, met, cache, budget, born>>

\* WaitForFinalizerRemoval: until the cache shows it.
AwaitRemoval(r) ==
  /\ work[r].at = "wait"
  /\ r \in DOMAIN cache => ~cache[r].finalizer
  /\ End(r, FALSE)
  /\ UNCHANGED <<obj, met, api, cache, budget, born>>

\* A call fails, or the wait for the cache times out: the error ends the
\* reconcile and the queue runs it again.
Fail(r) ==
  /\ work[r].at \in {"finalizer", "report", "release", "wait"}
  /\ Spend("fault")
  /\ End(r, TRUE)
  /\ UNCHANGED <<obj, met, api, cache, born>>

-----------------------------------------------------------------------------
(* The informer, and a restart of the operator.                            *)

DeliverCOS ==
  /\ stream # <<>>
  /\ stream' = Tail(stream)
  /\ cache' = Head(stream)
  /\ queued' = queued \cup {r \in DOMAIN cache \cup DOMAIN cache' :
                              ~(r \in DOMAIN cache \cap DOMAIN cache' /\ cache[r] = cache'[r])}
  /\ UNCHANGED <<obj, met, cos, work, budget, born>>

Crash ==
  /\ Spend("fault")
  /\ work' = [r \in Revs |-> Idle]
  /\ stream' = <<>> /\ cache' = cos /\ queued' = DOMAIN cos
  /\ UNCHANGED <<obj, met, cos, born>>

-----------------------------------------------------------------------------
(* Everybody else: the deployment controller and users with revisions, the *)
(* garbage collector, and whatever happens to cluster objects.             *)

CreateRevision(r) ==
  /\ r \notin born /\ {q \in Revs : q < r} \subseteq born
  /\ Put(Store(cos, r, NewCOS))
  /\ born' = born \cup {r}
  /\ UNCHANGED <<obj, met, cache, queued, work, budget>>

\* The deployment controller archives below a revision that is available; a
\* user may do it at any time.
Archive(r) ==
  /\ r \in DOMAIN cos /\ IsActive(cos[r])
  /\ IF \E q \in DOMAIN cos : q > r /\ cos[q].status.reason = "Available"
     THEN UNCHANGED budget ELSE Spend("touch")
  /\ Put(Store(cos, r, [cos[r] EXCEPT !.archived = TRUE]))
  /\ UNCHANGED <<obj, met, cache, queued, work, born>>

\* A user deletes a revision, with or without its objects.
Delete(r, orphan) ==
  /\ r \in DOMAIN cos /\ ~cos[r].deleting
  /\ Spend("touch")
  /\ Put(Settled(Store(cos, r, [cos[r] EXCEPT !.deleting = TRUE, !.orphan = orphan]), r))
  /\ UNCHANGED <<obj, met, cache, queued, work, born>>

\* Something changes an object, and its controller owner hears of it.
Change(o, x) ==
  /\ SetObject(o, x)
  /\ queued' = queued \cup Woken(o, x)
  /\ UNCHANGED <<api, cache, work, born>>

\* The garbage collector takes the owner reference off an orphan, and the
\* orphan finalizer off its owner, which is refused while the other is there.
OrphanObject(o) ==
  /\ obj[o].holder \in DOMAIN cos /\ Orphaning(cos[obj[o].holder])
  /\ Change(o, [obj[o] EXCEPT !.holder = Unowned])
  /\ UNCHANGED budget

FinishOrphaning(r) ==
  /\ r \in DOMAIN cos /\ Orphaning(cos[r]) /\ ~cos[r].finalizer
  /\ \A o \in Objects : obj[o].holder # r
  /\ Put(Without(cos, r))
  /\ UNCHANGED <<obj, met, cache, queued, work, budget, born>>

Vanish(o)   == obj[o].dying /\ Change(o, Absent) /\ UNCHANGED budget
OpenGate(o) ==
  /\ o \in Gates /\ IsThere(obj[o]) /\ ~obj[o].ready
  /\ Change(o, [obj[o] EXCEPT !.ready = TRUE])
  /\ UNCHANGED budget

CloseGate(o) ==
  /\ o \in Gates /\ obj[o].ready /\ Spend("drift")
  /\ Change(o, [obj[o] EXCEPT !.ready = FALSE])

DriftObject(o) ==
  /\ IsThere(obj[o]) /\ obj[o].content # Other /\ Spend("drift")
  /\ Change(o, [obj[o] EXCEPT !.content = Other])

RemoveObject(o) ==
  /\ IsThere(obj[o]) /\ ~obj[o].dying /\ Spend("removal")
  /\ \E x \in {Absent, [obj[o] EXCEPT !.dying = TRUE]} : Change(o, x)

CreateForeign(o) ==
  /\ ~IsThere(obj[o]) /\ Spend("foreign")
  /\ \E who \in Nobody : Change(o, [Absent EXCEPT !.holder = who, !.ready = o \notin Gates])

ClearForeign(o) ==
  /\ obj[o].holder \in Nobody /\ Spend("removal")
  /\ Change(o, Absent)

-----------------------------------------------------------------------------
Init ==
  /\ obj = [o \in Objects |-> Absent]
  /\ cos = << >> /\ stream = << >> /\ cache = << >>
  /\ queued = {} /\ work = [r \in Revs |-> Idle]
  /\ budget = Budget /\ born = {} /\ met = {}

Work(r) ==
  \/ Begin(r) \/ EnsureFinalizer(r) \/ ReconcileObject(r) \/ TeardownObject(r)
  \/ UpdateStatus(r) \/ Release(r) \/ AwaitRemoval(r)

Mishap(r) ==
  \/ \E kind \in {"resolution", "internal"} : BeginFails(r, kind)
  \/ WriteFails(r) \/ DeletionFails(r) \/ Fail(r)

Request(r) ==
  \/ CreateRevision(r) \/ Archive(r) \/ FinishOrphaning(r)
  \/ \E orphan \in BOOLEAN : Delete(r, orphan)

Happening(o) ==
  \/ OrphanObject(o) \/ Vanish(o) \/ OpenGate(o) \/ CloseGate(o)
  \/ DriftObject(o) \/ RemoveObject(o) \/ CreateForeign(o) \/ ClearForeign(o)

Next ==
  \/ \E r \in Revs : Work(r) \/ Mishap(r) \/ Request(r)
  \/ \E o \in Objects : Happening(o)
  \/ DeliverCOS
  \/ Crash

\* The controller keeps working and events keep arriving; objects that are
\* being deleted go in the end, and the garbage collector does its part.
Spec ==
  /\ Init /\ [][Next]_vars
  /\ \A r \in Revs : WF_vars(Work(r))
  /\ WF_vars(DeliverCOS)
  /\ WF_vars(\E o \in Objects : Vanish(o) \/ OrphanObject(o))
  /\ WF_vars(\E r \in Revs : FinishOrphaning(r))

-----------------------------------------------------------------------------
(* Properties.                                                             *)

Workers ==
  [at : {"idle", "wait"}] \cup [at : {"release"}, self : COS]
  \cup [at : {"finalizer", "objects", "teardown", "report"}, self : COS,
        siblings : SUBSET Revs, pass : {"gated", "drift"}, phase : Nat,
        todo : SUBSET Objects, clean : BOOLEAN, moved : BOOLEAN, full : SUBSET Nat,
        error : {"none", "object", "resolution", "internal"}]

IsListing(g) == DOMAIN g \subseteq Revs /\ \A r \in DOMAIN g : g[r] \in COS

\* Everything has its type, and a worker in a phase has an object to look at.
TypeOK ==
  /\ obj \in [Objects -> [holder : Revs \cup Nobody \cup {Missing},
                          content : Revs \cup {Other}, ready : BOOLEAN, dying : BOOLEAN]]
  /\ IsListing(cos) /\ IsListing(cache)
  /\ \A i \in DOMAIN stream : IsListing(stream[i])
  /\ queued \subseteq Revs /\ born \subseteq Revs /\ met \subseteq Revs \X Objects
  /\ \A r \in Revs :
       /\ work[r] \in Workers
       /\ work[r].at \in {"objects", "teardown"} =>
            work[r].phase \in 1 .. Last(r) /\ work[r].todo # {}

\* An object never outlives the protection of its owner: whoever it names as
\* controller exists and has the finalizer that makes its deletion tear the
\* object down, or is being deleted with the orphan finalizer.  The finalizer
\* is stored before the first write and removed after the last deletion.
NoLeak ==
  \A o \in Objects : obj[o].holder \in Revs =>
    /\ obj[o].holder \in DOMAIN cos
    /\ cos[obj[o].holder].finalizer \/ Orphaning(cos[obj[o].holder])

\* A phase gets its completedAt, and a revision its own, only after each of
\* its objects has been complete, whichever pass found it so.
EarnedCompletion ==
  \A r \in DOMAIN cos :
    /\ \A k \in cos[r].status.completed : \A o \in Phases[r][k] : <<r, o>> \in met
    /\ cos[r].status.done => \A o \in Manages(r) : <<r, o>> \in met

Takes(r, o) == work[r].at = "objects" /\ obj[o].holder # r /\ obj'[o].holder = r

\* A revision that no newer one has followed creates or adopts an object only
\* after every object of its earlier phases has been complete, also in the
\* drift pass.  Of an older one a phase may be complete because a newer sibling
\* has its objects.
PhaseOrder ==
  [][\A r \in Revs : (\A q \in born : q <= r) =>
       \A k \in 1 .. Last(r) : \A o \in Phases[r][k] :
         Takes(r, o) => \A j \in 1 .. k - 1 : \A p \in Phases[r][j] : <<r, p>> \in met]_vars

Deletes(r, o) ==
  work[r].at = "teardown" /\ work'[r] # work[r] /\ obj[o].holder = r /\ obj'[o] # obj[o]

\* A teardown deletes an object only when nothing of the later phases is left.
TeardownReverse ==
  [][\A r \in Revs : \A k \in 1 .. Last(r) : \A o \in Phases[r][k] :
       Deletes(r, o) => \A j \in k + 1 .. Last(r) : \A p \in Phases[r][j] : obj[p].holder # r]_vars

\* The controller deletes objects only for a revision that is archived or was
\* deleted with its objects: never for an active one, never for one that was
\* active when somebody deleted it with the orphan finalizer.
TeardownIsMeant ==
  [][\A r \in Revs : \A o \in Objects :
       Deletes(r, o) => r \in DOMAIN cos
                        /\ (cos[r].archived \/ (cos[r].deleting /\ ~cos[r].orphan))]_vars

\* An object that a newer active revision has had in place is not deleted by
\* the teardown of an older one, as long as nobody else deletes it.
SharedKept ==
  [][\A r \in Revs : \A o \in Objects :
       Deletes(r, o) =>
         \A q \in DOMAIN cos : q > r /\ IsActive(cos[q]) /\ cos[q].status.done => o \notin Manages(q)]_vars

\* A revision is protected by a finalizer until it has left.
Stage(r) ==
  IF r \notin DOMAIN cos \/ ~(cos[r].finalizer \/ Orphaning(cos[r])) THEN "free"
  ELSE IF IsActive(cos[r]) THEN "held" ELSE "leaving"

Ownership == INSTANCE ObjectOwnership WITH
  owner <- [o \in Objects |-> obj[o].holder],
  stage <- [r \in Revs |-> Stage(r)]

\* Every step of the controller and of those around it is one that
\* ObjectOwnership allows, or changes no owner and no protection.
ImplementsOwnership == Ownership!Spec

\* There is nothing for the controller to do.
Quiet == queued = {} /\ stream = << >> /\ \A r \in Revs : work[r] = Idle

\* docs/concepts/revision-management.md:33: "There is no gap in reconciliation
\* - at least one revision is always managing each object".  So whenever the
\* controller comes to rest, the first phase of every active revision is there.
NoLastingGap ==
  Quiet => \A r \in DOMAIN cos : IsActive(cos[r]) =>
             \A o \in Phases[r][1] : IsThere(obj[o])

\* Nothing but the controller stands between a revision and its objects.
Unimpeded(r) ==
  /\ r \in DOMAIN cos /\ IsActive(cos[r])
  /\ \A o \in Manages(r) : IsThere(obj[o]) => obj[o].ready /\ obj[o].holder \notin Nobody

\* An assertion of r is about an object that a newer revision holds, whose
\* events wake the newer one only (controller.go:93).
Overlooked(r) ==
  \E o \in Manages(r) \cap Gates : \E q \in Revs : q > r /\ obj[o].holder = q

\* A revision whose assertions come to hold ends up with all its objects in
\* place and says so, after a drifted object, failed calls and restarts.  Of an
\* older one that is overlooked only the first is true: its status may stay what
\* it was when its successor took the object.
RolloutCompletes ==
  \A r \in Revs :
    <>[]Unimpeded(r) =>
      <>[](/\ \A o \in Manages(r) : r \in MetBy(o, obj[o])
           /\ \/ cos[r].status.reason \in {"Available", "Superseded"}
              \/ Overlooked(r))

\* A retired revision is torn down to the last object and let go.
RetiredIsReleased ==
  \A r \in Revs :
    (r \in DOMAIN cos /\ ~IsActive(cos[r])) ~>
      /\ \A o \in Objects : obj[o].holder # r
      /\ r \in DOMAIN cos => cos[r].archived /\ ~cos[r].finalizer
=============================================================================
