--------------------------- MODULE RevisionRollout ---------------------------
(***************************************************************************)
(* One revision from its first reconcile to its teardown, with everything  *)
(* that passes between the two controllers about it: the content of the    *)
(* slices it refers to and the hash that pins it, the status in detail and *)
(* whether the API server takes it, and the progress deadline that the     *)
(* deployment controller reads off that status.                            *)
(*                                                                         *)
(* A pass of the phase engine is one step here; COSController has its      *)
(* interleavings.  Time is kept as ages, which stop growing once the       *)
(* deadline is passed, so that it may go on for ever.                      *)
(***************************************************************************)
EXTENDS Naturals, Sequences, FiniteSets, FiniteSetsExt

CONSTANTS
  Phases,        \* spec.phases: a sequence of sets of objects, numbered in order
  SliceOf,       \* for each object its slice, or Inline
  Manifest,      \* for each inline object its content
  Gates,         \* objects with an assertion that somebody else makes true
  Versions,      \* the contents a slice may be created with
  Spread,        \* characters it takes to list what differs in an object
  ProbeMessage,  \* characters of what a failing assertion or a refusal says
  Budgets,       \* bounds: how often each disturbance, and any, may happen;
                 \* a behaviour has one of them
  Data, Garbage, Gone, Inline, Failure,  \* see ObjectResolution
  Minutes, Unit, Width,                  \* see ProgressDeadline
  MaxMessage, Never, None                \* see ObservedPhases

Status   == INSTANCE ObservedPhases
Resolver == INSTANCE ObjectResolution
Progress == INSTANCE ProgressDeadline

Objects == UNION {Phases[k] : k \in DOMAIN Phases}
Last    == Len(Phases)
Slices  == {SliceOf[o] : o \in Objects} \ {Inline}
Other   == Garbage  \* "content" of an object that somebody changed

Disturbances == {"slice", "drift", "taken", "fault", "archive", "any"}

ASSUME RolloutAssumption ==
  /\ Status!ObservedPhasesAssumption /\ Resolver!ResolutionAssumption
  /\ Progress!DeadlineAssumption
  /\ Phases \in Seq(SUBSET Nat) /\ Last > 0
  /\ \A k \in DOMAIN Phases : Phases[k] # {}
  /\ IsFiniteSet(Objects) /\ Objects = 1 .. Cardinality(Objects)
  /\ \A j, k \in DOMAIN Phases : j < k => \A o \in Phases[j], p \in Phases[k] : o < p
  /\ SliceOf \in [Objects -> Slices \cup {Inline}]
  /\ \A o \in Objects : SliceOf[o] = Inline => Manifest[o] \in Data
  /\ Gates \subseteq Objects
  /\ Versions # {} /\ \A v \in Versions : Resolver!SliceAdmitted(v)
  /\ Spread \in Nat /\ ProbeMessage \in Nat
  /\ Budgets \subseteq [Disturbances -> Nat]

VARIABLES
  slices,   \* the API server's slices
  mapped,   \* the informer's slices, transformed
  obj,      \* the cluster objects of the revision
  cos,      \* the API server's ClusterObjectSet
  cache,    \* the informer's copy of it
  queued,   \* whether the revision is in its controller's work queue
  work,     \* what the worker is doing
  age,      \* time since the revision was created
  cod,      \* the deployment's status: Progressing and object counts
  alarm,    \* time until the deployment is queued again; 0: not set
  summoned, \* whether the deployment is in its controller's work queue
  quiet,    \* history: time since the revision last got further, as far as
            \* its status still tells
  budget    \* disturbances left

world      == <<slices, mapped, obj>>
deployment == <<cod, alarm, summoned>>
vars       == <<world, cos, cache, queued, work, age, deployment, quiet, budget>>

Spend(kind) ==
  /\ budget[kind] > 0 /\ budget["any"] > 0
  /\ budget' = [budget EXCEPT ![kind] = @ - 1, !["any"] = @ - 1]

-----------------------------------------------------------------------------
(* Resolution: object after object, each from what the cache has then.     *)

Idle == [at |-> "idle"]

\* Variant: a teardown resolves the objects too.
BeginResolved ==
  /\ queued /\ work = Idle
  /\ queued' = FALSE
  /\ work' = IF ~cache.finalizer THEN Idle ELSE [at |-> "resolve", self |-> cache, got |-> << >>]
  /\ UNCHANGED <<world, cos, cache, age, deployment, quiet, budget>>

\* Reconcile up to the first read: a revision that was let go is left alone,
\* an archived one is torn down without looking at any slice.
Begin ==
  /\ queued /\ work = Idle
  /\ queued' = FALSE
  /\ work' = CASE ~cache.finalizer                    -> Idle
               [] cache.finalizer /\ cache.archived   -> [at |-> "teardown", self |-> cache]
               [] cache.finalizer /\ ~cache.archived  -> [at |-> "resolve", self |-> cache, got |-> << >>]
  /\ UNCHANGED <<world, cos, cache, age, deployment, quiet, budget>>

\* What goes to the API server, and whether the reconcile asks for another.
Report(status, again) ==
  work' = [at |-> "report", self |-> work.self, status |-> status, again |-> again]

ResolutionFails == Report(Status!FromReconcile(work.self.status, Phases, Status!NoResult, "resolution"), TRUE)

\* One object; after the last one the hash is compared, and set in the copy
\* at hand if it was not.
Resolve ==
  /\ work.at = "resolve"
  /\ LET o    == Len(work.got) + 1
         data == Resolver!ResolveObject(SliceOf[o], o, Manifest[o], mapped)
         got  == Append(work.got, data)
     IN IF data = Failure \/ (o = Cardinality(Objects)
                              /\ ~Resolver!VerifyHash(work.self.status.hash, got, None))
        THEN ResolutionFails
        ELSE work' = [work EXCEPT !.got = got, !.at = IF o = Cardinality(Objects) THEN "engine" ELSE @]
  /\ UNCHANGED <<world, cos, cache, queued, age, deployment, quiet, budget>>

\* The status the engine's result goes into.
Pinned(w) == [w.self.status EXCEPT !.hash = IF @ = None THEN w.got ELSE @]

\* The object accessor or the engine cannot be had.
EngineFails ==
  /\ work.at \in {"engine", "teardown"} /\ Spend("fault")
  /\ IF work.at = "engine"
     THEN Report(Status!FromReconcile(Pinned(work), Phases, Status!NoResult, "internal"), TRUE)
     ELSE Report(Status!FromTeardown(work.self.status, Phases, Status!NoResult, "internal"), TRUE)
  /\ UNCHANGED <<world, cos, cache, queued, age, deployment, quiet>>

-----------------------------------------------------------------------------
(* A pass of the engine.  holder says whose an object is, ready whether    *)
(* its assertions hold.                                                    *)

Absent == [holder |-> "nobody", content |-> Other, ready |-> FALSE]

\* What boxcutter does, or in a read-only pass would do.
Action(x, want) ==
  CASE x.holder = "nobody"  -> "Created"
    [] x.holder = "newer"   -> "Progressed"
    [] x.holder = "foreign" -> "Collision"
    [] x.holder = "ours"    -> IF x.content = want THEN "Idle"
                               ELSE IF x.content = Other THEN "Recovered" ELSE "Updated"

Writes == {"Created", "Updated", "Recovered"}

Written(o, want) ==
  IF Action(obj[o], want) \in Writes
  THEN [holder |-> "ours", content |-> want, ready |-> obj[o].ready \/ o \notin Gates]
  ELSE obj[o]

Fits(x, want) == x.ready /\ Action(x, want) \in {"Idle", "Progressed"}

\* The result for one object: x is what it is after the pass.
ObjectResult(o, want, paused, x) ==
  [action |-> Action(obj[o], want), paused |-> paused, complete |-> Fits(x, want),
   probes |-> IF x.ready THEN {} ELSE {ProbeMessage}, differences |-> Spread]

StampedPhases(status) == {k \in DOMAIN status.phases : status.phases[k].completedAt # Never}

\* The last phase of the gated pass: the first that is not complete, as one
\* that is refused never is.
GatedEnd(want, refused) ==
  Min({Last} \cup refused \cup
      {k \in 1 .. Last : \E o \in Phases[k] : ~Fits(Written(o, want[o]), want[o])})

\* The last phase that is written: the drift pass follows the gated one
\* while phases were complete before, and takes the first that was not.
WrittenEnd(want, stamped, refused) ==
  LET g == GatedEnd(want, refused)
  IN IF g = Last \/ g + 1 \notin stamped THEN g
     ELSE Min({Last} \cup {k \in g + 1 .. Last : k \notin stamped})

Looked(k, want, paused, missed) ==
  LET results == [o \in Phases[k] \ missed |->
                    ObjectResult(o, want[o], paused, IF paused THEN obj[o] ELSE Written(o, want[o]))]
  IN [complete |-> Status!IsComplete(Phases[k], results), objects |-> results,
      refusal |-> Status!NoRefusal]

\* What validation says of a phase and its objects when it refuses the phase,
\* none of which is looked at then.
Refusal(k) == [phase |-> ProbeMessage, objects |-> [o \in Phases[k] |-> {ProbeMessage}]]

Refused(k) ==
  [complete |-> FALSE, objects |-> [o \in {} |-> Absent], refusal |-> Refusal(k)]

NoErrors == [k \in {} |-> Status!NoRefusal]

\* The phases up to end, in which some are refused and objects are missed.
Result(want, stamped, refused, end, missed) ==
  LET g       == GatedEnd(want, refused)
      written == WrittenEnd(want, stamped, refused)
      phases  == [k \in 1 .. end |->
                    IF k \in refused THEN Refused(k)
                    ELSE Looked(k, want, k > written, IF k = end THEN missed ELSE {})]
      whole   == g = Last /\ missed = {} /\ refused = {}
  IN [errors |-> NoErrors,
      progressed |-> whole /\ \A o \in Objects : obj[o].holder = "newer",
      complete |-> whole /\ phases[Last].complete,
      phases |-> phases]

WriteObjects(these, want) ==
  obj' = [o \in Objects |-> IF o \in these THEN Written(o, want[o]) ELSE obj[o]]

UpTo(k) == UNION {Phases[j] : j \in 1 .. k}

\* A pass of the engine up to the phase end: the phases before and at
\* WrittenEnd are written, except what is refused or missed, the others only
\* looked at.  Written objects wake their revision.
Pass(refused, end, missed, error) ==
  /\ work.at = "engine"
  /\ LET stamped == StampedPhases(work.self.status)
         written == WrittenEnd(work.got, stamped, refused)
     IN /\ WriteObjects(UpTo(Min({end, written})) \ (missed \cup UNION {Phases[k] : k \in refused}),
                        work.got)
        /\ Report(Status!FromReconcile(Pinned(work), Phases,
                    Result(work.got, stamped, refused, end, missed), error), error # "none")
  /\ queued' = (queued \/ obj' # obj)
  /\ UNCHANGED <<slices, mapped, cos, cache, age, deployment, quiet>>

ReconcilePhases == Pass({}, Last, {}, "none") /\ UNCHANGED budget

\* The last phase that a pass of the engine in work would write.
Reach == WrittenEnd(work.got, StampedPhases(work.self.status), {})

\* The write of an object fails: the rest of its phase is still reconciled,
\* later phases are not, and none is looked at read-only.
WriteFails ==
  /\ work.at = "engine" /\ Spend("fault")
  /\ \E k \in 1 .. Reach : \E o \in Phases[k] :
       Action(obj[o], work.got[o]) \in Writes /\ Pass({}, k, {o}, "object")

\* Objects of a phase cannot be looked at: the read-only pass ends there, and
\* nobody hears of the error.
LookFails ==
  /\ work.at = "engine" /\ Spend("fault")
  /\ \E k \in Reach + 1 .. Last : \E missed \in (SUBSET Phases[k]) \ {{}} :
       Pass({}, k, missed, "none")

\* Validation refuses one phase when its turn comes, without an error.
PhaseRefused ==
  /\ work.at = "engine" /\ Spend("fault")
  /\ \E k \in 1 .. Last : Pass({k}, Last, {}, "none")

\* Preflight of the revision refuses a phase: nothing is written, and there is no error.
PreflightRefuses ==
  /\ work.at = "engine" /\ Spend("fault")
  /\ \E k \in 1 .. Last :
       LET result == [errors |-> [j \in {k} |-> Refusal(k)], progressed |-> FALSE,
                      complete |-> FALSE, phases |-> << >>]
       IN Report(Status!FromReconcile(Pinned(work), Phases, result, "none"), FALSE)
  /\ UNCHANGED <<world, cos, cache, queued, age, deployment, quiet>>

\* The last phase that has objects of the revision is deleted; some of them
\* may take longer (but not all of them for ever).  The phases before it are only looked at.
TeardownPhases ==
  /\ work.at = "teardown"
  /\ LET left   == {k \in 1 .. Last : \E o \in Phases[k] : obj[o].holder = "ours"}
         active == IF left = {} THEN 0 ELSE Max(left)
         There(k) == {o \in Phases[k] : obj[o].holder # "nobody"}
         mine     == {o \in Objects : active # 0 /\ o \in Phases[active] /\ obj[o].holder = "ours"}
         result   == [active |-> active,
                      phases |-> [k \in 1 .. Last |->
                        [complete |-> k > active, waiting |-> IF k = active THEN mine ELSE There(k)]]]
     IN /\ \E gone \in (SUBSET mine) \ {{} : o \in mine} :
             obj' = [o \in Objects |-> IF o \in gone THEN Absent ELSE obj[o]]
        /\ work' = [at |-> IF left = {} THEN "release" ELSE "report", self |-> work.self, again |-> left # {},
                    status |-> Status!FromTeardown(work.self.status, Phases, result, "none")]
  /\ UNCHANGED <<slices, mapped, cos, cache, queued, age, deployment, quiet, budget>>

-----------------------------------------------------------------------------
(* The status update and the end of a reconcile.                           *)

\* Whoever is behind the API server loses.
Conflicts == cos # work.self

Accepted == Status!Admitted(cos.status, work.status)

\* How long ago phases of s that are not complete in t were found complete.
Further(s, t) == {s.phases[k].completedAt : k \in StampedPhases(s) \ StampedPhases(t)}

\* An unchanged status is not sent.  A refused one is an error, which runs
\* the reconcile again, as does a teardown that is not finished.
UpdateStatus ==
  /\ work.at \in {"report", "release"}
  /\ LET sent == work.status # work.self.status
         ok   == ~sent \/ (~Conflicts /\ Accepted)
         next == [cos EXCEPT !.status = work.status]
     IN /\ cos' = IF sent /\ ok THEN next ELSE cos
        /\ quiet' = IF ~(sent /\ ok) THEN quiet
                    ELSE IF Further(cos.status, work.status) # {} THEN Progress!Promised
                    ELSE Min({quiet} \cup Further(work.status, cos.status))
        /\ IF ok /\ work.at = "release"
           THEN work' = [at |-> "free", self |-> [work.self EXCEPT !.status = work.status]]
                /\ UNCHANGED queued
           ELSE work' = Idle /\ queued' = (queued \/ ~ok \/ work.again)
  /\ UNCHANGED <<world, cache, age, deployment, budget>>

UpdateFails ==
  /\ work.at \in {"report", "release"} /\ Spend("fault")
  /\ work' = Idle /\ queued' = TRUE
  /\ UNCHANGED <<world, cos, cache, age, deployment, quiet>>

\* The finalizer is removed, unless the copy is behind.
Release ==
  /\ work.at = "free"
  /\ work' = Idle
  /\ IF Conflicts THEN queued' = TRUE /\ UNCHANGED cos
     ELSE cos' = [cos EXCEPT !.finalizer = FALSE] /\ UNCHANGED queued
  /\ UNCHANGED <<world, cache, age, deployment, quiet, budget>>

-----------------------------------------------------------------------------
(* The deployment controller, as far as it reports on this revision.       *)

Stamps(status) == {status.phases[k].completedAt : k \in StampedPhases(status)}

Evaluation(c) ==
  Progress!EvaluateDeadline(~c.archived, c.status.completedAt # Never, age, Stamps(c.status))

\* updateStatus.  An error later in the reconcile has the status written all
\* the same, but the time to look again is dropped for an immediate retry.
ReconcileDeployment(fails) ==
  /\ summoned
  /\ IF fails THEN Spend("fault") ELSE UNCHANGED budget
  /\ cod' = [says |-> Evaluation(cache).says,
             counts |-> IF cache.archived THEN None ELSE cache.status.counts]
  /\ alarm' = IF fails THEN 0 ELSE Evaluation(cache).requeueAfter
  /\ summoned' = fails
  /\ UNCHANGED <<world, cos, cache, queued, work, age, quiet>>

\* Everything gets older, and the alarm comes closer.
Older(t) == IF t = Never THEN Never ELSE Min({t + 1, Progress!Promised})

OlderPhase(p) == [p EXCEPT !.completedAt = Older(@)]

OlderStatus(s) ==
  [s EXCEPT !.completedAt = Older(@),
            !.phases = [k \in DOMAIN s.phases |-> OlderPhase(s.phases[k])]]

OlderWork ==
  IF work = Idle THEN Idle
  ELSE LET w == [work EXCEPT !.self.status = OlderStatus(@)]
       IN IF work.at \in {"report", "release"} THEN [w EXCEPT !.status = OlderStatus(@)] ELSE w

Tick ==
  /\ age' = Older(age) /\ quiet' = Older(quiet)
  /\ cos' = [cos EXCEPT !.status = OlderStatus(@)]
  /\ cache' = [cache EXCEPT !.status = OlderStatus(@)]
  /\ work' = OlderWork
  /\ alarm' = IF alarm > 0 THEN alarm - 1 ELSE 0
  /\ summoned' = (summoned \/ alarm = 1)
  /\ UNCHANGED <<world, queued, cod, budget>>

-----------------------------------------------------------------------------
(* The informers: both controllers hear of a revision, the COS controller  *)
(* of a slice that the cached revision refers to.                          *)

DeliverCOS ==
  /\ cache # cos
  /\ cache' = cos /\ queued' = TRUE /\ summoned' = TRUE
  /\ UNCHANGED <<world, cos, work, age, cod, alarm, quiet, budget>>

Mapped(s) == IF slices[s] = Gone THEN Gone ELSE Resolver!Transform(slices[s])

DeliverSlice(s) ==
  /\ mapped[s] # Mapped(s)
  /\ mapped' = [mapped EXCEPT ![s] = Mapped(s)]
  /\ queued' = (queued \/ \E o \in Objects : SliceOf[o] = s)
  /\ UNCHANGED <<slices, obj, cos, cache, work, age, deployment, quiet, budget>>

-----------------------------------------------------------------------------
(* Everybody else.                                                         *)

\* A slice cannot be changed, but deleted, created, and deleted and created
\* again before anybody has noticed.
ReplaceSlice(s) ==
  /\ Spend("slice")
  /\ \E v \in (Versions \cup {Gone}) \ {slices[s]} : slices' = [slices EXCEPT ![s] = v]
  /\ UNCHANGED <<mapped, obj, cos, cache, queued, work, age, deployment, quiet>>

\* Something changes an object, which wakes the revision that holds it.
Change(o, x) ==
  /\ obj' = [obj EXCEPT ![o] = x]
  /\ queued' = (queued \/ "ours" \in {obj[o].holder, x.holder})
  /\ UNCHANGED <<slices, mapped, cos, cache, work, age, deployment, quiet>>

OpenGate(o) ==
  /\ o \in Gates /\ obj[o].holder = "ours" /\ ~obj[o].ready
  /\ Change(o, [obj[o] EXCEPT !.ready = TRUE]) /\ UNCHANGED budget

Drift(o) ==
  /\ obj[o].holder = "ours" /\ Spend("drift")
  /\ \E x \in {Absent, [obj[o] EXCEPT !.content = Other]} \cup
              {[obj[o] EXCEPT !.ready = FALSE] : p \in {o} \cap Gates} :
       x # obj[o] /\ Change(o, x)

\* A newer revision adopts the object, or somebody else has created it.
Take(o) ==
  /\ obj[o].holder \in {"ours", "nobody"} /\ Spend("taken")
  /\ Change(o, [obj[o] EXCEPT !.holder = IF @ = "ours" THEN "newer" ELSE "foreign",
                              !.ready = TRUE])

Archive ==
  /\ ~cos.archived /\ Spend("archive")
  /\ cos' = [cos EXCEPT !.archived = TRUE]
  /\ UNCHANGED <<world, cache, queued, work, age, deployment, quiet>>

Restart ==
  /\ Spend("fault")
  /\ work' = Idle /\ cache' = cos /\ mapped' = [s \in Slices |-> Mapped(s)]
  /\ queued' = TRUE /\ summoned' = TRUE /\ alarm' = 0
  /\ UNCHANGED <<slices, obj, cos, age, cod, quiet>>

-----------------------------------------------------------------------------
\* A revision just created, with its finalizer, and its slices in place.
Init ==
  /\ slices \in [Slices -> Versions]
  /\ mapped = [s \in Slices |-> Gone]
  /\ obj = [o \in Objects |-> Absent]
  /\ cos = [archived |-> FALSE, finalizer |-> TRUE, status |-> Status!NewStatus]
  /\ cache = cos /\ queued = TRUE /\ work = Idle
  /\ age = 0 /\ quiet = 0
  /\ cod = [says |-> "None", counts |-> None] /\ alarm = 0 /\ summoned = TRUE
  /\ budget \in Budgets

Work ==
  \/ Begin \/ Resolve \/ ReconcilePhases \/ TeardownPhases \/ UpdateStatus \/ Release

Mishap ==
  \/ EngineFails \/ WriteFails \/ LookFails \/ PhaseRefused \/ PreflightRefuses
  \/ UpdateFails \/ Restart

Next ==
  \/ Work \/ Mishap
  \/ \E fails \in BOOLEAN : ReconcileDeployment(fails)
  \/ Tick \/ DeliverCOS \/ \E s \in Slices : DeliverSlice(s)
  \/ \E s \in Slices : ReplaceSlice(s)
  \/ \E o \in Objects : OpenGate(o) \/ Drift(o) \/ Take(o)
  \/ Archive

\* Both queues are served, events arrive, and time passes.  The first line
\* after Next says what WF_vars(Work) does, without the ENABLED that TLC would
\* have to evaluate: a reconcile that has begun ends, and one that is queued
\* begins.
Spec ==
  /\ Init /\ [][Next]_vars
  /\ []<>(work = Idle) /\ []<>(work # Idle \/ ~queued)
  /\ WF_vars(ReconcileDeployment(FALSE))
  /\ WF_vars(DeliverCOS) /\ \A s \in Slices : WF_vars(DeliverSlice(s))
  /\ WF_vars(Tick)

-----------------------------------------------------------------------------
(* Properties.                                                             *)

Ages  == 0 .. Progress!Promised
Times == Ages \cup {Never}

IsCounts(c) == DOMAIN c = Status!Fields /\ \A f \in Status!Fields : c[f] \in Nat

IsStatus(s) ==
  /\ s.hash = None \/ (DOMAIN s.hash = Objects /\ \A o \in Objects : s.hash[o] \in Data)
  /\ s.completedAt \in Times
  /\ s.counts = None \/ IsCounts(s.counts)
  /\ s.phases = << >> \/ DOMAIN s.phases = DOMAIN Phases
  /\ \A k \in DOMAIN s.phases :
       IsCounts(s.phases[k].counts) /\ s.phases[k].completedAt \in Times

IsCopy(c) == c.archived \in BOOLEAN /\ c.finalizer \in BOOLEAN /\ IsStatus(c.status)

\* Everything has its type; what is stored has one phase for each of the
\* spec or none, and a hash for every object or none.
TypeOK ==
  /\ IsCopy(cos) /\ IsCopy(cache)
  /\ obj \in [Objects -> [holder : {"nobody", "ours", "newer", "foreign"},
                          content : Data \cup {Other}, ready : BOOLEAN]]
  /\ age \in Ages /\ quiet \in Ages /\ alarm \in Ages
  /\ work.at \in {"idle", "resolve", "engine", "teardown", "report", "release", "free"}
  /\ work # Idle => IsCopy(work.self)
  /\ work.at \in {"report", "release"} => IsStatus(work.status)
  /\ work.at = "resolve" => Len(work.got) < Cardinality(Objects)

\* The API server never refuses a status for what it says: what is kept once
\* set is kept, counts are sums, phases and counts are there or not together,
\* and messages fit.  A refused status would be refused again for ever, with
\* the hash and the completion it carries.
StatusAdmitted ==
  work.at \in {"report", "release"} /\ ~Conflicts => Accepted

\* types_clusterobjectset.go:306 of the messages of an object: "Each message is
\* at most 1024 characters; longer messages are truncated by the controller."
MessagesFit ==
  work.at = "report" =>
    \A k \in DOMAIN work.status.phases :
      LET details == work.status.phases[k].details
      IN \A o \in DOMAIN details : \A n \in details[o] : n <= MaxMessage

\* Once a reconcile reads a revision with its hash, it writes only what the
\* hash stands for, whatever the slices hold by then.
PinnedContent ==
  [][work.at = "engine" /\ work'.at = "report" /\ work.self.status.hash # None =>
       \A o \in Objects : obj'[o] # obj[o] => obj'[o].content = cos.status.hash[o]]_vars

\* The counts that fit the objects of phase k as they are: a phase that is
\* complete counts as synced, whoever has its objects.
Due(k, objects, want) ==
  LET fit    == {o \in Phases[k] : Fits(objects[o], want[o])}
      inSync == {o \in Phases[k] : objects[o].holder = "ours" /\ objects[o].content = want[o]}
  IN Status!Counts(Cardinality(Phases[k]),
                   Cardinality({o \in Phases[k] : objects[o].holder # "nobody"}),
                   Cardinality(IF fit = Phases[k] THEN fit ELSE inSync),
                   Cardinality(fit))

\* The counts of every pass never say more of a phase than what the pass left
\* in the cluster, also where a write failed, a read-only look broke off
\* without an error (engine.go:188) or validation refused a phase
\* (status.go:215).  They say all of it when nothing failed, and of the phases
\* that a failed pass had got past.  Only after a failure is a phase not counted
\* at all.  What a newer revision has is available but, as long as the phase
\* is not complete, not synced: available may exceed synced, against
\* types_clusterobjectset.go:264-266.
CountsTruthful ==
  [][work.at = "engine" /\ work'.at = "report"
       /\ work'.status.reason \in {"Available", "Unavailable", "ReconcileError"} =>
       \A k \in 1 .. Last :
         LET said == work'.status.phases[k]
             due  == Due(k, obj', work.got)
         IN IF said.status \in {"Unknown", "Invalid"}
            THEN said.counts = Status!Counts(due.total, 0, 0, 0) /\ budget' # budget
            ELSE /\ \A f \in Status!Fields : said.counts[f] <= due[f]
                 /\ said.counts # due =>
                      /\ budget' # budget
                      /\ \A j \in k + 1 .. Last : work'.status.phases[j].status = "Unknown"]_vars

\* The deadline is not reported before its time: since the revision was
\* created and since each phase was first complete, as far as the informer and
\* the status tell, the promised minutes have passed.
DeadlineKept ==
  [][cod.says # "DeadlineExceeded" /\ cod'.says = "DeadlineExceeded" =>
       quiet >= Progress!Promised \/ cache # cos]_vars

\* A revision that never completes is reported in the end, although no event
\* tells of the deadline and whatever became of the calls before.
DeadlineNoticed ==
  <>[](cos.status.completedAt = Never /\ ~cos.archived) => <>[](cod.says = "DeadlineExceeded")

\* What the spec refers to at the moment, according to the API server.
Current ==
  [o \in Objects |-> Resolver!ResolveObject(SliceOf[o], o, Manifest[o], [s \in Slices |-> Mapped(s)])]

\* Content that is not the pinned one, or none, is reported in the end.
SubstitutionDetected ==
  <>[](~cos.archived /\ cos.status.hash # None /\ Current # cos.status.hash) =>
    <>[](cos.status.reason = "InvalidRevision")

\* An archived revision is torn down and let go although its slices are gone
\* or changed: it does not stay for ever.
TornDownWithoutSlices == <>[](cos.archived => ~cos.finalizer)
=============================================================================
