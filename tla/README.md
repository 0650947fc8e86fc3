# Verification of orb-operator

TLA+ models of the operator's two controllers, the TLC runs that check them on
small instances, and TLAPS proofs for every instance. Paths are relative to
`src/`.

## The system

The operator keeps *revisions* of sets of cluster objects. A
`ClusterObjectDeployment` (COD) holds a template; each new template is stamped
as a `ClusterObjectSet` (COS), a numbered and immutable revision whose objects
are ordered in phases. Revisions with the same `spec.group` form a chain. A
revision is active, archived, or being deleted.

| Part | State it keeps | Operations | Module |
|---|---|---|---|
| COD controller, `internal/controller/cod` | the group's COSs and the COD's status at the API server; one work queue item; a listing per reconcile | adopt orphans, create and claim a revision, repair field ownership, archive superseded revisions, prune archived ones, update the status | `CODController`, `RevisionGroup` |
| COD status, `internal/status/cod` | none | availability, active revisions, Progressing, deadline and requeue | `CODController`, `ProgressDeadline` |
| Template stamping, `internal/template` | none | hash, build a COS | `RevisionGroup` (a template is its hash), `FieldOwnership` (field by field) |
| COS controller, `internal/controller/cos` | finalizers and status of COSs, cluster objects, up to four workers | ensure finalizer, resolve, reconcile phases, tear down, update the status, release | `COSController`, `RevisionRollout` |
| Phase engine, `internal/revision` | none beyond one reconcile | gated, drift and read-only pass; reverse teardown; siblings | `COSController` (object by object), `RevisionRollout` (with its results) |
| COS status, `internal/status/cos` | `completedAt` of phases and revision, the content hash | condition, observed phases, counts, details, messages | `ObservedPhases` |
| Object resolution, `internal/object` | the pinned content hash | resolve slices, verify the hash | `ObjectResolution` |
| Server-side apply helpers, `internal/cosutil` | `managedFields` of a COS | extract, mutate, apply; remove a finalizer, wait for the cache | `FieldOwnership`, both controllers |
| API types, their apply configurations, admission policies: `api`, `applyconfigurations`, `deploy/lib` | none | what the API server refuses; which fields have a manager of their own | guards of the API server's operators in every module |
| Assertions, `internal/assertions` | none | predicates over one object | `ProbeForAssertions` in `GatedRollout`; elsewhere a gate, open or closed |
| Process, `cmd/operator` | none | start | what `Crash` and `Restart` lead to |
| Example, `examples/gated-rollout` | a dialog's step, its last view of the cluster, commands and messages under way | perform a step, wait for its effect, refresh, clean up | `GatedRollout` |

The parts meet only in the API server. The COD controller writes
`lifecycleState` and reads a COS's status; the COS controller does the reverse.
Both read through informers that lag behind what they write, run whenever an
event or an error queues them, and keep what they have read to the end of a
reconcile. Users, the garbage collector and other clients write to the same
objects, calls fail, and the operator restarts anywhere.

What is hard here, and what makes each part correct:

* *Acting on an old listing.* A revision must not be stamped twice, archived for
  a successor that was never rolled out, pruned below the history limit, or
  brought back by a server-side apply, which creates what it does not find.
* *Stopping half way.* A revision created but not claimed, predecessors half
  archived, objects written but not reported, a finalizer removed but still
  cached: the next reconcile must finish each of them.
* *Several revisions on one object.* Ownership may only move to newer
  revisions, and a teardown may only delete what nobody newer has in place.
* *Protection.* No object is written before the finalizer is stored, and none is
  left when it goes, unless the user asked for orphans.
* *Order.* Phases are written in order, also when an earlier one regresses, and
  torn down in reverse.
* *One content.* What a revision writes comes from the content its hash pins,
  whatever happens to the slices; a teardown does not need them.
* *Accepted reports.* A status is refused as a whole if it takes back what is
  kept once set, its counts do not add up or a message is too long; everything
  else hangs on it.
* *Time.* Nothing but a requeue computed from the last milestone tells of a
  deadline.
* *Shared fields.* Two controllers and users apply to one object; an apply made
  from an old copy removes what a newer one had set.
* *Waking up.* Something must queue a revision or a deployment whenever there is
  something to do for it.

`PROJECT.json` lists every hazard at its line with the properties about it.

## Modules

`RevisionGroup` has no state: a group as a function from revision numbers to
COSs, and the decisions a COD reconcile takes from one (`NeedsRevision`,
`Superseded`, `Prunable`, `NextRevision`). The same operators apply to the API
server's group, the cache and a listing.

`CODController` is one deployment's reconcile loop. `Start` reads the cache once
into `snap` and `codSnap`; then each API call of `reconcile` is an action:
`Adopt`, `CreateRevision`, `ClaimRevision`, `EnsureFieldOwnership`,
`ArchiveSuperseded`, `PruneArchived` (one turn of the loop each, `todo` holding
the rest) and `UpdateStatus`. `Put` writes to the API server and appends an
event to `stream`; `DeliverCOS` moves the cache along. `Fail` ends any call with
an error and `Crash` restarts with a fresh list. The COS controller appears as
`RollOut`, `Degrade` and `Finalize`; users edit, archive and delete. `used`,
`succeeded` and `superseded` are history.

`RevisionHistory` is the promise behind it: numbers rise, a revision is
superseded only for a higher active one that was rolled out, archived ones stay
archived, and only those beyond the limit are dropped. `ImplementsHistory` maps
a group to lives of its numbers.

`COSController` is the worker of each revision of a group over shared objects.
`Begin` reads the revision and its active siblings from the cache; `Opening` is
the branching of `reconcile`, `reconcileActive` and `teardown` up to the first
call. `EnsureFinalizer`, `ReconcileObject` and `TeardownObject` (one object
each), `UpdateStatus`, `Release` and `AwaitRemoval` follow the code's calls;
`NextPhase` is the engine's three passes with `splitPhases`, `PrevPhase` the
teardown, `NewStatus` the functions of `internal/status/cos`. `BeginFails`,
`WriteFails`, `DeletionFails`, `Fail` and `Crash` are what goes wrong. Around
it: creation, archiving and deletion of revisions, the garbage collector's
handling of orphans, and objects that drift, vanish or belong to somebody else.
`met` is history: which objects were ever complete for which revision.

`ObjectOwnership` is the promise behind it: an object has at most one owner,
which is protected while it has any object; ownership moves only to newer
revisions; only a leaving revision drops or frees its objects, and it is let go
when it has none. `ImplementsOwnership` maps owner references and finalizers.

`RevisionRollout` follows one revision with a slice from creation to release, with
everything that passes between the controllers about it. It composes three
modules of operators: `ObjectResolution` (slices, what the informer's transform
makes of them, lookup, the hash and its verification), `ObservedPhases`
(`FromReconcile`, `FromTeardown`, `Apply` and the functions under them, and what the
API server admits as a status) and `ProgressDeadline` (`EvaluateDeadline` in
`Width` bits). `Begin`, `Resolve` (one object each), `ReconcilePhases` (a pass of
the engine with its results), `TeardownPhases`, `UpdateStatus` and `Release` are
the worker. A pass may also end at a failed write (`WriteFails`), at a failed
read-only look whose error is dropped (`LookFails`, `engine.go:188`), have one phase
refused by validation (`PhaseRefused`, `status.go:215`), or be refused as a whole
(`PreflightRefuses`). `ReconcileDeployment` evaluates the deadline and sets `alarm`, which
`Tick` rings. `DeliverSlice` maps a slice's event to the revision, `ReplaceSlice`
deletes and creates one. Time is ages that stop growing beyond the deadline.

`FieldOwnership` follows one revision's fields and `managedFields`. `Applied` and
`Updated` are the API server's merge; `Extract`, `Configure` and the builders make
the configurations; the deployment's reconcile goes through `AdoptOrphans`,
`CreateRevision`, `ClaimRevision`, `EnsureFieldOwnership` and `ArchiveSuperseded` with
the copy it listed, the revision's controller adds and removes the finalizer,
and a user edits any field or deletes the object.

`GatedRollout` is the example program: `Enter`, `HandleStepDone`, `HandleRefresh` and
`HandleTick` are the cases of `Update`; commands run concurrently (`Perform`,
`ReadCluster`) and their messages lie in bags until they are handled; `Cleanup` is
the start of another run. The operator is `Stamp`, `Reconcile` and
`CollectGarbage`, seen from outside.

`RevisionGroupProofs`, `CODControllerProofs`, `CODHistoryProofs`,
`COSControllerProofs`, `RevisionRolloutProofs`, `GatedRolloutProofs` and
`FieldOwnershipProofs` hold the theorems, `LeastElement` a lemma about `Min`; the
modules that begin with `MC` are the instances for TLC. Definitions marked
*Variant* change one definition the way a plausible mistake would; nothing uses
them in the specifications.

### Abstractions

* A COS is reduced to what the controllers read. In `CODController` its status is
  one of Progressing, Available, Degraded; a COD is a generation, a template
  hash and a status.
* An informer's copy is some earlier snapshot of the whole group, because all
  COSs arrive on one watch. A restart begins with a current list.
* Optimistic locking compares the object with the copy instead of resource
  versions: a write that the API server would refuse because the object changed
  and changed back is accepted, which only adds behaviours.
* Boxcutter and the API server are external. Comparing and writing one object
  is one step; its own object cache is taken to be current, and its events reach
  the queue at once. A held object is *complete* when it is in sync, or a newer
  sibling has it, and its assertions hold; the read-only pass judges the same
  way without writing. Preflight accepts the phases: no object is in two of them.
* In `COSController` the revisions of a group have one controller owner (or
  none), so the filter by owner passes all of them.
* In `RevisionRollout` one revision has its objects to itself, except that
  something newer or foreign may take one; a pass of the engine over a phase is
  one step. A content is a value; compressing, marshalling and hashing keep
  values apart. A message is its length.
* In `FieldOwnership` the immutable spec fields are one field, since every
  configuration lists all or none of them; the entry of the status subresource
  is left out, as neither controller applies it. `superseded` stands for a newer
  revision that is available, and is set when the controller stamps one.
* In `GatedRollout` nobody but the dialog opens a gate, and nobody closes one.
* Deletion of a revision by the garbage collector for want of its deployment,
  collision protection `None` and overrides per phase or object are left out.

## Runs

Model values and bounds: `Budget` says how often each kind of disturbance may
happen (`any`: in all; `Budgets` of `RevisionRollout` is a set of such bounds, one of
which a behaviour has), `MaxLag` how many writes an informer may
be behind; a writer waits when it is at the bound, which delays and never drops
an event. `MaxRevision` exceeds what the template edits of a liveness or
violation run can stamp (one, plus one per edit and per revision a user touches),
so that it never blocks there. Deadlock is not checked anywhere: a settled
operator without budget has nothing to do.

| Run | Instance | Shows |
|---|---|---|
| `cod_safety` | 3 revisions, 2 edits, 1 failure or crash, lag 2 | `NoGap`, `FreshTemplate`, `PruneRetains`, `RolloutStaysAvailable`, refinement of `RevisionHistory` |
| `cod_users` | 3 revisions, users archive or delete; groups that begin with an orphan or a foreign revision | `TypeOK`, `SupersededBySuccess` |
| `cod_liveness` | an edit, a degraded revision, a failure or crash; history limit 0 | `StatusConverges`, `TemplateStamped`, `NewestSupersedes` |
| `cos_phases` | one revision, three phases, the first with an assertion; any three of drift, removal, foreign object, user, failure | `TypeOK`, `NoLeak`, `EarnedCompletion`, `PhaseOrder`, `TeardownReverse`, `TeardownIsMeant` |
| `cos_handover` | two revisions with two objects in opposite phase order; a user or a failure at any moment | `PhaseOrder`, `SharedKept`, refinement of `ObjectOwnership` |
| `cos_live` | two revisions, one shared object with an assertion and one not shared; a drifted object, a closed assertion or a failure | `RolloutCompletes`, `RetiredIsReleased` |
| `rollout` | one revision, two phases, two of three objects in a slice with three contents; deadline of two ticks in 4 bits; either any one of: drift, a taken object, a failed call, look or validation, a restart; or archiving and, before or after it, a slice deleted or replaced | `TypeOK`, `StatusAdmitted`, `PinnedContent`, `CountsTruthful`, `DeadlineKept`, `DeadlineNoticed`, `SubstitutionDetected`, `TornDownWithoutSlices` |
| `fields` | one revision, lag 3, any two of: failure, restart, newer revision, orphan, removed owner or label, changed label, annotation, archiving, deletion | `TypeOK`, `AppliesAdmitted`, `FinalizerKept`, `OwnershipSettles` |
| `gated` | all thirteen steps, one refresh chain beyond those of finished steps; one of: failed refresh, failed action, lost answer, another run | `TypeOK`, `StepsPerformed`, `ActionsApply`, `DoneMeansRolledOut`, `DialogCompletes` |
| `cod_stuck`, `cos_gap`, `status_refused` | smallest instances | the disagreements below |

Why the bounds are enough: two COSs and one behind them (to be superseded, to
supersede, to be pruned) are all that `archiveSuperseded` and `pruneArchived`
distinguish, and two writes of lag let a whole create-and-claim go unseen. In
the COS model three phases are what `splitPhases` tells apart (gated, drift,
read-only), two revisions are what a handover needs, and a third disturbance
adds interleavings of the first two only. Removal of objects by third parties is
left out of `cos_handover`, since an older active revision may recreate a removed
shared object first, and then loses it again when it is archived; and of
`cos_live`, since a removed shared object that an archived predecessor recreates
meets disagreement 2. In `cos_live` the assertion is on the shared object, so that
both the wait for it and disagreement 16 happen.

In `rollout` the first phase has an inline object with an assertion and the
second two objects of one slice, so that a slice replaced between their
resolutions is seen half old, half new, and one that is gone or replaced when the
revision is archived is not looked for by the teardown. There are two kinds of
behaviours because disturbances multiply: what a replaced slice does to a
revision that drifts shows nothing that either does not show alone. A deadline of two ticks is the shortest
that a milestone can move; `Width` lets the product fit, since a wrapped one is a
disagreement of its own. In `fields` two disturbances reach the case that matters,
an orphan that is adopted and archived in the same reconcile, and a lag of three
holds a whole reconcile's applies. In `gated` a further disturbance would only
repeat what one does: every chain of refreshes goes on for ever.

### Fairness

`CODController`: weak fairness of the reconcile (the work queue runs what is
queued, retries after errors), and of the two deliveries (watches are
re-established until they deliver). `COSController`: the same for each
revision's worker, since there are at least as many workers as revisions in the
instances and the queue is fair; plus what Kubernetes does in the end, the
removal of deleted objects and the garbage collector's work on orphans. Nothing
is assumed of users, of assertions, or of the deployment controller. Failures
and restarts are unfair and bounded. The informers' full resync every ten hours
is left out: properties are about what events achieve.

`RevisionRollout`: the worker runs as long as it has something to do (its weak
fairness is written out as what it does, a reconcile that has begun ends and one that
is queued begins, since TLC cannot evaluate its ENABLED cheaply), the deployment is reconciled without error in the
end, events arrive, and time passes. Failures, restarts and users are not fair.
`FieldOwnership`: both reconciles and the watch. `GatedRollout`: commands end,
messages are handled and the operator works; a user who is asked presses Enter.

### Disagreements with the documentation

Shown by runs:

1. `cod_stuck`: `archiveSuperseded` takes the last owned revision as the latest
   even if it is archived, so that after a rollback by archiving the newest one,
   an available active revision never supersedes the older active ones.
2. `cos_gap`: archived revisions are no siblings and only the controller owner
   is woken. A successor that meets an object of a just archived predecessor
   reports a collision; when the teardown deletes it, nobody tells the
   successor, and the object stays away until a resync or restart. The same
   holds for a collision with a foreign object that is then deleted, which
   `docs/troubleshooting.md` recommends.
3. `status_refused`: what the read-only pass finds different is listed without
   truncation; the API server refuses the status with it, again and again.

Met while modelling, and not given a run:

4. `archiveSuperseded` also does not ask whether the newest revision is active, so
   that a user who archives an available newest revision can lose every older
   active one (against `docs/concepts/revision-management.md:33`).
5. A reconcile that creates a revision writes `activeRevisions` without it, which
   `api/v1alpha1/types_clusterobjectdeployment.go:111` says is included.
6. An internal error clears each phase's `completedAt`, which
   `api/v1alpha1/types_clusterobjectset.go:219` calls "Set once and never cleared";
   milestones are taken back, and the deadline may be reported early.
7. `progressDeadlineMinutes` has no upper bound and is multiplied in 64 bits of
   nanoseconds: 2147483647 minutes wrap, and the deadline is exceeded at once.
8. Until its hash is stored and cached, a revision may write the content of a
   slice that was replaced in between (`docs/concepts/cluster-object-slice.md:56`).
9. `available` may exceed `synced`: an object that a newer revision has is complete
   and counts as available, but not as synced, as long as its phase is not
   complete. `types_clusterobjectset.go:264-266` defines available as "synced and pass
   their assertions", and `specs/closed/2026-07-12-cos-three-pass-reconcile/README.md:51`
   says "The invariant `total >= synced >= available` holds per-phase".
   `CountsTruthful` says what the code does, not this. The `present` count of a phase
   that was not reached counts anybody's objects.
10. The schema admits two phases of the same name; `observedPhases` is a list with
    the name as its key, so that no status of such a revision is accepted.
11. A COD's name may begin with a digit or contain dots (`deploy/lib/api.libsonnet`
    bounds its length only), but a COS's group may not: such a deployment never
    gets a revision.
12. `types_clusterobjectdeployment.go` gives a default history limit of 10; the
    constant `defaultRevisionHistoryLimit` is 5.
13. An assertion whose CEL expression does not compile is admitted; its object's
    probe is false for ever (`internal/revision/builder.go:39`).
14. In the example: after a failed refresh Enter repeats a step that is still
    running; a create whose answer is lost fails for ever after; the waits for a
    phase after the upgrade do not look at the revision.
15. An orphan that is adopted and archived in the same reconcile loses its owner
    again, since the second apply is made from the listing that preceded the
    first; it is adopted again later (`OwnershipSettles`).
16. When an assertion about an object that a newer revision holds comes to hold, only
    the newer one is woken: the status of an older active one keeps what it said
    before, Unavailable with the counts of then, until something else happens to it
    (`RolloutCompletes` excepts it as `Overlooked`).
17. An error of the read-only pass is dropped (`internal/revision/engine.go:188`):
    later phases are reported as not evaluated, with nothing present, and as the
    reconcile succeeds, no retry corrects it; the next event does.
18. A phase that its own validation refuses is reported Invalid without an error
    either, so that a refusal that was temporary is not retried before an event.

## Proofs

Each theorem holds for every value of the constants that satisfies the named
assumptions of its module: `GroupAssumption` and `ControllerAssumption` (bounds are
naturals, initial groups are well formed, at least one unit of lag),
`COSAssumption` and `RolloutAssumption` (a revision has phases, none is empty, as
`api/v1alpha1/types.go:111` demands, and no object is in two of them; the latter
with those of the three modules it composes: names differ, bounds are naturals),
`GatedAssumption` and `FieldAssumption` (bounds are naturals). Where a theorem has a
hypothesis of its own, it is named below.

**The deployment controller** (`CODControllerProofs`, on lemmas of
`RevisionGroupProofs` about the group's decisions: the next number is above every
listed one, superseded revisions are listed and below an available one, storing,
updating and removing keep a group a group).

* `TypeCorrect`: `Spec => []TypeOK`. `TypeOK` is not inductive alone: the loops need
  that what is still to do was picked from this reconcile's listing, and the
  listing's template must be known where it is used. `TypeInv` adds that, in
  three parts (API server, step, rest), and `NextTyped` has a step per action.
* `SupersedingNeedsSuccess`: `Spec => []SupersededBySuccess`, whatever users do. The
  listing is the problem: it may be old. The invariant `SuccessInv` says that
  every group still on its way (API server, stream, cache, listing) shows as
  available only revisions in `succeeded`, and that the work of a running archive
  loop lies below one such revision; `succeeded` never shrinks, so age does no
  harm.

**The history of a deployment** (`CODHistoryProofs`). `HistoryInvariant` is about all
the listings that the controller may still act on: the informer's copy, what the
watch has yet to deliver, and the listing of the running reconcile. `Listings` says
that each is an earlier state of the group and, what makes a stale one harmless,
at most one revision behind: the number after its highest one is at least every
number given out, what is inactive by now is below its highest one, and what is
gone by now was archived in it already. `Work` keeps what the loops have still to
do within the decisions taken from that listing, `Succession` says that at or above
whatever was rolled out there is an active revision that was, `Retention` that above
whatever is gone the history limit is kept, and `Serving` that a deployment which
reports availability is up in every listing. None of them is inductive without
`Listings`, and `Listings` not without the others: an old listing stays good only
because what it makes the controller do is bounded. From it: `NoGapOpens`,
`StampedFresh`, `PruningRetains` and `AvailabilityKept`.
The hypothesis `OrderlyStart` is on the groups a run begins with: an operator that is
started finds an active revision at or above every other, and an available one at
or above every one whose rollout ended. A deployment without revisions begins so
(`FreshIsOrderly`), and a restart within a run is `Crash`, which the invariant outlasts.
As in the properties, everything holds until a user archives or deletes a
revision (`Untouched("touch")`): after that, disagreements 1 and 4 are what happens.
`HistoryImplemented`: `Spec => ImplementsHistory`, for a deployment that begins without
revisions and whose users leave them alone for good (`HandsOff`), since a
refinement is about whole behaviours.

**The revision controller** (`COSControllerProofs`).

* `TypeCorrect` again needs more than `TypeOK`: statuses name only phases that the
  revision has, and what a worker in a phase has still to do belongs to it.
* `NothingLeaks`, `OnlyMeantTeardown` and `TornDownInReverse` follow from
  `SafeInv == LagInv /\ HeldInv /\ NoLeak /\ WorkerInv`. A worker decides from a copy
  that the cluster may have left behind, so `LagInv` says what age cannot change,
  for the API server's group, the stream and the cache: a revision seen retired is
  never seen active in a later one of them, one seen to be
  torn down is to be torn down, and one seen active with its finalizer still has
  it, because only its own worker takes it off, and only once nobody sees the
  revision active. `HeldInv` says that a revision holds objects of its own phases
  only, and `WorkerInv` what each label of a worker has established: one that
  writes objects has its finalizer stored, one that tears down acts for a revision
  that is to go and has cleared every phase above its own, one that releases
  holds nothing or leaves orphans. Without `LagInv` a worker that begins from an old
  copy could write objects of a revision that was released in between.
* `CompletionIsEarned` follows from `EarnInv == MetInv /\ ViewsEarned /\ WorkerEarned`:
  every version of a status that is still on its way claims only what is in `met`,
  and what a worker has gathered so far in its pass is in `met` as well. `met` only
  grows, so neither a stale status that is carried over nor a late write matters.
* `PhasesInOrder` follows from `OrderInv`: of a revision that no newer one has
  followed, an object is in place, or ever was complete, only if every earlier
  phase has been complete, and a worker that writes a phase has all earlier ones
  behind it. The drift pass needs the first half: that a phase was completed
  before says nothing of the earlier ones by itself, but its objects were in place
  once. It fails for an older revision, whose phase may be complete because its
  successor has the objects; `PhaseOrder` therefore speaks of the newest one.
* `OwnershipImplemented`: `Spec => ImplementsOwnership`. `SafeInv` gives what the
  abstract guards ask for; `NextOwns` has a step per action and shows that it moves
  one object's owner (`OwnerMoves`) or one revision's stage (`StageMoves`) as
  `ObjectOwnership` allows, or neither.

**The rollout of a revision** (`RevisionRolloutProofs`). The invariant is
`IInv == Typed /\ WorkSound(work) /\ Pins /\ QuietEnough(quiet, age, cos.status)`.

* `TypeCorrect`: whatever the engine returned, a status has one observation for each
  phase of the spec or none, because `FromReconcile`, `FromTeardown` and the merge
  with the old phases go by the spec's phases.
* `StatusesAdmitted`: `WorkSound` says that a status about to be stored *follows* the copy
  it was made from: completion times and the hash are kept once set, and its
  counts are the sums of its phases'. The sums are over sets of phases and
  defined by recursion; that they are numbers and depend on the counts alone is
  shown by the least set for which it would not be so, since an induction is
  out of reach. Its hypothesis `DifferencesFit` (what is listed of one object fits
  into a message) is needed: `status_refused` is what happens without it.
* `PinnedContentWritten`: a copy's hash is the API server's (`Pins`), and what a worker has
  resolved is what that hash stands for (`WorkSound`), so that a slice that is
  replaced after the resolution or between two reconciles is never written.
* `DeadlineIsKept`: `QuietEnough` bounds the time without a milestone by the age of one, or
  by the promised time. The hypothesis `NoOverflow` (the product fits into the
  clock's width) is disagreement 7.
* `CountsAreTruthful`: whatever fails or is refused in a pass, its counts of a phase never
  exceed what is *due* by the objects as the pass leaves them (`Due`). `PassesAre` lists
  the passes there are by where they end, what they miss and what is refused;
  `PassCounts` says of each phase whether it lies beyond the end, was refused, or was
  looked at, and `LookedCounts` compares the sets behind the counts. They can only fall
  short in the phase where a pass ended early, after which no phase is reported; that
  this takes a failure needs the bounds to be numbers (`PurseKept`).

**The dialog** (`GatedRolloutProofs`). The message that a step is done does not name the
step, so `TypeCorrect` and `NoStepSkipped` rest on `OneAtATime`: the bags of commands and
results hold at most one element between them, and it belongs to the current step.
It holds until the user repeats a step after a failed refresh (disagreement 14),
and the properties say so. `ActionsFindTheirObjects` and `DoneIsTrue` rest on `Knows`, as long as
no mishap has happened: what the dialog was told stays true. A report that a phase
waits for its assertions *shows* that its objects are there, one that it is available
that the next phase's are, and one that revision 2 is available that the upgrade
is rolled out, however old the report is when it arrives.

**The fields** (`FieldOwnershipProofs`). `FieldInv` says of the stored revision and of
every copy of it that each field has a manager and each manager's field is there,
that the deployment controller does not manage the finalizer and that the
immutable fields are the template's. From it: `TypeCorrect`; `FinalizerSurvives`,
because an apply only drops what its own manager listed before; and
`AppliesStayAdmitted`, because `Configure` lists again what was extracted
(`OverlaidBy` says what an apply changes, `UpdatedIs` what an update does).

Every invariant that the runs check is proved, and every action property but one.
Only model-checked:

* `SharedKept`, which holds for the two revisions of its run only. With a third,
  a newer one may take the object over and then be archived, and the object goes
  with it; the oldest, if still active, may create it again before the second
  does, and delete it in its own teardown.
* Liveness under fairness, which is out of the prover's reach: `StatusConverges`,
  `TemplateStamped`, `NewestSupersedes`, `RolloutCompletes`, `RetiredIsReleased`, `DeadlineNoticed`,
  `SubstitutionDetected`, `TornDownWithoutSlices`, `OwnershipSettles` and `DialogCompletes`.

## Plan

Done: everything above. Next, in this order:

1. `Operator`: both controllers over one API server, `RollOut`, `Degrade` and
   `Finalize` replaced by `COSController` and its `Archive` by `ArchiveSuperseded`, to
   check that no shared object is deleted and recreated in an upgrade, with three
   revisions (`SharedKept`).
2. What can be said of an older revision's phases while its successor takes them
   over: that what it writes early is complete for the successor or was.
3. `HistoryImplemented` for groups that a restarted operator finds, with an abstract
   history that may begin with them.

## Not modelled

Limits on the size of a template, the aggregated counts of a deployment, the
layout of the example's view, JSON, gzip and the hash function, CEL and the other
kinds of assertion (boxcutter's), collision protection `None` and overrides per
phase or object, metrics, flags, and the generated code that nothing calls. The
revision number's 32 bits take thousands of millions of revisions of one deployment. No leader
election is configured in `cmd/operator`, and one running operator is assumed.
