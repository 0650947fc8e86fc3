--------------------------- MODULE CODController ---------------------------
(***************************************************************************)
(* The ClusterObjectDeployment controller: one reconcile loop for one      *)
(* deployment, step by step, against an API server that other clients also *)
(* write to and through an informer cache that lags behind it.             *)
(*                                                                         *)
(* A reconcile lists the group from the cache once, keeps that listing to  *)
(* the end, and makes one API call per step.  Between two calls anything   *)
(* else may happen: the COS controller reports status, a user edits the    *)
(* template, archives or deletes a revision, the cache catches up, the     *)
(* operator crashes.                                                       *)
(***************************************************************************)
EXTENDS RevisionGroup, Sequences

CONSTANTS
  InitialGroups,  \* groups of COSs that may exist before the COD does
  MaxLag,         \* bound: API writes the informer may be behind
  Budget          \* bound: how often each disturbance may happen: an edit of
                  \* the template, a failing assertion, a revision archived
                  \* or deleted by a user, a failed call or a crash

Disturbances == {"edit", "degrade", "touch", "fault"}

ASSUME ControllerAssumption ==
  /\ \A g \in InitialGroups : IsGroup(g)
  /\ MaxLag \in Nat \ {0}
  /\ Budget \in [Disturbances -> Nat]

VARIABLES
  cos,        \* the API server's ClusterObjectSets of this group
  stream,     \* watch events the informer has not delivered yet, oldest first
  cache,      \* the informer's copy of the group
  cod,        \* the ClusterObjectDeployment at the API server
  codCache,   \* the informer's copy of it
  queued,     \* the deployment is in the controller's work queue
  pc,         \* where the reconcile is
  snap,       \* the listing the reconcile took from the cache
  codSnap,    \* the deployment the reconcile read from the cache
  todo,       \* revisions the current loop has still to write to
  budget,     \* disturbances left
  used,       \* history: revision numbers that have ever existed
  succeeded,  \* history: revision numbers that have ever been Available
  superseded  \* history: revisions archiveSuperseded has archived

api  == <<cos, stream, used, succeeded>>
step == <<pc, snap, codSnap, todo>>
vars == <<cos, stream, cache, cod, codCache, queued, pc, snap, codSnap, todo,
          budget, used, succeeded, superseded>>

Statuses == [gen : Nat, active : SUBSET Revisions,
             available : {"True", "False", "Unknown"},
             progressing : {"None", "NoActiveRevisions", "Progressed", "Progressing"}]

CODs == [gen : Nat, hash : Templates, status : Statuses]

NoStatus == [gen |-> 0, active |-> {}, available |-> "False", progressing |-> "None"]
NoCOD    == [gen |-> 0]

-----------------------------------------------------------------------------
(* updateStatus: the deployment's status, from the reconcile's own listing. *)

\* Variant: mirrors the newest of several active revisions.
EvaluateNewest(g) ==
  IF ActiveOwned(g) # {} /\ g[Max(ActiveOwned(g))].rollout = "Available"
  THEN "True" ELSE "False"

EvaluateAvailability(g) ==
  CASE Cardinality(ActiveOwned(g)) = 0 -> "False"
    [] Cardinality(ActiveOwned(g)) = 1 ->
         IF \A r \in ActiveOwned(g) : g[r].rollout = "Available" THEN "True" ELSE "False"
    [] OTHER -> "Unknown"

EvaluateProgress(g) ==
  IF ActiveOwned(g) = {} THEN "NoActiveRevisions"
  ELSE IF g[Max(ActiveOwned(g))].rollout # "Progressing" THEN "Progressed"
  ELSE "Progressing"

StatusFrom(g, gen) ==
  [gen |-> gen, active |-> ActiveOwned(g),
   available |-> EvaluateAvailability(g), progressing |-> EvaluateProgress(g)]

-----------------------------------------------------------------------------
(* The API server.  A write that changes nothing makes no event.           *)

Put(g) ==
  IF g = cos THEN UNCHANGED api
  ELSE /\ Len(stream) < MaxLag
       /\ cos' = g
       /\ stream' = Append(stream, g)
       /\ used' = used \cup DOMAIN g
       /\ succeeded' = succeeded \cup {r \in DOMAIN g : g[r].rollout = "Available"}

\* Forced server-side apply of what BuildCOS describes: it creates the object
\* when it is gone, and is refused when it would un-archive the object, change
\* its immutable spec, or add a second controller.
AcceptsDesired(g, r, h) ==
  r \in DOMAIN g => ~g[r].archived /\ g[r].owner # "other" /\ g[r].hash = h

WithDesired(g, r, h) ==
  IF r \in DOMAIN g
  THEN [g EXCEPT ![r].claimed = TRUE, ![r].owner = "cod"]
  ELSE Store(g, r, NewCOS(h, TRUE))

\* Server-side apply of lifecycleState Archived on top of the fields extracted
\* from the listed copy.  The fields are complete, so that a gone object is
\* created again, only when the listed copy was claimed.
AcceptsArchived(g, listed, r) ==
  IF r \in DOMAIN g THEN listed[r].claimed => g[r].hash = listed[r].hash
  ELSE listed[r].claimed

WithArchived(g, listed, r) ==
  IF r \in DOMAIN g
  THEN [g EXCEPT ![r].archived = TRUE]
  ELSE Store(g, r, [NewCOS(listed[r].hash, TRUE) EXCEPT !.archived = TRUE])

\* Delete marks an object the COS controller's finalizer still holds and drops
\* one without it: not yet reconciled, or torn down and released.
Deletions(g, r) ==
  IF g[r].deleting THEN {g}
  ELSE {[g EXCEPT ![r].deleting = TRUE]} \cup
       (IF g[r].archived \/ g[r].rollout = "Progressing" THEN {Without(g, r)} ELSE {})

-----------------------------------------------------------------------------
(* The reconcile.                                                          *)

At(label, work) == pc' = label /\ todo' = work
Keep == UNCHANGED <<snap, codSnap>>

\* Variant: leaves the loop's work behind.
IdleUncleared(again) ==
  /\ pc' = "idle" /\ todo' = todo
  /\ snap' = EmptyGroup
  /\ codSnap' = NoCOD
  /\ queued' = (queued \/ again)

\* The work queue runs a reconcile again after an error.
Idle(again) ==
  /\ At("idle", {})
  /\ snap' = EmptyGroup
  /\ codSnap' = NoCOD
  /\ queued' = (queued \/ again)

Start ==
  /\ pc = "idle" /\ queued
  /\ queued' = FALSE
  /\ snap' = cache
  /\ codSnap' = codCache
  /\ At("adopt", Orphans(cache))
  /\ UNCHANGED <<api, cache, cod, codCache, budget, superseded>>

\* adoptOrphans: apply a controller reference to each orphan in the listing.
Adopt ==
  /\ pc = "adopt" /\ todo # {}
  /\ LET r == Min(todo) IN
       IF r \in DOMAIN cos /\ cos[r].owner # "other"
       THEN /\ Put([cos EXCEPT ![r].owner = "cod"])
            /\ At("adopt", todo \ {r}) /\ Keep /\ UNCHANGED queued
       ELSE Idle(TRUE) /\ UNCHANGED api
  /\ UNCHANGED <<cache, cod, codCache, budget, superseded>>

\* Where a reconcile goes once the desired revision exists: the status is
\* computed from the listing, then the loops of archiveSuperseded and
\* pruneArchived run over it.
ToWrites ==
  /\ IF Superseded(snap) # {} THEN At("archive", Superseded(snap))
                              ELSE At("prune", Prunable(snap))
  /\ Keep

Synced == pc = "adopt" /\ todo = {}

\* createRevision, first call.  A number that is taken is an error.
CreateRevision ==
  /\ Synced
  /\ NeedsRevision(snap, codSnap.hash)
  /\ NextRevision(snap) \in Revisions
  /\ LET n == NextRevision(snap) IN
       IF n \in DOMAIN cos
       THEN Idle(TRUE) /\ UNCHANGED api
       ELSE /\ Put(Store(cos, n, NewCOS(codSnap.hash, FALSE)))
            /\ At("claim", {}) /\ Keep /\ UNCHANGED queued
  /\ UNCHANGED <<cache, cod, codCache, budget, superseded>>

ApplyDesired(r) ==
  IF AcceptsDesired(cos, r, codSnap.hash)
  THEN Put(WithDesired(cos, r, codSnap.hash)) /\ ToWrites /\ UNCHANGED queued
  ELSE Idle(TRUE) /\ UNCHANGED api

\* createRevision, second call: own the fields of the object just created.
ClaimRevision ==
  /\ pc = "claim"
  /\ ApplyDesired(NextRevision(snap))
  /\ UNCHANGED <<cache, cod, codCache, budget, superseded>>

\* Variant: trusts that the second call of createRevision happened.
EnsureNothing ==
  /\ Synced
  /\ ~NeedsRevision(snap, codSnap.hash)
  /\ ToWrites
  /\ UNCHANGED <<api, queued, cache, cod, codCache, budget, superseded>>

\* ensureFieldOwnership: repair a revision whose second call never happened.
EnsureFieldOwnership ==
  /\ Synced
  /\ ~NeedsRevision(snap, codSnap.hash)
  /\ LET latest == Max(ActiveOwned(snap)) IN
       IF snap[latest].claimed
       THEN ToWrites /\ UNCHANGED <<api, queued>>
       ELSE ApplyDesired(latest)
  /\ UNCHANGED <<cache, cod, codCache, budget, superseded>>

\* archiveSuperseded, one turn of the loop, lowest revision first.
ArchiveSuperseded ==
  /\ pc = "archive"
  /\ LET r    == Min(todo)
         rest == todo \ {r}
     IN  IF AcceptsArchived(cos, snap, r)
         THEN /\ Put(WithArchived(cos, snap, r))
              /\ superseded' = superseded \cup {r}
              /\ IF rest # {} THEN At("archive", rest) ELSE At("prune", Prunable(snap))
              /\ Keep /\ UNCHANGED queued
         ELSE /\ At("status", {}) /\ Keep /\ queued' = TRUE
              /\ UNCHANGED <<api, superseded>>
  /\ UNCHANGED <<cache, cod, codCache, budget>>

\* pruneArchived, one turn of the loop.  A revision that is gone is an error.
PruneArchived ==
  /\ pc = "prune" /\ todo # {}
  /\ LET r == Min(todo) IN
       IF r \in DOMAIN cos
       THEN /\ \E g \in Deletions(cos, r) : Put(g)
            /\ At("prune", todo \ {r}) /\ Keep /\ UNCHANGED queued
       ELSE At("status", {}) /\ Keep /\ queued' = TRUE /\ UNCHANGED api
  /\ UNCHANGED <<cache, cod, codCache, budget, superseded>>

\* The status is written last, also after a failed archive or prune, and only
\* if it differs from the one that was read; a deployment changed since it was
\* read refuses it.
UpdateStatus ==
  /\ pc = "status" \/ (pc = "prune" /\ todo = {})
  /\ LET status == StatusFrom(snap, codSnap.gen) IN
       IF status = codSnap.status THEN Idle(FALSE) /\ UNCHANGED cod
       ELSE IF cod = codSnap
            THEN cod' = [cod EXCEPT !.status = status] /\ Idle(FALSE)
            ELSE Idle(TRUE) /\ UNCHANGED cod
  /\ UNCHANGED <<api, cache, codCache, budget, superseded>>

-----------------------------------------------------------------------------
(* The informer.                                                           *)

\* Variant: a change of status alone does not queue the deployment.
DeliverSpecOnly ==
  /\ stream # <<>>
  /\ cache' = Head(stream)
  /\ stream' = Tail(stream)
  /\ queued' = (queued \/ DOMAIN cache' # DOMAIN cache
                 \/ \E r \in DOMAIN cache : cache'[r].archived # cache[r].archived)
  /\ UNCHANGED <<cos, used, succeeded, cod, codCache, step, budget, superseded>>

\* A watch event arrives: Owns and the group watch queue the deployment.
DeliverCOS ==
  /\ stream # <<>>
  /\ cache' = Head(stream)
  /\ stream' = Tail(stream)
  /\ queued' = TRUE
  /\ UNCHANGED <<cos, used, succeeded, cod, codCache, step, budget, superseded>>

DeliverCOD ==
  /\ codCache # cod
  /\ codCache' = cod
  /\ queued' = TRUE
  /\ UNCHANGED <<api, cache, cod, step, budget, superseded>>

-----------------------------------------------------------------------------
(* Everybody else.                                                         *)

Spend(what) ==
  /\ budget[what] > 0
  /\ budget' = [budget EXCEPT ![what] = @ - 1]

External == UNCHANGED <<cache, codCache, queued, step, superseded>>

\* The COS controller reports a completed rollout.
RollOut(r) ==
  /\ IsActive(cos[r]) /\ cos[r].rollout # "Available"
  /\ Put([cos EXCEPT ![r].rollout = "Available"])
  /\ External /\ UNCHANGED <<cod, budget>>

\* The COS controller reports that an assertion fails again, or, once the
\* revision is archived or deleted, that it is being torn down.
Degrade(r) ==
  /\ cos[r].rollout = "Available"
  /\ IF IsActive(cos[r]) THEN Spend("degrade") ELSE UNCHANGED budget
  /\ Put([cos EXCEPT ![r].rollout = "Degraded"])
  /\ External /\ UNCHANGED cod

\* The COS controller has torn a deleted revision down and released it.
Finalize(r) ==
  /\ cos[r].deleting
  /\ Put(Without(cos, r))
  /\ External /\ UNCHANGED <<cod, budget>>

EditTemplate(h) ==
  /\ h # cod.hash
  /\ Spend("edit")
  /\ cod' = [cod EXCEPT !.gen = @ + 1, !.hash = h]
  /\ External /\ UNCHANGED api

UserArchive(r) ==
  /\ IsActive(cos[r])
  /\ Spend("touch")
  /\ Put([cos EXCEPT ![r].archived = TRUE])
  /\ External /\ UNCHANGED cod

UserDelete(r) ==
  /\ ~cos[r].deleting
  /\ Spend("touch")
  /\ \E g \in Deletions(cos, r) : Put(g)
  /\ External /\ UNCHANGED cod

\* Any call of the reconcile may fail for reasons of its own.
Fail ==
  /\ pc # "idle"
  /\ Spend("fault")
  /\ IF pc \in {"archive", "prune"}
     THEN At("status", {}) /\ Keep /\ queued' = TRUE
     ELSE Idle(TRUE)
  /\ UNCHANGED <<api, cache, cod, codCache, superseded>>

\* The operator stops anywhere; the next one lists everything afresh.
Crash ==
  /\ Spend("fault")
  /\ At("idle", {}) /\ snap' = EmptyGroup /\ codSnap' = NoCOD
  /\ cache' = cos /\ stream' = <<>> /\ codCache' = cod
  /\ queued' = TRUE
  /\ UNCHANGED <<cos, used, succeeded, cod, superseded>>

-----------------------------------------------------------------------------

Init ==
  /\ cos \in InitialGroups
  /\ stream = <<>> /\ cache = cos
  /\ cod \in {[gen |-> 1, hash |-> h, status |-> NoStatus] : h \in Templates}
  /\ codCache = cod
  /\ queued = TRUE
  /\ pc = "idle" /\ snap = EmptyGroup /\ codSnap = NoCOD /\ todo = {}
  /\ budget = Budget
  /\ used = DOMAIN cos
  /\ succeeded = {r \in DOMAIN cos : cos[r].rollout # "Progressing"}
  /\ superseded = {}

Reconcile ==
  \/ Start \/ Adopt \/ CreateRevision \/ ClaimRevision \/ EnsureFieldOwnership
  \/ ArchiveSuperseded \/ PruneArchived \/ UpdateStatus

Informer == DeliverCOS \/ DeliverCOD

COSController == \E r \in DOMAIN cos : RollOut(r) \/ Degrade(r) \/ Finalize(r)

User ==
  \/ \E h \in Templates : EditTemplate(h)
  \/ \E r \in DOMAIN cos : UserArchive(r) \/ UserDelete(r)

Next == Reconcile \/ Informer \/ COSController \/ User \/ Fail \/ Crash

Spec == Init /\ [][Next]_vars

\* The work queue runs what is queued and a reconcile runs to its end; the
\* informer delivers what the API server sends.  Nothing else is promised.
FairSpec ==
  /\ Spec
  /\ WF_vars(Reconcile)
  /\ WF_vars(DeliverCOS)
  /\ WF_vars(DeliverCOD)

-----------------------------------------------------------------------------
(* Properties.                                                             *)

\* Nobody has done this yet.
Untouched(what) == budget[what] = Budget[what]

\* Every variable holds a value of its kind, and a reconcile that runs has a
\* deployment to reconcile.
TypeOK ==
  /\ IsGroup(cos) /\ IsGroup(cache) /\ IsGroup(snap)
  /\ \A i \in 1 .. Len(stream) : IsGroup(stream[i])
  /\ cod \in CODs /\ codCache \in CODs
  /\ queued \in BOOLEAN
  /\ pc \in {"idle", "adopt", "claim", "archive", "prune", "status"}
  /\ codSnap \in (IF pc = "idle" THEN {NoCOD} ELSE CODs)
  /\ todo \subseteq DOMAIN snap
  /\ budget \in [Disturbances -> Nat]
  /\ used \subseteq Revisions /\ succeeded \subseteq Revisions
  /\ superseded \subseteq Revisions

\* The controller archives a revision only for the sake of a higher one that
\* has been rolled out completely, however old the listing it acts on.
SupersededBySuccess ==
  \A r \in superseded : \E q \in succeeded : q > r

\* Once the controller has archived anything, some revision that has been
\* rolled out is still active: as long as no user archives or deletes
\* revisions, superseding leaves no gap in reconciliation.
NoGap ==
  superseded # {} /\ Untouched("touch")
    => \E q \in ActiveOwned(cos) : q \in succeeded

\* A revision is stamped only when the newest one is not an active revision
\* of the same template, although the cache may not show that one yet.
FreshTemplate ==
  [][Untouched("touch")' => \A n \in DOMAIN cos' \ DOMAIN cos : \A r \in Owned(cos) :
       (\A q \in Owned(cos) : q <= r) /\ cos[r].hash = cos'[n].hash
         => ~IsActive(cos[r])]_vars

Leaves(r) == ~cos[r].deleting /\ (r \in DOMAIN cos' => cos'[r].deleting)

\* What pruning deletes is archived, and as many archived revisions above it
\* as the history limit demands stay, also when a stale listing makes the
\* controller prune a second time.
PruneRetains ==
  [][Untouched("touch")' => \A r \in DOMAIN cos : Leaves(r) =>
       /\ cos[r].archived
       /\ Cardinality({q \in DOMAIN cos' :
             q > r /\ cos'[q].archived /\ ~cos'[q].deleting}) >= HistoryLimit]_vars

\* A rollout never makes a deployment unavailable: while nothing that was
\* available fails and no user interferes with the revisions, an available
\* deployment is at worst in transition.
RolloutStaysAvailable ==
  [][Untouched("degrade")' /\ Untouched("touch")' =>
       (cod.status.available # "False" => cod'.status.available # "False")]_vars

\* When everything has settled the deployment's status describes the group.
StatusConverges == <>[](cod.status = StatusFrom(cos, cod.gen))

\* When everything has settled the newest active revision is the template's,
\* with its fields claimed, also if the operator died between the two calls
\* that create it.
TemplateStamped ==
  <>[](\E r \in ActiveOwned(cos) :
         /\ \A q \in ActiveOwned(cos) : q <= r
         /\ cos[r].hash = cod.hash /\ cos[r].claimed)

\* Once the newest owned revision is active and stays available, everything
\* below it is archived in the end.
NewestSupersedes ==
  \A q \in Revisions :
    <>[](/\ q \in ActiveOwned(cos) /\ cos[q].rollout = "Available"
         /\ \A r \in Owned(cos) : r <= q)
      => <>[](ActiveOwned(cos) = {q})

\* Once the newest active revision stays available, its predecessors are
\* archived, also when there is an archived revision above it.
NewestActiveSupersedes ==
  \A q \in Revisions :
    <>[](/\ q \in ActiveOwned(cos) /\ cos[q].rollout = "Available"
         /\ \A r \in ActiveOwned(cos) : r <= q)
      => <>[](ActiveOwned(cos) = {q})

-----------------------------------------------------------------------------
(* Refinement: forget the controller's progress, the informer and all of a *)
(* revision but whether it is there and active.  A revision that is being  *)
(* deleted is gone already.                                                *)

LifeOf(r) ==
  CASE r \notin used -> "Unborn"
    [] r \in used /\ (r \notin DOMAIN cos \/ cos[r].deleting) -> "Gone"
    [] OTHER -> IF cos[r].archived THEN "Archived" ELSE "Active"

History == INSTANCE RevisionHistory WITH
  Numbers <- Revisions, Limit <- HistoryLimit, life <- [r \in Revisions |-> LifeOf(r)]

\* As long as users leave the revisions alone, the controller implements the
\* history a deployment promises, whatever the cache shows it and wherever it
\* stops.  In particular no server-side apply acting on an old listing brings
\* back a revision number that has existed.
ImplementsHistory == History!Spec
=============================================================================
