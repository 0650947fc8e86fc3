--------------------------- MODULE FieldOwnership ---------------------------
(* The fields of one ClusterObjectSet, revision 1 of a deployment, and who   *)
(* manages them.  Both controllers write it with forced server-side apply    *)
(* of what they extract from a cached copy (internal/cosutil/apply.go): a    *)
(* field that an earlier apply listed and this one does not is removed.      *)
(* The deployment controller creates, claims, adopts and archives the        *)
(* revision; the revision's own controller adds and removes its finalizer;   *)
(* a user edits it.  spec stands for group, revision, phases and             *)
(* collisionProtection, which every configuration sets together; superseded  *)
(* stands for an available newer revision in the listing.                    *)
EXTENDS Naturals, Sequences, Functions

CONSTANTS
  MaxLag,   \* versions of the revision the cache may be behind (a bound)
  Budgets   \* possible numbers of disturbances of each kind (a bound)

VARIABLES
  obj,        \* the revision as the API server holds it
  stream,     \* its versions that the operator's cache has not seen yet
  seen,       \* the copy in the operator's cache
  superseded, \* a newer revision is listed and available
  pc,         \* the call at which the deployment's reconcile stands
  listed,     \* the copy in its listing, and whether that lists a newer one
  queued,     \* the deployment is in the work queue
  budget      \* disturbances left, by kind

vars == <<obj, stream, seen, superseded, pc, listed, queued, budget>>
api == <<obj, stream>>

-----------------------------------------------------------------------------
(* Fields and their managers.                                              *)

\* Fields of the schema that the controllers or a user set.
Field == {"spec", "lifecycle", "hash", "label", "owner", "finalizer", "note"}

Required == {"spec", "lifecycle"}

\* Entries of managedFields: "cod" and "cos" are applies, "create" is the
\* Update entry that the deployment controller's Create leaves.
Manager == {"cod", "create", "cos", "user"}

Kind == {"fail", "crash", "supersede", "orphan", "disown", "unlabel", "relabel",
         "annotate", "archive", "delete"}

ASSUME FieldAssumption == MaxLag \in Nat /\ Budgets \subseteq [Kind -> Nat]

\* Variant: one field owner for both controllers.
SharedFieldOwner(controller) == "cod"

\* The constants fieldOwner of the two controllers.
FieldOwner(controller) == controller

Nothing == [f \in {} |-> ""]
Gone == [fields |-> Nothing, managed |-> [m \in Manager |-> {}], deleting |-> FALSE]

\* Fields set in a map of others.
Merged(changes, fields) ==
  [f \in DOMAIN changes \cup DOMAIN fields |->
     IF f \in DOMAIN changes THEN changes[f] ELSE fields[f]]

Exists(o) == o # Gone
Has(o, f) == f \in DOMAIN o.fields
Archived(o) == Has(o, "lifecycle") /\ o.fields["lifecycle"] = "Archived"

-----------------------------------------------------------------------------
(* The API server.                                                         *)

\* Forced server-side apply: m manages what it lists, another manager loses
\* what changes, and what only m listed before is removed.
Applied(o, m, config) ==
  LET dropped == o.managed[m] \ (DOMAIN config \cup UNION {o.managed[n] : n \in Manager \ {m}})
      forced == {f \in DOMAIN config : Has(o, f) /\ o.fields[f] # config[f]}
  IN [o EXCEPT
       !.fields = Merged(config, Restrict(@, DOMAIN @ \ dropped)),
       !.managed = [n \in Manager |-> IF n = m THEN DOMAIN config ELSE @[n] \ forced]]

\* Update or patch: whoever changes a field manages it alone, and a field that
\* is removed has no manager.
Updated(o, m, changes, removed) ==
  LET changed == {f \in DOMAIN changes : ~Has(o, f) \/ o.fields[f] # changes[f]}
  IN [o EXCEPT
       !.fields = Merged(changes, Restrict(@, DOMAIN @ \ removed)),
       !.managed = [n \in Manager |-> (@[n] \ (changed \cup removed))
                                      \cup (IF n = m THEN changed ELSE {})]]

\* The rules of the schema, and the API server's own on finalizers.
Admitted(old, new) ==
  /\ Required \subseteq DOMAIN new.fields
  /\ Exists(old) => old.fields["spec"] = new.fields["spec"]
  /\ Archived(old) => Archived(new)
  /\ old.deleting => (Has(new, "finalizer") => Has(old, "finalizer"))

\* An object that is being deleted goes with its last finalizer.
Settled(o) == IF o.deleting /\ ~Has(o, "finalizer") THEN Gone ELSE o

Put(o) ==
  IF Settled(o) = obj THEN UNCHANGED api
  ELSE /\ Len(stream) < MaxLag
       /\ obj' = Settled(o)
       /\ stream' = Append(stream, Settled(o))

-----------------------------------------------------------------------------
(* Apply configurations.                                                   *)

\* ExtractClusterObjectSet: what the copy's apply entry of m lists.
Extract(copy, m) == Restrict(copy.fields, copy.managed[m] \cap DOMAIN copy.fields)

\* Variant: applies the mutation without what was applied before.
ConfigureAlone(copy, m, mutation) == mutation

\* cosutil.Apply: extract, then mutate.
Configure(copy, m, mutation) == Merged(mutation, Extract(copy, m))

WithLabels(config, hash) == Merged([hash |-> hash, label |-> "template"], config)
WithOwnerReferences(config, owner) == Merged([owner |-> owner], config)
WithFinalizers(config, finalizer) == Merged([finalizer |-> finalizer], config)
WithSpec(config, spec) == Merged(spec, config)
WithLifecycleState(spec, state) == Merged([lifecycle |-> state], spec)

\* SetControllerReference.
SetControllerReference(config) == WithOwnerReferences(config, "cod")

\* BuildCOS, for the deployment's current template.
Desired ==
  SetControllerReference(WithSpec(WithLabels(Nothing, "current"),
                                  WithLifecycleState([spec |-> "template"], "Active")))

Adoption(copy) == Configure(copy, FieldOwner("cod"), SetControllerReference(Nothing))
Archival(copy) == Configure(copy, FieldOwner("cod"), WithLifecycleState(Nothing, "Archived"))
Protection(copy) == Configure(copy, FieldOwner("cos"), WithFinalizers(Nothing, "cos"))

-----------------------------------------------------------------------------
(* The deployment controller, one call at a time.                          *)

Unlisted == [copy |-> Gone, superseded |-> FALSE]

Idle(again) == pc' = "idle" /\ listed' = Unlisted /\ queued' = (queued \/ again)
At(label) == pc' = label /\ UNCHANGED <<listed, queued>>
Spend(k) == budget[k] > 0 /\ budget' = [budget EXCEPT ![k] = @ - 1]

\* A call to Apply, and where the reconcile stands after it.
Attempt(config, Next_) ==
  LET new == Applied(obj, FieldOwner("cod"), config)
  IN IF Admitted(obj, new) THEN Put(new) /\ Next_
     ELSE Idle(TRUE) /\ UNCHANGED api

Start ==
  /\ pc = "idle" /\ queued
  /\ pc' = "adopt"
  /\ listed' = [copy |-> seen, superseded |-> superseded]
  /\ queued' = FALSE
  /\ UNCHANGED <<api, seen, superseded, budget>>

\* adoptOrphans: what it adopts it goes on with as it was listed.
AdoptOrphans ==
  /\ pc = "adopt"
  /\ IF Exists(listed.copy) /\ ~Has(listed.copy, "owner")
     THEN Attempt(Adoption(listed.copy), At("sync"))
     ELSE At("sync") /\ UNCHANGED api
  /\ UNCHANGED <<seen, superseded, budget>>

\* syncRevision: whether revision 1 is the latest active one, of this template.
Current(copy) ==
  /\ Exists(copy) /\ ~copy.deleting /\ ~Archived(copy)
  /\ Has(copy, "hash")

\* Variant: trusts that the claim that follows a Create was made.
EnsureOnlyOwner ==
  /\ pc = "sync" /\ ~listed.superseded /\ Current(listed.copy)
  /\ At("archive")
  /\ UNCHANGED <<api, seen, superseded, budget>>

EnsureFieldOwnership ==
  /\ pc = "sync" /\ ~listed.superseded /\ Current(listed.copy)
  /\ IF Extract(listed.copy, FieldOwner("cod")) # Desired
     THEN Attempt(Desired, At("archive"))
     ELSE At("archive") /\ UNCHANGED api
  /\ UNCHANGED <<seen, superseded, budget>>

\* createRevision, when nothing is listed: revision 1, which may be there.
CreateRevision ==
  /\ pc = "sync" /\ ~listed.superseded /\ ~Exists(listed.copy)
  /\ IF Exists(obj)
     THEN Idle(TRUE) /\ UNCHANGED api
     ELSE Put(Updated(Gone, "create", Desired, {})) /\ At("claim")
  /\ UNCHANGED <<seen, superseded, budget>>

ClaimRevision ==
  /\ pc = "claim"
  /\ Attempt(Desired, Idle(FALSE))
  /\ UNCHANGED <<seen, superseded, budget>>

\* createRevision, when revision 1 is listed and does not do: revision 2,
\* whose own fields and rollout are not modelled.
CreateNext ==
  /\ pc = "sync" /\ ~listed.superseded
  /\ Exists(listed.copy) /\ ~Current(listed.copy)
  /\ superseded' = TRUE
  /\ Idle(TRUE)
  /\ UNCHANGED <<api, seen, budget>>

\* syncRevision on the newer revision leaves this one alone.
SyncNewer ==
  /\ pc = "sync" /\ listed.superseded
  /\ At("archive")
  /\ UNCHANGED <<api, seen, superseded, budget>>

ArchiveSuperseded ==
  /\ pc = "archive"
  /\ IF listed.superseded /\ Exists(listed.copy) /\ ~Archived(listed.copy)
     THEN Attempt(Archival(listed.copy), Idle(FALSE))
     ELSE Idle(FALSE) /\ UNCHANGED api
  /\ UNCHANGED <<seen, superseded, budget>>

\* A call that does not arrive.
Fail ==
  /\ pc # "idle" /\ Spend("fail")
  /\ Idle(TRUE)
  /\ UNCHANGED <<api, seen, superseded>>

\* The operator stops and starts again, with a new listing.
Crash ==
  /\ Spend("crash")
  /\ seen' = obj /\ stream' = <<>>
  /\ pc' = "idle" /\ listed' = Unlisted /\ queued' = TRUE
  /\ UNCHANGED <<obj, superseded>>

-----------------------------------------------------------------------------
(* The revision's controller.                                              *)

\* ensureFinalizer, from a copy that is neither deleted nor archived.
EnsureFinalizer ==
  /\ Exists(seen) /\ ~seen.deleting /\ ~Archived(seen)
  /\ ~Has(seen, "finalizer")
  /\ LET new == Applied(obj, FieldOwner("cos"), Protection(seen))
     IN Admitted(obj, new) /\ Put(new)
  /\ UNCHANGED <<seen, superseded, pc, listed, queued, budget>>

\* ClearFinalizerFieldOwnership.
ClearFinalizerFieldOwnership(managed) ==
  [managed EXCEPT ![FieldOwner("cos")] = @ \ {"finalizer"}]

\* Variant: the patch is computed after the finalizer is gone from the copy,
\* and carries the managed fields only.
RemoveFinalizerLate(copy) == [copy EXCEPT !.managed = ClearFinalizerFieldOwnership(@)]

\* RemoveFinalizer: the patch of a copy.
RemoveFinalizer(copy) ==
  Updated([copy EXCEPT !.managed = ClearFinalizerFieldOwnership(@)], "cos", Nothing, {"finalizer"})

\* release, once the teardown is complete.  The optimistic lock refuses the
\* patch of a copy that is behind.
Release ==
  /\ Has(seen, "finalizer") /\ (seen.deleting \/ Archived(seen))
  /\ seen = obj /\ stream = <<>>
  /\ Put(RemoveFinalizer(seen))
  /\ UNCHANGED <<seen, superseded, pc, listed, queued, budget>>

-----------------------------------------------------------------------------
(* The cache, and what users do.                                           *)

DeliverCOS ==
  /\ stream # <<>>
  /\ seen' = Head(stream) /\ stream' = Tail(stream)
  /\ queued' = TRUE
  /\ UNCHANGED <<obj, superseded, pc, listed, budget>>

\* The template changes, and its revision becomes available.
Supersede ==
  /\ ~superseded /\ Spend("supersede")
  /\ superseded' = TRUE /\ queued' = TRUE
  /\ UNCHANGED <<api, seen, pc, listed>>

Unowned == Restrict(Desired, DOMAIN Desired \ {"owner"})

\* A user creates a copy of the revision, with or without its labels.
CreateOrphan ==
  /\ ~Exists(obj) /\ Spend("orphan")
  /\ \E removed \in {{}, {"hash", "label"}} :
       Put(Updated(Gone, "user", Restrict(Unowned, DOMAIN Unowned \ removed), {}))
  /\ UNCHANGED <<seen, superseded, pc, listed, queued>>

\* A user updates the revision.
Edit(k, changes, removed) ==
  /\ Exists(obj) /\ Spend(k)
  /\ Put(Updated(obj, "user", changes, removed))
  /\ UNCHANGED <<seen, superseded, pc, listed, queued>>

Disown == Edit("disown", Nothing, {"owner"})
Unlabel == Edit("unlabel", Nothing, {"hash"})
Relabel == Edit("relabel", [label |-> "user"], {})
Annotate == Edit("annotate", [note |-> "user"], {})
UserArchive == Edit("archive", [lifecycle |-> "Archived"], {})

\* A user, the pruning of archived revisions or the garbage collector.
Delete ==
  /\ Exists(obj) /\ Spend("delete")
  /\ Put([obj EXCEPT !.deleting = TRUE])
  /\ UNCHANGED <<seen, superseded, pc, listed, queued>>

-----------------------------------------------------------------------------
Init ==
  /\ obj = Gone /\ stream = <<>> /\ seen = Gone
  /\ superseded = FALSE
  /\ pc = "idle" /\ listed = Unlisted /\ queued = TRUE
  /\ budget \in Budgets

Deployment ==
  \/ Start \/ AdoptOrphans \/ EnsureFieldOwnership \/ CreateRevision
  \/ ClaimRevision \/ CreateNext \/ SyncNewer \/ ArchiveSuperseded

Environment ==
  \/ Fail \/ Crash \/ Supersede \/ CreateOrphan \/ Disown \/ Unlabel
  \/ Relabel \/ Annotate \/ UserArchive \/ Delete

Next == Deployment \/ EnsureFinalizer \/ Release \/ DeliverCOS \/ Environment

\* The work queues run a reconcile again until it succeeds, and the watch
\* delivers every version in the end.
Spec ==
  /\ Init /\ [][Next]_vars
  /\ WF_vars(Deployment) /\ WF_vars(DeliverCOS)
  /\ WF_vars(EnsureFinalizer) /\ WF_vars(Release)

-----------------------------------------------------------------------------
(* Properties.                                                             *)

Value == {"template", "Active", "Archived", "current", "cod", "cos", "user"}

IsObject(o) ==
  /\ DOMAIN o.fields \subseteq Field /\ Range(o.fields) \subseteq Value
  /\ DOMAIN o.managed = Manager
  /\ \A m \in Manager : o.managed[m] \subseteq DOMAIN o.fields
  /\ o.deleting \in BOOLEAN

\* Every variable has its type; in the revision as it is stored, every field
\* has a manager and every manager's field is there, the required fields are
\* set, and a revision marked for deletion is held by the finalizer
\* (RemoveFinalizer, ClearFinalizerFieldOwnership).
TypeOK ==
  /\ IsObject(obj) /\ IsObject(seen) /\ IsObject(listed.copy)
  /\ \A i \in DOMAIN stream : IsObject(stream[i])
  /\ Len(stream) <= MaxLag
  /\ UNION {obj.managed[m] : m \in Manager} = DOMAIN obj.fields
  /\ Exists(obj) => Required \subseteq DOMAIN obj.fields
  /\ obj.deleting => Has(obj, "finalizer")
  /\ pc \in {"idle", "adopt", "sync", "claim", "archive"}
  /\ {superseded, queued, listed.superseded} \subseteq BOOLEAN
  /\ DOMAIN budget = Kind /\ Range(budget) \subseteq Nat

\* Whatever was applied and edited before, the API server would accept each
\* apply that a controller makes from an up-to-date copy: extracting first
\* means that no apply drops a required field or un-archives the revision
\* (cosutil.Apply, ensureFieldOwnership).  Only staleness refuses one.
AppliesAdmitted ==
  Exists(obj) =>
    /\ Admitted(obj, Applied(obj, FieldOwner("cod"), Adoption(obj)))
    /\ Admitted(obj, Applied(obj, FieldOwner("cod"), Archival(obj)))
    /\ Current(obj) => Admitted(obj, Applied(obj, FieldOwner("cod"), Desired))
    /\ ~obj.deleting => Admitted(obj, Applied(obj, FieldOwner("cos"), Protection(obj)))

\* However late the copy an apply was made from, the revision loses its
\* finalizer only when it is archived or deleted: by release, and by nothing
\* the deployment controller applies (ensureFieldOwnership, archiveSuperseded).
FinalizerKept ==
  [][(Has(obj, "finalizer") /\ ~Has(obj', "finalizer"))
      => (obj.deleting \/ Archived(obj))]_vars

\* After the last disturbance the writes agree: the revision is there unless
\* it is superseded, owned by the deployment again whatever a late apply
\* dropped, archived when it is superseded, and else entirely claimed, also
\* when the operator stopped between Create and Apply (adoptOrphans,
\* archiveSuperseded, ensureFieldOwnership).
OwnershipSettles ==
  <>[](/\ Exists(obj) \/ superseded
       /\ Exists(obj) =>
            /\ ~obj.deleting /\ Has(obj, "owner")
            /\ IF superseded THEN Archived(obj)
               ELSE Extract(obj, FieldOwner("cod")) = Desired)
=============================================================================
