------------------------ MODULE CODControllerProofs ------------------------
(* The deployment controller is typed, and never archives a revision that  *)
(* no higher one has superseded: for every set of templates, history limit,*)
(* lag of the cache and number of edits, failures and user interventions.  *)
EXTENDS CODController, RevisionGroupProofs

-----------------------------------------------------------------------------
(* Types.                                                                  *)

\* The part of TypeOK the API server's variables make up.
ApiOK ==
  /\ cos \in Groups /\ stream \in Seq(Groups)
  /\ used \subseteq Revisions /\ succeeded \subseteq Revisions

\* A write of a group leaves the API server with a group.
LEMMA PutTyped ==
  ASSUME ApiOK, NEW g \in Groups, Put(g)
  PROVE  ApiOK'
<1>1. CASE g = cos
  BY <1>1 DEF Put, ApiOK, api
<1>2. CASE g # cos
  <2>1. /\ cos' = g /\ stream' = Append(stream, g)
        /\ used' = used \cup DOMAIN g
        /\ succeeded' = succeeded \cup {r \in DOMAIN g : g[r].rollout = "Available"}
    BY <1>2 DEF Put
  <2>2. DOMAIN g \subseteq Revisions
    BY GroupIs
  <2>3. stream' \in Seq(Groups)
    BY <2>1 DEF ApiOK
  <2>4. QED
    BY <2>1, <2>2, <2>3 DEF ApiOK
<1>3. QED
  BY <1>1, <1>2

LEMMA SameApiTyped ==
  ASSUME ApiOK, UNCHANGED api
  PROVE  ApiOK'
BY DEF ApiOK, api

\* What the writes of the reconcile, of the users and of the other controller
\* make of a group.
LEMMA OwnedIsGroup ==
  ASSUME NEW g \in Groups, NEW r \in DOMAIN g
  PROVE  [g EXCEPT ![r].owner = "cod"] \in Groups
<1>1. g[r] \in COS
  BY MemberIsCOS
<1>2. [g[r] EXCEPT !.owner = "cod"] \in COS
  BY <1>1 DEF COS
<1>3. QED
  BY <1>2, UpdateIsGroup

LEMMA ArchivedIsGroup ==
  ASSUME NEW g \in Groups, NEW r \in DOMAIN g
  PROVE  [g EXCEPT ![r].archived = TRUE] \in Groups
<1>1. g[r] \in COS
  BY MemberIsCOS
<1>2. [g[r] EXCEPT !.archived = TRUE] \in COS
  BY <1>1 DEF COS
<1>3. QED
  BY <1>2, UpdateIsGroup

LEMMA RolledIsGroup ==
  ASSUME NEW g \in Groups, NEW r \in DOMAIN g, NEW s \in Rollouts
  PROVE  [g EXCEPT ![r].rollout = s] \in Groups
<1>1. g[r] \in COS
  BY MemberIsCOS
<1>2. [g[r] EXCEPT !.rollout = s] \in COS
  BY <1>1 DEF COS
<1>3. QED
  BY <1>2, UpdateIsGroup

LEMMA DeletionsAreGroups ==
  ASSUME NEW g \in Groups, NEW r \in DOMAIN g, NEW d \in Deletions(g, r)
  PROVE  d \in Groups
<1>1. g[r] \in COS
  BY MemberIsCOS
<1>2. [g[r] EXCEPT !.deleting = TRUE] \in COS
  BY <1>1 DEF COS
<1>3. [g EXCEPT ![r].deleting = TRUE] \in Groups
  BY <1>2, UpdateIsGroup
<1>4. Without(g, r) \in Groups
  BY WithoutIsGroup
<1>5. d \in {g, [g EXCEPT ![r].deleting = TRUE], Without(g, r)}
  BY DEF Deletions
<1>6. QED
  BY <1>3, <1>4, <1>5

LEMMA DesiredIsGroup ==
  ASSUME NEW g \in Groups, NEW r \in Revisions, NEW h \in Templates
  PROVE  WithDesired(g, r, h) \in Groups
<1>1. CASE r \in DOMAIN g
  <2>1. g[r] \in COS
    BY <1>1, MemberIsCOS
  <2>2. [[g[r] EXCEPT !.claimed = TRUE] EXCEPT !.owner = "cod"] \in COS
    BY <2>1 DEF COS
  <2>3. [g EXCEPT ![r] = [[g[r] EXCEPT !.claimed = TRUE] EXCEPT !.owner = "cod"]] \in Groups
    BY <1>1, <2>2, UpdateIsGroup
  <2>4. WithDesired(g, r, h)
          = [g EXCEPT ![r] = [[g[r] EXCEPT !.claimed = TRUE] EXCEPT !.owner = "cod"]]
    <3>1. g \in [DOMAIN g -> COS]
      BY GroupIs
    <3>2. QED
      BY <1>1, <3>1 DEF WithDesired
  <2>5. QED
    BY <2>3, <2>4
<1>2. CASE r \notin DOMAIN g
  BY <1>2, NewIsCOS, StoreIsGroup DEF WithDesired
<1>3. QED
  BY <1>1, <1>2

LEMMA WithArchivedIsGroup ==
  ASSUME NEW g \in Groups, NEW listed \in Groups, NEW r \in DOMAIN listed
  PROVE  WithArchived(g, listed, r) \in Groups
<1>1. r \in Revisions /\ listed[r] \in COS
  BY MemberIsCOS
<1>2. CASE r \in DOMAIN g
  BY <1>2, ArchivedIsGroup DEF WithArchived
<1>3. CASE r \notin DOMAIN g
  <2>1. listed[r].hash \in Templates
    BY <1>1 DEF COS
  <2>2. [NewCOS(listed[r].hash, TRUE) EXCEPT !.archived = TRUE] \in COS
    BY <2>1 DEF NewCOS, COS, Rollouts
  <2>3. QED
    BY <1>1, <1>3, <2>2, StoreIsGroup DEF WithArchived
<1>4. QED
  BY <1>2, <1>3

LEMMA StatusTyped ==
  ASSUME NEW g \in Groups, NEW gen \in Nat
  PROVE  StatusFrom(g, gen) \in Statuses
<1>1. ActiveOwned(g) \subseteq Revisions
  BY GroupIs DEF ActiveOwned, Owned
<1>2. EvaluateAvailability(g) \in {"True", "False", "Unknown"}
  <2> DEFINE n == Cardinality(ActiveOwned(g))
             up == \A r \in ActiveOwned(g) : g[r].rollout = "Available"
  <2>1. EvaluateAvailability(g)
          = CASE n = 0 -> "False" [] n = 1 -> (IF up THEN "True" ELSE "False")
              [] OTHER -> "Unknown"
    BY DEF EvaluateAvailability
  <2> HIDE DEF n, up
  <2>2. QED
    BY <2>1
<1>3. EvaluateProgress(g) \in {"None", "NoActiveRevisions", "Progressed", "Progressing"}
  BY DEF EvaluateProgress
<1>4. QED
  BY <1>1, <1>2, <1>3 DEF StatusFrom, Statuses

\* The rest of TypeOK: the reconcile's own variables, and the others.
StepOK ==
  /\ snap \in Groups
  /\ pc \in {"idle", "adopt", "claim", "archive", "prune", "status"}
  /\ codSnap \in (IF pc = "idle" THEN {NoCOD} ELSE CODs)
  /\ todo \subseteq DOMAIN snap
  /\ pc = "claim" => NextRevision(snap) \in Revisions
  /\ pc = "archive" => todo # {}

RestOK ==
  /\ cache \in Groups /\ cod \in CODs /\ codCache \in CODs
  /\ budget \in [Disturbances -> Nat]
  /\ superseded \subseteq Revisions

TypeInv == ApiOK /\ StepOK /\ RestOK /\ queued \in BOOLEAN

LEMMA TypeInvIsTypeOK == TypeInv => TypeOK
<1> SUFFICES ASSUME TypeInv PROVE TypeOK
  OBVIOUS
<1>1. \A i \in 1 .. Len(stream) : stream[i] \in Groups
  BY DEF TypeInv, ApiOK
<1>2. QED
  BY <1>1, GroupIs DEF TypeInv, ApiOK, StepOK, RestOK, TypeOK

\* The two ways in which a step of the reconcile ends or goes on.
LEMMA IdleTyped ==
  ASSUME queued \in BOOLEAN, NEW again \in BOOLEAN, Idle(again)
  PROVE  StepOK' /\ queued' \in BOOLEAN
BY EmptyIsGroup DEF Idle, At, StepOK

LEMMA ToWritesTyped ==
  ASSUME StepOK, pc # "idle", ToWrites
  PROVE  StepOK'
<1>1. Superseded(snap) \subseteq DOMAIN snap /\ Prunable(snap) \subseteq DOMAIN snap
  BY SupersededBelowAvailable, PrunableIsListed DEF StepOK
<1>2. snap' = snap /\ codSnap' = codSnap
  BY DEF ToWrites, Keep
<1>3. CASE Superseded(snap) # {}
  BY <1>1, <1>2, <1>3 DEF ToWrites, At, StepOK
<1>4. CASE Superseded(snap) = {}
  BY <1>1, <1>2, <1>4 DEF ToWrites, At, StepOK
<1>5. QED
  BY <1>3, <1>4

LEMMA LoopTyped ==
  ASSUME StepOK, pc # "idle", Keep,
         NEW label \in {"adopt", "archive", "prune", "status"},
         NEW work \in SUBSET DOMAIN snap, label = "archive" => work # {},
         At(label, work)
  PROVE  StepOK'
BY DEF StepOK, Keep, At

\* A loop's next revision is one of the listed ones.
LEMMA LeastTodo ==
  ASSUME StepOK, todo # {}
  PROVE  Min(todo) \in todo /\ Min(todo) \in DOMAIN snap /\ Min(todo) \in Revisions
<1>1. DOMAIN snap \subseteq Revisions
  BY GroupIs DEF StepOK
<1>2. todo \subseteq Nat
  BY <1>1, GroupAssumption DEF StepOK, Revisions
<1>3. Min(todo) \in todo
  BY <1>2, MinIsLeast
<1>4. QED
  BY <1>1, <1>3 DEF StepOK

\* syncRevision's latest revision is an active one of the listing.
LEMMA LatestActive ==
  ASSUME NEW g \in Groups, ActiveOwned(g) # {}
  PROVE  Max(ActiveOwned(g)) \in ActiveOwned(g) /\ Max(ActiveOwned(g)) \in Revisions
<1>1. ActiveOwned(g) \subseteq Revisions
  BY GroupIs DEF ActiveOwned, Owned
<1>2. ActiveOwned(g) \subseteq 0 .. MaxRevision /\ MaxRevision \in Nat
  BY <1>1, GroupAssumption DEF Revisions
<1>3. Max(ActiveOwned(g)) \in ActiveOwned(g)
  BY <1>2, MaxIsGreatest
<1>4. QED
  BY <1>1, <1>3

LEMMA InitTyped == Init => TypeInv
<1> SUFFICES ASSUME Init PROVE TypeInv
  OBVIOUS
<1>1. cos \in Groups /\ cache \in Groups
  BY GroupIs, ControllerAssumption DEF Init
<1>2. used \subseteq Revisions /\ succeeded \subseteq Revisions
  BY <1>1, GroupIs DEF Init
<1>3. ApiOK
  BY <1>1, <1>2 DEF Init, ApiOK
<1>4. cod \in CODs
  BY DEF Init, CODs, Statuses, NoStatus
<1>5. StepOK
  BY EmptyIsGroup DEF Init, StepOK
<1>6. QED
  BY <1>1, <1>3, <1>4, <1>5, ControllerAssumption DEF Init, TypeInv, RestOK

\* Every step of the reconcile keeps the types.
LEMMA ReconcileTyped == TypeInv /\ Reconcile => TypeInv'
<1> SUFFICES ASSUME TypeInv, Reconcile PROVE TypeInv'
  OBVIOUS
<1> USE DEF TypeInv
<1>1. CASE Start
  <2>1. Orphans(cache) \subseteq DOMAIN cache
    BY DEF Orphans
  <2>2. StepOK'
    BY <1>1, <2>1 DEF Start, At, StepOK, RestOK
  <2>3. ApiOK' /\ RestOK' /\ queued' \in BOOLEAN
    BY <1>1, SameApiTyped DEF Start, RestOK
  <2>4. QED
    BY <2>2, <2>3
<1>2. CASE Adopt
  <2> DEFINE r == Min(todo)
  <2>1. RestOK'
    BY <1>2 DEF Adopt, RestOK
  <2>2. CASE r \in DOMAIN cos /\ cos[r].owner # "other"
    <3>1. /\ Put([cos EXCEPT ![r].owner = "cod"])
          /\ At("adopt", todo \ {r}) /\ Keep /\ UNCHANGED queued
      BY <1>2, <2>2 DEF Adopt
    <3>2. [cos EXCEPT ![r].owner = "cod"] \in Groups
      BY <2>2, OwnedIsGroup DEF ApiOK
    <3>3. ApiOK'
      BY <3>1, <3>2, PutTyped
    <3>4. todo \ {r} \in SUBSET DOMAIN snap /\ pc # "idle"
      BY <1>2 DEF Adopt, StepOK
    <3>5. StepOK'
      BY <3>1, <3>4, LoopTyped
    <3>6. QED
      BY <2>1, <3>1, <3>3, <3>5
  <2>3. CASE ~(r \in DOMAIN cos /\ cos[r].owner # "other")
    <3>1. Idle(TRUE) /\ UNCHANGED api
      BY <1>2, <2>3 DEF Adopt
    <3>2. QED
      BY <2>1, <3>1, IdleTyped, SameApiTyped
  <2>4. QED
    BY <2>2, <2>3
<1>3. CASE CreateRevision
  <2> DEFINE n == NextRevision(snap)
  <2>1. RestOK'
    BY <1>3 DEF CreateRevision, RestOK
  <2>2. n \in Revisions /\ pc = "adopt" /\ codSnap \in CODs
    BY <1>3 DEF CreateRevision, Synced, StepOK
  <2>3. CASE n \in DOMAIN cos
    <3>1. Idle(TRUE) /\ UNCHANGED api
      BY <1>3, <2>3 DEF CreateRevision
    <3>2. QED
      BY <2>1, <3>1, IdleTyped, SameApiTyped
  <2>4. CASE n \notin DOMAIN cos
    <3>1. /\ Put(Store(cos, n, NewCOS(codSnap.hash, FALSE)))
          /\ At("claim", {}) /\ Keep /\ UNCHANGED queued
      BY <1>3, <2>4 DEF CreateRevision
    <3>2. codSnap.hash \in Templates
      BY <2>2 DEF CODs
    <3>3. Store(cos, n, NewCOS(codSnap.hash, FALSE)) \in Groups
      BY <2>2, <3>2, NewIsCOS, StoreIsGroup DEF ApiOK
    <3>4. ApiOK'
      BY <3>1, <3>3, PutTyped
    <3>5. StepOK'
      BY <2>2, <3>1 DEF StepOK, Keep, At
    <3>6. QED
      BY <2>1, <3>1, <3>4, <3>5
  <2>5. QED
    BY <2>3, <2>4
<1>4. ASSUME NEW r \in Revisions, ApplyDesired(r), pc \in {"adopt", "claim"}, RestOK'
      PROVE  TypeInv'
  <2>1. codSnap \in CODs /\ pc # "idle"
    BY <1>4 DEF StepOK
  <2>2. codSnap.hash \in Templates
    BY <2>1 DEF CODs
  <2>3. CASE AcceptsDesired(cos, r, codSnap.hash)
    <3>1. Put(WithDesired(cos, r, codSnap.hash)) /\ ToWrites /\ UNCHANGED queued
      BY <1>4, <2>3 DEF ApplyDesired
    <3>2. WithDesired(cos, r, codSnap.hash) \in Groups
      BY <2>2, DesiredIsGroup DEF ApiOK
    <3>3. ApiOK'
      BY <3>1, <3>2, PutTyped
    <3>4. StepOK'
      BY <2>1, <3>1, ToWritesTyped
    <3>5. QED
      BY <1>4, <3>1, <3>3, <3>4
  <2>4. CASE ~AcceptsDesired(cos, r, codSnap.hash)
    <3>1. Idle(TRUE) /\ UNCHANGED api
      BY <1>4, <2>4 DEF ApplyDesired
    <3>2. QED
      BY <1>4, <3>1, IdleTyped, SameApiTyped
  <2>5. QED
    BY <2>3, <2>4
<1>5. CASE ClaimRevision
  <2>1. RestOK' /\ ApplyDesired(NextRevision(snap)) /\ pc = "claim"
    BY <1>5 DEF ClaimRevision, RestOK
  <2>2. QED
    BY <1>4, <2>1 DEF StepOK
<1>6. CASE EnsureFieldOwnership
  <2> DEFINE latest == Max(ActiveOwned(snap))
  <2>1. RestOK' /\ pc = "adopt" /\ ActiveOwned(snap) # {}
    BY <1>6 DEF EnsureFieldOwnership, RestOK, Synced, NeedsRevision
  <2>2. latest \in Revisions
    BY <2>1, LatestActive DEF StepOK
  <2>3. CASE snap[latest].claimed
    <3>1. ToWrites /\ UNCHANGED <<api, queued>>
      BY <1>6, <2>3 DEF EnsureFieldOwnership
    <3>2. QED
      BY <2>1, <3>1, ToWritesTyped, SameApiTyped
  <2>4. CASE ~snap[latest].claimed
    <3>1. ApplyDesired(latest)
      BY <1>6, <2>4 DEF EnsureFieldOwnership
    <3>2. QED
      BY <1>4, <2>1, <2>2, <3>1
  <2>5. QED
    BY <2>3, <2>4
<1>7. CASE ArchiveSuperseded
  <2> DEFINE r == Min(todo)
             rest == todo \ {r}
  <2>1. cache' \in Groups /\ cod' \in CODs /\ codCache' \in CODs
        /\ budget' \in [Disturbances -> Nat] /\ pc = "archive"
    BY <1>7 DEF ArchiveSuperseded, RestOK
  <2>2. CASE AcceptsArchived(cos, snap, r)
    <3>1. /\ Put(WithArchived(cos, snap, r))
          /\ superseded' = superseded \cup {r}
          /\ IF rest # {} THEN At("archive", rest) ELSE At("prune", Prunable(snap))
          /\ Keep /\ UNCHANGED queued
      BY <1>7, <2>2 DEF ArchiveSuperseded
    <3>2. r \in DOMAIN snap /\ r \in Revisions
      BY <2>1, LeastTodo DEF StepOK
    <3>3. ApiOK'
      BY <3>1, <3>2, WithArchivedIsGroup, PutTyped DEF ApiOK, StepOK
    <3>4. rest \in SUBSET DOMAIN snap /\ Prunable(snap) \in SUBSET DOMAIN snap
      BY PrunableIsListed DEF StepOK
    <3>5. StepOK'
      BY <2>1, <3>1, <3>4, LoopTyped
    <3>6. RestOK'
      BY <2>1, <3>1, <3>2 DEF RestOK
    <3>7. QED
      BY <3>1, <3>3, <3>5, <3>6
  <2>3. CASE ~AcceptsArchived(cos, snap, r)
    <3>1. /\ At("status", {}) /\ Keep /\ queued' = TRUE
          /\ UNCHANGED <<api, superseded>>
      BY <1>7, <2>3 DEF ArchiveSuperseded
    <3>2. StepOK'
      BY <2>1, <3>1, LoopTyped
    <3>3. QED
      BY <2>1, <3>1, <3>2, SameApiTyped DEF RestOK
  <2>4. QED
    BY <2>2, <2>3
<1>8. CASE PruneArchived
  <2> DEFINE r == Min(todo)
  <2>1. RestOK' /\ pc = "prune"
    BY <1>8 DEF PruneArchived, RestOK
  <2>2. CASE r \in DOMAIN cos
    <3>1. PICK g \in Deletions(cos, r) : Put(g)
      BY <1>8, <2>2 DEF PruneArchived
    <3>2. At("prune", todo \ {r}) /\ Keep /\ UNCHANGED queued
      BY <1>8, <2>2 DEF PruneArchived
    <3>3. ApiOK'
      BY <2>2, <3>1, DeletionsAreGroups, PutTyped DEF ApiOK
    <3>4. todo \ {r} \in SUBSET DOMAIN snap
      BY DEF StepOK
    <3>5. StepOK'
      BY <2>1, <3>2, <3>4, LoopTyped
    <3>6. QED
      BY <2>1, <3>2, <3>3, <3>5
  <2>3. CASE r \notin DOMAIN cos
    <3>1. At("status", {}) /\ Keep /\ queued' = TRUE /\ UNCHANGED api
      BY <1>8, <2>3 DEF PruneArchived
    <3>2. StepOK'
      BY <2>1, <3>1, LoopTyped
    <3>3. QED
      BY <2>1, <3>1, <3>2, SameApiTyped
  <2>4. QED
    BY <2>2, <2>3
<1>9. CASE UpdateStatus
  <2> DEFINE status == StatusFrom(snap, codSnap.gen)
  <2>1. /\ cache' \in Groups /\ codCache' \in CODs /\ budget' \in [Disturbances -> Nat]
        /\ superseded' \subseteq Revisions /\ ApiOK'
    BY <1>9, SameApiTyped DEF UpdateStatus, RestOK
  <2>2. codSnap \in CODs
    BY <1>9 DEF UpdateStatus, StepOK
  <2>3. status \in Statuses
    BY <2>2, StatusTyped DEF CODs, StepOK
  <2>4. [cod EXCEPT !.status = status] \in CODs
    BY <2>3 DEF CODs, RestOK
  <2>5. /\ cod' = cod \/ cod' = [cod EXCEPT !.status = status]
        /\ Idle(TRUE) \/ Idle(FALSE)
    BY <1>9 DEF UpdateStatus
  <2>6. cod' \in CODs
    BY <2>4, <2>5 DEF RestOK
  <2>7. StepOK' /\ queued' \in BOOLEAN
    BY <2>5, IdleTyped
  <2>8. QED
    BY <2>1, <2>6, <2>7 DEF RestOK
<1>10. QED
  BY <1>1, <1>2, <1>3, <1>5, <1>6, <1>7, <1>8, <1>9 DEF Reconcile

LEMMA HeadTailTyped ==
  ASSUME ApiOK, stream # <<>>
  PROVE  Head(stream) \in Groups /\ Tail(stream) \in Seq(Groups)
BY DEF ApiOK

\* So does everybody else's.
LEMMA SameStepTyped ==
  ASSUME StepOK, UNCHANGED step
  PROVE  StepOK'
BY DEF StepOK, step

LEMMA SpendTyped ==
  ASSUME RestOK, NEW what \in Disturbances, Spend(what)
  PROVE  budget' \in [Disturbances -> Nat]
<1>1. budget[what] \in Nat /\ budget[what] > 0
  BY DEF RestOK, Spend
<1>2. budget[what] - 1 \in Nat
  BY <1>1
<1>3. budget' = [budget EXCEPT ![what] = budget[what] - 1]
  BY DEF Spend
<1>4. QED
  BY <1>2, <1>3 DEF RestOK

LEMMA InformerTyped == TypeInv /\ Informer => TypeInv'
<1> SUFFICES ASSUME TypeInv, Informer PROVE TypeInv'
  OBVIOUS
<1> USE DEF TypeInv
<1>1. CASE DeliverCOS
  <2>1. stream # <<>>
    BY <1>1 DEF DeliverCOS
  <2>2. cache' \in Groups /\ stream' \in Seq(Groups)
    BY <1>1, <2>1, HeadTailTyped DEF DeliverCOS
  <2>3. UNCHANGED step
    BY <1>1 DEF DeliverCOS
  <2>4. QED
    BY <1>1, <2>2, <2>3, SameStepTyped DEF DeliverCOS, ApiOK, RestOK
<1>2. CASE DeliverCOD
  <2>1. UNCHANGED step /\ UNCHANGED api
    BY <1>2 DEF DeliverCOD
  <2>2. QED
    BY <1>2, <2>1, SameStepTyped, SameApiTyped DEF DeliverCOD, RestOK
<1>3. QED
  BY <1>1, <1>2 DEF Informer

\* Every write of somebody else to a revision leaves a group.
LEMMA WritesTyped ==
  ASSUME TypeInv, NEW g \in Groups, Put(g), External, UNCHANGED cod,
         budget' \in [Disturbances -> Nat]
  PROVE  TypeInv'
<1>1. ApiOK'
  BY PutTyped DEF TypeInv
<1>2. UNCHANGED step
  BY DEF External
<1>3. QED
  BY <1>1, <1>2, SameStepTyped DEF TypeInv, External, RestOK

LEMMA COSControllerTyped == TypeInv /\ COSController => TypeInv'
<1> SUFFICES ASSUME TypeInv, NEW r \in DOMAIN cos,
                    RollOut(r) \/ Degrade(r) \/ Finalize(r)
             PROVE  TypeInv'
  BY DEF COSController
<1>1. cos \in Groups /\ RestOK
  BY DEF TypeInv, ApiOK
<1>2. CASE RollOut(r)
  <2>1. [cos EXCEPT ![r].rollout = "Available"] \in Groups
    BY <1>1, RolledIsGroup DEF Rollouts
  <2>2. QED
    BY <1>1, <1>2, <2>1, WritesTyped DEF RollOut, RestOK
<1>3. CASE Degrade(r)
  <2>1. [cos EXCEPT ![r].rollout = "Degraded"] \in Groups
    BY <1>1, RolledIsGroup DEF Rollouts
  <2>2. budget' \in [Disturbances -> Nat]
    BY <1>1, <1>3, SpendTyped DEF Degrade, Disturbances, RestOK
  <2>3. QED
    BY <1>3, <2>1, <2>2, WritesTyped DEF Degrade
<1>4. CASE Finalize(r)
  <2>1. Without(cos, r) \in Groups
    BY <1>1, WithoutIsGroup
  <2>2. QED
    BY <1>1, <1>4, <2>1, WritesTyped DEF Finalize, RestOK
<1>5. QED
  BY <1>2, <1>3, <1>4

LEMMA UserTyped == TypeInv /\ User => TypeInv'
<1> SUFFICES ASSUME TypeInv, User PROVE TypeInv'
  OBVIOUS
<1>1. cos \in Groups /\ RestOK
  BY DEF TypeInv, ApiOK
<1>2. ASSUME NEW h \in Templates, EditTemplate(h) PROVE TypeInv'
  <2>1. budget' \in [Disturbances -> Nat]
    BY <1>1, <1>2, SpendTyped DEF EditTemplate, Disturbances
  <2>2. cod.gen + 1 \in Nat
    BY <1>1 DEF RestOK, CODs
  <2>3. cod' = [cod EXCEPT !.gen = cod.gen + 1, !.hash = h]
    BY <1>2 DEF EditTemplate
  <2>4. cod' \in CODs
    BY <1>1, <2>2, <2>3 DEF RestOK, CODs
  <2>5. UNCHANGED step /\ UNCHANGED api /\ UNCHANGED <<cache, codCache, queued, superseded>>
    BY <1>2 DEF EditTemplate, External
  <2>6. QED
    BY <2>1, <2>4, <2>5, SameStepTyped, SameApiTyped DEF TypeInv, RestOK
<1>3. ASSUME NEW r \in DOMAIN cos, UserArchive(r) PROVE TypeInv'
  <2>1. [cos EXCEPT ![r].archived = TRUE] \in Groups
    BY <1>1, ArchivedIsGroup
  <2>2. budget' \in [Disturbances -> Nat]
    BY <1>1, <1>3, SpendTyped DEF UserArchive, Disturbances
  <2>3. QED
    BY <1>3, <2>1, <2>2, WritesTyped DEF UserArchive
<1>4. ASSUME NEW r \in DOMAIN cos, UserDelete(r) PROVE TypeInv'
  <2>1. PICK g \in Deletions(cos, r) : Put(g)
    BY <1>4 DEF UserDelete
  <2>2. g \in Groups
    BY <1>1, DeletionsAreGroups
  <2>3. budget' \in [Disturbances -> Nat]
    BY <1>1, <1>4, SpendTyped DEF UserDelete, Disturbances
  <2>4. QED
    BY <1>4, <2>1, <2>2, <2>3, WritesTyped DEF UserDelete
<1>5. QED
  BY <1>2, <1>3, <1>4 DEF User

LEMMA FaultTyped == TypeInv /\ (Fail \/ Crash) => TypeInv'
<1> SUFFICES ASSUME TypeInv, Fail \/ Crash PROVE TypeInv'
  OBVIOUS
<1> USE DEF TypeInv
<1>1. Spend("fault")
  BY DEF Fail, Crash
<1>2. budget' \in [Disturbances -> Nat]
  BY <1>1, SpendTyped DEF Disturbances
<1>3. CASE Fail
  <2>1. UNCHANGED <<api, cache, cod, codCache, superseded>> /\ pc # "idle"
    BY <1>3 DEF Fail
  <2>2. CASE pc \in {"archive", "prune"}
    <3>1. At("status", {}) /\ Keep /\ queued' = TRUE
      BY <1>3, <2>2 DEF Fail
    <3>2. StepOK'
      BY <2>1, <3>1, LoopTyped
    <3>3. QED
      BY <1>2, <2>1, <3>1, <3>2, SameApiTyped DEF RestOK
  <2>3. CASE pc \notin {"archive", "prune"}
    <3>1. Idle(TRUE)
      BY <1>3, <2>3 DEF Fail
    <3>2. QED
      BY <1>2, <2>1, <3>1, IdleTyped, SameApiTyped DEF RestOK
  <2>4. QED
    BY <2>2, <2>3
<1>4. CASE Crash
  <2>1. StepOK'
    BY <1>4, EmptyIsGroup DEF Crash, At, StepOK
  <2>2. ApiOK'
    BY <1>4 DEF Crash, ApiOK
  <2>3. RestOK' /\ queued' \in BOOLEAN
    BY <1>2, <1>4 DEF Crash, RestOK, ApiOK
  <2>4. QED
    BY <2>1, <2>2, <2>3
<1>5. QED
  BY <1>3, <1>4

LEMMA StutterTyped == TypeInv /\ UNCHANGED vars => TypeInv'
<1> SUFFICES ASSUME TypeInv, UNCHANGED vars PROVE TypeInv'
  OBVIOUS
<1>1. UNCHANGED api /\ UNCHANGED step
      /\ UNCHANGED <<cache, cod, codCache, queued, budget, superseded>>
  BY DEF vars, api, step
<1>2. QED
  BY <1>1, SameApiTyped, SameStepTyped DEF TypeInv, RestOK

LEMMA NextTyped == TypeInv /\ [Next]_vars => TypeInv'
BY ReconcileTyped, InformerTyped, COSControllerTyped, UserTyped, FaultTyped,
   StutterTyped DEF Next

THEOREM TypeInvariant == Spec => []TypeInv
BY InitTyped, NextTyped, PTL DEF Spec

\* Every variable always holds a value of its kind: in particular a reconcile
\* only ever works on revisions of its own listing and never runs without a
\* deployment (controller.go Reconcile, reconcile).
THEOREM TypeCorrect == Spec => []TypeOK
BY TypeInvariant, TypeInvIsTypeOK, PTL
-----------------------------------------------------------------------------
(* Superseding needs a success.  What any copy of the group, however old,  *)
(* shows as available has been available at the API server, and "has been" *)
(* does not age: succeeded only grows.                                     *)

Shows(g, S) == \A r \in DOMAIN g : g[r].rollout = "Available" => r \in S

Beaten(S) == \E q \in succeeded : \A r \in S : r < q

ApiEvidence == Shows(cos, succeeded) /\ \A i \in 1 .. Len(stream) : Shows(stream[i], succeeded)

StepEvidence == Shows(snap, succeeded) /\ (pc = "archive" => Beaten(todo))

SuccessInv == ApiEvidence /\ Shows(cache, succeeded) /\ StepEvidence /\ SupersededBySuccess

LEMMA ShowsGrows ==
  ASSUME NEW g, NEW S, NEW T, S \subseteq T, Shows(g, S)
  PROVE  Shows(g, T)
BY DEF Shows

LEMMA SameApiEvidence ==
  ASSUME ApiEvidence, UNCHANGED api
  PROVE  ApiEvidence' /\ succeeded' = succeeded
BY DEF ApiEvidence, api

LEMMA PutEvidence ==
  ASSUME ApiOK, ApiEvidence, NEW g \in Groups, Put(g)
  PROVE  ApiEvidence' /\ succeeded \subseteq succeeded'
<1>1. CASE g = cos
  BY <1>1, SameApiEvidence DEF Put
<1>2. CASE g # cos
  <2>1. /\ cos' = g /\ stream' = Append(stream, g)
        /\ succeeded' = succeeded \cup {r \in DOMAIN g : g[r].rollout = "Available"}
    BY <1>2 DEF Put
  <2>2. succeeded \subseteq succeeded' /\ Shows(g, succeeded')
    BY <2>1 DEF Shows
  <2>3. stream \in Seq(Groups)
    BY DEF ApiOK
  <2>4. ASSUME NEW i \in 1 .. Len(stream') PROVE Shows(stream'[i], succeeded')
    <3>1. CASE i \in 1 .. Len(stream)
      <4>1. stream'[i] = stream[i]
        BY <2>1, <2>3, <3>1
      <4>2. Shows(stream[i], succeeded)
        BY <3>1 DEF ApiEvidence
      <4>3. QED
        BY <2>2, <4>1, <4>2, ShowsGrows
    <3>2. CASE i \notin 1 .. Len(stream)
      <4>1. i = Len(stream) + 1
        BY <2>1, <2>3, <3>2
      <4>2. stream'[i] = g
        BY <2>1, <2>3, <4>1
      <4>3. QED
        BY <2>2, <4>2
    <3>3. QED
      BY <3>1, <3>2
  <2>5. QED
    BY <2>1, <2>2, <2>4 DEF ApiEvidence
<1>3. QED
  BY <1>1, <1>2

\* A step that does not enter the archiving loop and archives nothing keeps
\* the evidence if its write to the API server does.
LEMMA QuietEvidence ==
  ASSUME SuccessInv, ApiEvidence', succeeded \subseteq succeeded',
         UNCHANGED <<cache, superseded>>,
         snap' = snap \/ snap' = EmptyGroup,
         pc' = "archive" => pc = "archive" /\ todo' = todo
  PROVE  SuccessInv'
<1>1. Shows(cache, succeeded)'
  BY ShowsGrows DEF SuccessInv
<1>2. Shows(snap, succeeded)'
  <2>1. Shows(EmptyGroup, succeeded')
    BY EmptyIsGroup DEF Shows
  <2>2. Shows(snap, succeeded')
    BY ShowsGrows DEF SuccessInv, StepEvidence
  <2>3. QED
    BY <2>1, <2>2
<1>3. pc' = "archive" => Beaten(todo)'
  BY DEF SuccessInv, StepEvidence, Beaten
<1>4. SupersededBySuccess'
  BY DEF SuccessInv, SupersededBySuccess
<1>5. QED
  BY <1>1, <1>2, <1>3, <1>4 DEF SuccessInv, StepEvidence

\* The archiving loop starts with the listed revisions below an available one.
LEMMA ToWritesEvidence ==
  ASSUME TypeInv, SuccessInv, ApiEvidence', succeeded \subseteq succeeded',
         UNCHANGED <<cache, superseded>>, ToWrites
  PROVE  SuccessInv'
<1>1. Shows(cache, succeeded)' /\ Shows(snap, succeeded)'
  <2>1. snap' = snap
    BY DEF ToWrites, Keep
  <2>2. QED
    BY <2>1, ShowsGrows DEF SuccessInv, StepEvidence
<1>2. ASSUME pc' = "archive" PROVE Beaten(todo)'
  <2>1. Superseded(snap) # {} /\ todo' = Superseded(snap)
    BY <1>2 DEF ToWrites, At
  <2>2. PICK q \in DOMAIN snap : /\ snap[q].rollout = "Available"
                                 /\ \A r \in Superseded(snap) : r < q
    BY <2>1, SupersededBelowAvailable DEF TypeInv, StepOK
  <2>3. q \in succeeded'
    BY <2>2 DEF SuccessInv, StepEvidence, Shows
  <2>4. QED
    BY <2>1, <2>2, <2>3 DEF Beaten
<1>3. SupersededBySuccess'
  BY DEF SuccessInv, SupersededBySuccess
<1>4. QED
  BY <1>1, <1>2, <1>3 DEF SuccessInv, StepEvidence

LEMMA InitEvidence == Init => SuccessInv
<1> SUFFICES ASSUME Init PROVE SuccessInv
  OBVIOUS
<1>1. cos \in Groups /\ cache = cos
  BY GroupIs, ControllerAssumption DEF Init
<1>2. Shows(cos, succeeded)
  BY <1>1 DEF Init, Shows
<1>3. Shows(snap, succeeded)
  BY EmptyIsGroup DEF Init, Shows
<1>4. 1 .. Len(stream) = {}
  BY DEF Init
<1>5. QED
  BY <1>1, <1>2, <1>3, <1>4
  DEF Init, SuccessInv, ApiEvidence, StepEvidence, SupersededBySuccess

LEMMA ReconcileEvidence == TypeInv /\ SuccessInv /\ Reconcile => SuccessInv'
<1> SUFFICES ASSUME TypeInv, SuccessInv, Reconcile PROVE SuccessInv'
  OBVIOUS
<1>1. ApiOK /\ ApiEvidence /\ cos \in Groups /\ snap \in Groups
  BY DEF TypeInv, SuccessInv, ApiOK, StepOK
<1>2. ASSUME Idle(TRUE) \/ Idle(FALSE), ApiEvidence', succeeded \subseteq succeeded',
             UNCHANGED <<cache, superseded>>
      PROVE  SuccessInv'
  BY <1>2, QuietEvidence DEF Idle, At
<1>3. CASE Start
  <2>1. ApiEvidence' /\ succeeded' = succeeded
    BY <1>1, <1>3, SameApiEvidence DEF Start
  <2>2. cache' = cache /\ snap' = cache /\ pc' = "adopt" /\ superseded' = superseded
    BY <1>3 DEF Start, At
  <2>3. QED
    BY <2>1, <2>2 DEF SuccessInv, StepEvidence, SupersededBySuccess
<1>4. CASE Adopt
  <2> DEFINE r == Min(todo)
  <2>1. UNCHANGED <<cache, superseded>>
    BY <1>4 DEF Adopt
  <2>2. CASE r \in DOMAIN cos /\ cos[r].owner # "other"
    <3>1. Put([cos EXCEPT ![r].owner = "cod"]) /\ snap' = snap /\ pc' = "adopt"
      BY <1>4, <2>2 DEF Adopt, At, Keep
    <3>2. ApiEvidence' /\ succeeded \subseteq succeeded'
      BY <1>1, <2>2, <3>1, OwnedIsGroup, PutEvidence
    <3>3. QED
      BY <2>1, <3>1, <3>2, QuietEvidence
  <2>3. CASE ~(r \in DOMAIN cos /\ cos[r].owner # "other")
    <3>1. Idle(TRUE) /\ UNCHANGED api
      BY <1>4, <2>3 DEF Adopt
    <3>2. QED
      BY <1>1, <1>2, <2>1, <3>1, SameApiEvidence
  <2>4. QED
    BY <2>2, <2>3
<1>5. CASE CreateRevision
  <2> DEFINE n == NextRevision(snap)
  <2>1. UNCHANGED <<cache, superseded>> /\ n \in Revisions /\ codSnap.hash \in Templates
    BY <1>5 DEF CreateRevision, Synced, TypeInv, StepOK, CODs
  <2>2. CASE n \in DOMAIN cos
    <3>1. Idle(TRUE) /\ UNCHANGED api
      BY <1>5, <2>2 DEF CreateRevision
    <3>2. QED
      BY <1>1, <1>2, <2>1, <3>1, SameApiEvidence
  <2>3. CASE n \notin DOMAIN cos
    <3>1. Put(Store(cos, n, NewCOS(codSnap.hash, FALSE))) /\ snap' = snap /\ pc' = "claim"
      BY <1>5, <2>3 DEF CreateRevision, At, Keep
    <3>2. Store(cos, n, NewCOS(codSnap.hash, FALSE)) \in Groups
      BY <1>1, <2>1, NewIsCOS, StoreIsGroup
    <3>3. ApiEvidence' /\ succeeded \subseteq succeeded'
      BY <1>1, <3>1, <3>2, PutEvidence
    <3>4. QED
      BY <2>1, <3>1, <3>3, QuietEvidence
  <2>4. QED
    BY <2>2, <2>3
<1>6. ASSUME NEW r \in Revisions, ApplyDesired(r), codSnap.hash \in Templates,
             UNCHANGED <<cache, superseded>>
      PROVE  SuccessInv'
  <2>1. CASE AcceptsDesired(cos, r, codSnap.hash)
    <3>1. Put(WithDesired(cos, r, codSnap.hash)) /\ ToWrites
      BY <1>6, <2>1 DEF ApplyDesired
    <3>2. WithDesired(cos, r, codSnap.hash) \in Groups
      BY <1>1, <1>6, DesiredIsGroup
    <3>3. ApiEvidence' /\ succeeded \subseteq succeeded'
      BY <1>1, <3>1, <3>2, PutEvidence
    <3>4. QED
      BY <1>6, <3>1, <3>3, ToWritesEvidence
  <2>2. CASE ~AcceptsDesired(cos, r, codSnap.hash)
    <3>1. Idle(TRUE) /\ UNCHANGED api
      BY <1>6, <2>2 DEF ApplyDesired
    <3>2. QED
      BY <1>1, <1>2, <1>6, <3>1, SameApiEvidence
  <2>3. QED
    BY <2>1, <2>2
<1>7. CASE ClaimRevision
  <2>1. /\ ApplyDesired(NextRevision(snap)) /\ UNCHANGED <<cache, superseded>>
        /\ NextRevision(snap) \in Revisions /\ codSnap.hash \in Templates
    BY <1>7 DEF ClaimRevision, TypeInv, StepOK, CODs
  <2>2. QED
    BY <1>6, <2>1
<1>8. CASE EnsureFieldOwnership
  <2> DEFINE latest == Max(ActiveOwned(snap))
  <2>1. /\ UNCHANGED <<cache, superseded>> /\ codSnap.hash \in Templates
        /\ ActiveOwned(snap) # {}
    BY <1>8 DEF EnsureFieldOwnership, Synced, NeedsRevision, TypeInv, StepOK, CODs
  <2>2. latest \in Revisions
    BY <1>1, <2>1, LatestActive
  <2>3. CASE snap[latest].claimed
    <3>1. ToWrites /\ UNCHANGED api
      BY <1>8, <2>3 DEF EnsureFieldOwnership
    <3>2. ApiEvidence' /\ succeeded' = succeeded
      BY <1>1, <3>1, SameApiEvidence
    <3>3. QED
      BY <2>1, <3>1, <3>2, ToWritesEvidence
  <2>4. CASE ~snap[latest].claimed
    <3>1. ApplyDesired(latest)
      BY <1>8, <2>4 DEF EnsureFieldOwnership
    <3>2. QED
      BY <1>6, <2>1, <2>2, <3>1
  <2>5. QED
    BY <2>3, <2>4
<1>9. CASE ArchiveSuperseded
  <2> DEFINE r == Min(todo)
             rest == todo \ {r}
  <2>1. cache' = cache /\ pc = "archive" /\ Beaten(todo)
    BY <1>9 DEF ArchiveSuperseded, SuccessInv, StepEvidence
  <2>2. CASE AcceptsArchived(cos, snap, r)
    <3>1. /\ Put(WithArchived(cos, snap, r))
          /\ superseded' = superseded \cup {r}
          /\ snap' = snap
          /\ pc' = "archive" => todo' = rest
      BY <1>9, <2>2 DEF ArchiveSuperseded, At, Keep
    <3>2. r \in todo /\ r \in DOMAIN snap
      BY <2>1, LeastTodo DEF TypeInv, StepOK
    <3>3. ApiEvidence' /\ succeeded \subseteq succeeded'
      BY <1>1, <3>1, <3>2, WithArchivedIsGroup, PutEvidence
    <3>4. Shows(cache, succeeded)' /\ Shows(snap, succeeded)'
      BY <2>1, <3>1, <3>3, ShowsGrows DEF SuccessInv, StepEvidence
    <3>5. PICK q \in succeeded : \A x \in todo : x < q
      BY <2>1 DEF Beaten
    <3>6. pc' = "archive" => Beaten(todo)'
      BY <3>1, <3>3, <3>5 DEF Beaten
    <3>7. q > r
      <4>1. r < q
        BY <3>2, <3>5
      <4>2. QED
        BY <4>1
    <3>8. SupersededBySuccess'
      <4>1. \A x \in superseded : \E y \in succeeded' : y > x
        BY <3>3 DEF SuccessInv, SupersededBySuccess
      <4>2. \A x \in superseded' : \E y \in succeeded' : y > x
        BY <3>1, <3>3, <3>7, <4>1
      <4>3. QED
        BY <4>2 DEF SupersededBySuccess
    <3>9. QED
      BY <3>3, <3>4, <3>6, <3>8 DEF SuccessInv, StepEvidence
  <2>3. CASE ~AcceptsArchived(cos, snap, r)
    <3>1. pc' = "status" /\ snap' = snap /\ UNCHANGED <<api, superseded>>
      BY <1>9, <2>3 DEF ArchiveSuperseded, At, Keep
    <3>2. QED
      BY <1>1, <2>1, <3>1, SameApiEvidence, QuietEvidence
  <2>4. QED
    BY <2>2, <2>3
<1>10. CASE PruneArchived
  <2> DEFINE r == Min(todo)
  <2>1. UNCHANGED <<cache, superseded>>
    BY <1>10 DEF PruneArchived
  <2>2. CASE r \in DOMAIN cos
    <3>1. PICK g \in Deletions(cos, r) : Put(g)
      BY <1>10, <2>2 DEF PruneArchived
    <3>2. snap' = snap /\ pc' = "prune"
      BY <1>10, <2>2 DEF PruneArchived, At, Keep
    <3>3. ApiEvidence' /\ succeeded \subseteq succeeded'
      BY <1>1, <2>2, <3>1, DeletionsAreGroups, PutEvidence
    <3>4. QED
      BY <2>1, <3>2, <3>3, QuietEvidence
  <2>3. CASE r \notin DOMAIN cos
    <3>1. pc' = "status" /\ snap' = snap /\ UNCHANGED api
      BY <1>10, <2>3 DEF PruneArchived, At, Keep
    <3>2. QED
      BY <1>1, <2>1, <3>1, SameApiEvidence, QuietEvidence
  <2>4. QED
    BY <2>2, <2>3
<1>11. CASE UpdateStatus
  <2>1. UNCHANGED <<cache, superseded>> /\ UNCHANGED api /\ (Idle(TRUE) \/ Idle(FALSE))
    BY <1>11 DEF UpdateStatus
  <2>2. QED
    BY <1>1, <1>2, <2>1, SameApiEvidence
<1>12. QED
  BY <1>3, <1>4, <1>5, <1>7, <1>8, <1>9, <1>10, <1>11 DEF Reconcile

LEMMA InformerEvidence == TypeInv /\ SuccessInv /\ Informer => SuccessInv'
<1> SUFFICES ASSUME TypeInv, SuccessInv, Informer PROVE SuccessInv'
  OBVIOUS
<1>1. CASE DeliverCOS
  <2>1. stream \in Seq(Groups) /\ stream # <<>>
    BY <1>1 DEF DeliverCOS, TypeInv, ApiOK
  <2>2. cache' = stream[1] /\ stream' = Tail(stream)
        /\ UNCHANGED <<cos, succeeded, superseded, snap, pc, todo>>
    BY <1>1 DEF DeliverCOS, step
  <2>3. Shows(cache, succeeded)'
    <3>1. 1 \in 1 .. Len(stream)
      BY <2>1
    <3>2. QED
      BY <2>2, <3>1 DEF SuccessInv, ApiEvidence
  <2>4. ASSUME NEW i \in 1 .. Len(stream') PROVE Shows(stream'[i], succeeded')
    <3>1. i + 1 \in 1 .. Len(stream) /\ stream'[i] = stream[i + 1]
      BY <2>1, <2>2
    <3>2. QED
      BY <2>2, <3>1 DEF SuccessInv, ApiEvidence
  <2>5. QED
    BY <2>2, <2>3, <2>4
    DEF SuccessInv, ApiEvidence, StepEvidence, Beaten, SupersededBySuccess
<1>2. CASE DeliverCOD
  <2>1. UNCHANGED api /\ UNCHANGED <<cache, superseded, snap, pc, todo>>
    BY <1>2 DEF DeliverCOD, step
  <2>2. QED
    BY <2>1, SameApiEvidence, QuietEvidence DEF SuccessInv
<1>3. QED
  BY <1>1, <1>2 DEF Informer

LEMMA WritesEvidence ==
  ASSUME TypeInv, SuccessInv, NEW g \in Groups, Put(g), External
  PROVE  SuccessInv'
<1>1. ApiEvidence' /\ succeeded \subseteq succeeded'
  BY PutEvidence DEF TypeInv, SuccessInv
<1>2. UNCHANGED <<cache, superseded, snap, pc, todo>>
  BY DEF External, step
<1>3. QED
  BY <1>1, <1>2, QuietEvidence

LEMMA OthersEvidence ==
  TypeInv /\ SuccessInv /\ (COSController \/ User) => SuccessInv'
<1> SUFFICES ASSUME TypeInv, SuccessInv, COSController \/ User PROVE SuccessInv'
  OBVIOUS
<1>1. cos \in Groups
  BY DEF TypeInv, ApiOK
<1>2. CASE COSController
  <2> SUFFICES ASSUME NEW r \in DOMAIN cos, RollOut(r) \/ Degrade(r) \/ Finalize(r)
               PROVE  SuccessInv'
    BY <1>2 DEF COSController
  <2>1. /\ [cos EXCEPT ![r].rollout = "Available"] \in Groups
        /\ [cos EXCEPT ![r].rollout = "Degraded"] \in Groups
    BY <1>1, RolledIsGroup DEF Rollouts
  <2>2. Without(cos, r) \in Groups
    BY <1>1, WithoutIsGroup
  <2>3. \E g \in Groups : Put(g) /\ External
    BY <2>1, <2>2 DEF RollOut, Degrade, Finalize
  <2>4. QED
    BY <2>3, WritesEvidence
<1>3. CASE User
  <2>1. ASSUME NEW h \in Templates, EditTemplate(h) PROVE SuccessInv'
    <3>1. UNCHANGED api /\ UNCHANGED <<cache, superseded, snap, pc, todo>>
      BY <2>1 DEF EditTemplate, External, step
    <3>2. QED
      BY <3>1, SameApiEvidence, QuietEvidence DEF SuccessInv
  <2>2. ASSUME NEW r \in DOMAIN cos, UserArchive(r) \/ UserDelete(r) PROVE SuccessInv'
    <3>1. [cos EXCEPT ![r].archived = TRUE] \in Groups
      BY <1>1, ArchivedIsGroup
    <3>2. \A g \in Deletions(cos, r) : g \in Groups
      BY <1>1, DeletionsAreGroups
    <3>3. \E g \in Groups : Put(g) /\ External
      BY <2>2, <3>1, <3>2 DEF UserArchive, UserDelete
    <3>4. QED
      BY <3>3, WritesEvidence
  <2>3. QED
    BY <1>3, <2>1, <2>2 DEF User
<1>4. QED
  BY <1>2, <1>3

LEMMA FaultEvidence == TypeInv /\ SuccessInv /\ (Fail \/ Crash) => SuccessInv'
<1> SUFFICES ASSUME TypeInv, SuccessInv, Fail \/ Crash PROVE SuccessInv'
  OBVIOUS
<1>1. CASE Fail
  <2>1. UNCHANGED api /\ UNCHANGED <<cache, superseded>> /\ pc' \in {"status", "idle"}
        /\ (snap' = snap \/ snap' = EmptyGroup)
    BY <1>1 DEF Fail, Idle, At, Keep
  <2>2. QED
    BY <2>1, SameApiEvidence, QuietEvidence DEF SuccessInv
<1>2. CASE Crash
  <2>1. /\ UNCHANGED <<cos, succeeded, superseded>> /\ cache' = cos /\ stream' = <<>>
        /\ snap' = EmptyGroup /\ pc' = "idle"
    BY <1>2 DEF Crash, At
  <2>2. 1 .. Len(stream') = {}
    BY <2>1
  <2>3. Shows(EmptyGroup, succeeded)
    BY EmptyIsGroup DEF Shows
  <2>4. QED
    BY <2>1, <2>2, <2>3 DEF SuccessInv, ApiEvidence, StepEvidence, SupersededBySuccess
<1>3. QED
  BY <1>1, <1>2

LEMMA NextEvidence == TypeInv /\ SuccessInv /\ [Next]_vars => SuccessInv'
<1>1. TypeInv /\ SuccessInv /\ UNCHANGED vars => SuccessInv'
  BY SameApiEvidence, QuietEvidence DEF SuccessInv, vars, api
<1>2. QED
  BY <1>1, ReconcileEvidence, InformerEvidence, OthersEvidence, FaultEvidence DEF Next

\* archiveSuperseded never archives a revision that no higher one has beaten by
\* being rolled out completely, whatever stale listing the reconcile acts on
\* and whatever users, failures and restarts do meanwhile.
THEOREM SupersedingNeedsSuccess == Spec => []SupersededBySuccess
<1>1. SuccessInv => SupersededBySuccess
  BY DEF SuccessInv
<1>2. QED
  BY <1>1, InitEvidence, NextEvidence, TypeInvariant, PTL DEF Spec
=============================================================================
