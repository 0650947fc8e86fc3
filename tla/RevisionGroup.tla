--------------------------- MODULE RevisionGroup ---------------------------
(***************************************************************************)
(* A revision group: the ClusterObjectSets that one ClusterObjectDeployment*)
(* has stamped, and the decisions the COD controller takes from a listing  *)
(* of them.  A group is a function from the revision numbers that exist to *)
(* the part of a ClusterObjectSet those decisions read.                    *)
(*                                                                         *)
(* There is no state here: the same operators are applied to the API       *)
(* server's objects, to the informer's copy and to the list one reconcile  *)
(* took from that copy.                                                    *)
(***************************************************************************)
EXTENDS Naturals, FiniteSets, FiniteSetsExt

CONSTANTS
  MaxRevision,  \* bound: the highest revision number a behaviour may use
  Templates,    \* the template hashes (label orb.../template-hash)
  HistoryLimit  \* spec.revisionHistoryLimit, or the default when it is unset

ASSUME GroupAssumption ==
  /\ MaxRevision \in Nat \ {0}
  /\ HistoryLimit \in Nat

Revisions == 1 .. MaxRevision

(***************************************************************************)
(* owner is the controller owner reference: this COD, none (an orphan), or *)
(* somebody else.  rollout condenses the status the COS controller writes: *)
(* Available  = condition Available is True (completedAt was set with it), *)
(* Degraded   = completedAt is set, Available is not True,                 *)
(* Progressing = completedAt was never set.                                *)
(* claimed says that the object's fields are owned by the cod-controller   *)
(* field manager through server-side apply.                                *)
(***************************************************************************)
Rollouts == {"Progressing", "Available", "Degraded"}

COS == [hash     : Templates,
        owner    : {"cod", "none", "other"},
        archived : BOOLEAN,
        deleting : BOOLEAN,
        rollout  : Rollouts,
        claimed  : BOOLEAN]

IsGroup(g) == DOMAIN g \subseteq Revisions /\ g \in [DOMAIN g -> COS]

EmptyGroup == [r \in {} |-> 0]

\* The object BuildCOS describes, as it is after the API server stored it.
NewCOS(h, isClaimed) ==
  [hash |-> h, owner |-> "cod", archived |-> FALSE, deleting |-> FALSE,
   rollout |-> "Progressing", claimed |-> isClaimed]

Store(g, r, c) == [q \in DOMAIN g \cup {r} |-> IF q = r THEN c ELSE g[q]]
Without(g, r)  == [q \in DOMAIN g \ {r} |-> g[q]]

-----------------------------------------------------------------------------
(* What one reconcile reads off its listing.                               *)

Orphans(g) == {r \in DOMAIN g : g[r].owner = "none"}

\* adoptOrphans: what was owned already, and what it has just adopted.
Owned(g) == {r \in DOMAIN g : g[r].owner # "other"}

IsActive(c) == ~c.archived /\ ~c.deleting

ActiveOwned(g) == {r \in Owned(g) : IsActive(g[r])}

\* nextRevisionNumber looks at every member of the group, not at the owned ones.
NextRevision(g) == Max({0} \cup DOMAIN g) + 1

\* Variant: compares the template with the oldest active revision.
NeedsRevisionOldest(g, h) ==
  ActiveOwned(g) # {} => g[Min(ActiveOwned(g))].hash # h

NeedsRevision(g, h) ==
  ActiveOwned(g) # {} => g[Max(ActiveOwned(g))].hash # h

\* Variants: the loop includes the latest revision; the latest one's status is
\* not looked at; any available revision will do; two revisions are too few.
SupersededWithLatest(g) ==
  IF Owned(g) = {} \/ g[Max(Owned(g))].rollout # "Available" THEN {}
  ELSE {r \in Owned(g) : ~g[r].archived}
SupersededUnchecked(g) == {r \in Owned(g) : r # Max(Owned(g)) /\ ~g[r].archived}
SupersededByAny(g) ==
  IF \E q \in Owned(g) : g[q].rollout = "Available" THEN SupersededUnchecked(g) ELSE {}
SupersededOffByOne(g) ==
  IF Cardinality(Owned(g)) < 3 \/ g[Max(Owned(g))].rollout # "Available" THEN {}
  ELSE SupersededUnchecked(g)

\* archiveSuperseded: "latest" is the last owned revision, whatever its
\* lifecycle state; nothing happens unless its listed status is Available.
Superseded(g) ==
  LET latest == Max(Owned(g))
  IN  IF Cardinality(Owned(g)) < 2 \/ g[latest].rollout # "Available"
      THEN {}
      ELSE {r \in Owned(g) \ {latest} : ~g[r].archived}

\* Variant: drops the newest archived revisions.
PrunableNewest(g) ==
  LET archived == {r \in Owned(g) : g[r].archived}
  IN  {r \in archived : Cardinality({q \in archived : q < r}) >= HistoryLimit}

\* pruneArchived: the lowest of the archived ones, as many as exceed the limit.
Prunable(g) ==
  LET archived == {r \in Owned(g) : g[r].archived}
  IN  {r \in archived : Cardinality({q \in archived : q > r}) >= HistoryLimit}

=============================================================================
