-------------------------- MODULE ObjectOwnership --------------------------
(***************************************************************************)
(* What the ClusterObjectSet controller promises about the owners of the   *)
(* objects of a group, without caches, phases, workers or retries: an      *)
(* object has at most one owner, which is protected as long as it has any  *)
(* object; among protected revisions ownership only moves up; objects are  *)
(* dropped only by revisions that leave.                                   *)
(***************************************************************************)
EXTENDS Naturals

CONSTANTS
  Revs,                       \* revision numbers of the group
  Objects,                    \* the cluster objects
  Missing, Unowned, Foreign,  \* owners that are not revisions of the group
  AdoptsFree                  \* whether objects without an owner are adopted

VARIABLES
  owner,   \* of each object
  stage    \* of each revision: "free", "held" or "leaving"

Init ==
  /\ owner = [o \in Objects |-> Missing]
  /\ stage = [r \in Revs |-> "free"]

\* A revision becomes protected, or begins to leave.
Enter(r, next) ==
  /\ stage[r] = "free" \/ (stage[r] = "held" /\ next = "leaving")
  /\ stage' = [stage EXCEPT ![r] = next]
  /\ UNCHANGED owner

\* A protected revision creates an object, or takes it over from an older one.
Claim(r, o) ==
  /\ stage[r] # "free"
  /\ \/ owner[o] = Missing
     \/ owner[o] = Unowned /\ AdoptsFree
     \/ owner[o] \in Revs /\ owner[o] < r
  /\ owner' = [owner EXCEPT ![o] = r]
  /\ UNCHANGED stage

\* A revision that leaves deletes its objects or sets them free ...
Drop(r, o) ==
  /\ owner[o] = r /\ stage[r] = "leaving"
  /\ \E x \in {Missing, Unowned} : owner' = [owner EXCEPT ![o] = x]
  /\ UNCHANGED stage

\* ... and is let go when it has none.
Leave(r) ==
  /\ stage[r] = "leaving" /\ \A o \in Objects : owner[o] # r
  /\ stage' = [stage EXCEPT ![r] = "free"]
  /\ UNCHANGED owner

\* Others delete objects and create their own.
Interfere(o) ==
  /\ \/ owner' = [owner EXCEPT ![o] = Missing]
     \/ /\ owner[o] = Missing
        /\ \E x \in {Unowned, Foreign} : owner' = [owner EXCEPT ![o] = x]
  /\ UNCHANGED stage

Next ==
  \/ \E r \in Revs : Leave(r) \/ \E next \in {"held", "leaving"} : Enter(r, next)
  \/ \E r \in Revs, o \in Objects : Claim(r, o) \/ Drop(r, o)
  \/ \E o \in Objects : Interfere(o)

Spec == Init /\ [][Next]_<<owner, stage>>
=============================================================================
