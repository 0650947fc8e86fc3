-------------------------- MODULE RevisionHistory --------------------------
(***************************************************************************)
(* What a ClusterObjectDeployment promises about the history of its        *)
(* revisions, with no controller, cache or API server in sight: revisions  *)
(* are numbered upwards, one is superseded only for a higher active one    *)
(* that has been rolled out, an archived one never comes back, and only    *)
(* archived ones beyond the history limit are dropped, oldest first.       *)
(***************************************************************************)
EXTENDS Naturals, FiniteSets

CONSTANTS Numbers, Limit

VARIABLES
  life,       \* what became of each revision number
  succeeded   \* revisions that have been rolled out completely

Lives == {"Unborn", "Active", "Archived", "Gone"}

Become(r, l) == life' = [life EXCEPT ![r] = l]

Stamp(n) ==
  /\ life[n] = "Unborn"
  /\ \A r \in Numbers : r >= n => life[r] = "Unborn"
  /\ Become(n, "Active")
  /\ UNCHANGED succeeded

Succeed(r) ==
  /\ life[r] = "Active"
  /\ succeeded' = succeeded \cup {r}
  /\ UNCHANGED life

Supersede(r) ==
  /\ life[r] = "Active"
  /\ \E q \in succeeded : q > r /\ life[q] = "Active"
  /\ Become(r, "Archived")
  /\ UNCHANGED succeeded

Drop(r) ==
  /\ life[r] = "Archived"
  /\ Cardinality({q \in Numbers : q > r /\ life[q] = "Archived"}) >= Limit
  /\ Become(r, "Gone")
  /\ UNCHANGED succeeded

Init == life = [r \in Numbers |-> "Unborn"] /\ succeeded = {}

Next == \E r \in Numbers :
  Stamp(r) \/ Succeed(r) \/ Supersede(r) \/ Drop(r)

Spec == Init /\ [][Next]_<<life, succeeded>>
=============================================================================
