-------------------------- MODULE MCCODController --------------------------
(* Small instances of CODController for TLC.                               *)
EXTENDS CODController, TLC

CONSTANTS Edits, Degrades, Touches, Faults

MCBudget == [edit |-> Edits, degrade |-> Degrades, touch |-> Touches, fault |-> Faults]

\* No revision yet; one made by hand without a controller; one of somebody else.
Orphan(h) == [NewCOS(h, FALSE) EXCEPT !.owner = "none"]
Foreign(h) == [NewCOS(h, FALSE) EXCEPT !.owner = "other"]
Symmetry == Permutations(Templates)

MCFresh == {EmptyGroup}
MCAdopting == {EmptyGroup} \cup UNION {{1 :> Orphan(h), 1 :> Foreign(h)} : h \in Templates}

\* A transition with three active revisions, as a restarted operator finds it.
Stamped(h) == NewCOS(h, TRUE)
MCTransition == {1 :> Stamped(a) @@ 2 :> Stamped(b) @@ 3 :> Stamped(a) :
                   <<a, b>> \in {p \in Templates \X Templates : p[1] # p[2]}}
=============================================================================
