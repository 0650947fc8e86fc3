-------------------------- MODULE MCCOSController --------------------------
(* Instances of COSController for TLC.                                     *)
EXTENDS COSController

\* One revision with three phases.
Single == [r \in {1} |-> <<{1}, {2}, {3}>>]

\* Two revisions, the second with one of the first one's objects.
Nested == [r \in {1, 2} |-> IF r = 1 THEN <<{1, 2}>> ELSE <<{2}>>]

\* Two revisions with the same two objects in opposite order.
Swapped == [r \in {1, 2} |-> IF r = 1 THEN <<{1}, {2}>> ELSE <<{2}, {1}>>]

\* Two revisions of one and the same object.
Same == [r \in {1, 2} |-> <<{1}>>]

\* At most n disturbances of the given kinds, each at most once.
Disturb(n, kinds) ==
  [kind \in Disturbances |-> IF kind = "any" THEN n ELSE IF kind \in kinds THEN 1 ELSE 0]

Everything == Disturb(3, Disturbances)
Handover   == Disturb(1, {"touch", "fault"})
Incidents  == Disturb(1, {"drift", "fault"})
OnlyUsers  == Disturb(1, {"touch"})
=============================================================================
