------------------------- MODULE MCRevisionRollout -------------------------
(* Instances of RevisionRollout for TLC.                                   *)
EXTENDS RevisionRollout

CONSTANTS dA, dB, s

\* An inline object with an assertion, then two from the same slice.
TwoPhases == <<{1}, {2, 3}>>
OneSlice  == [o \in 1 .. 3 |-> IF o = 1 THEN Inline ELSE s]
Inlined   == [o \in 1 .. 3 |-> dA]

Entry(k, packed, d) == [key |-> k, content |-> [packed |-> packed, data |-> d]]

\* Two contents, one of them compressed in part, and one that lacks an object.
SliceVersions ==
  {<<Entry(2, FALSE, dA), Entry(3, TRUE, dA)>>, <<Entry(2, TRUE, dB), Entry(3, FALSE, dB)>>,
   <<Entry(2, FALSE, dA), Entry(3, TRUE, Garbage)>>}

\* At most n disturbances, and of each kind at most the given number.
Disturb(n, kinds) ==
  [kind \in Disturbances |-> IF kind = "any" THEN n
                             ELSE IF kind \in DOMAIN kinds THEN kinds[kind] ELSE 0]

\* Something happens to an object or a call, or an archived revision has a slice
\* deleted or replaced.
Everything ==
  {Disturb(1, [drift |-> 1, taken |-> 1, fault |-> 1]),
   Disturb(2, [slice |-> 1, archive |-> 1])}
TwoDrifts == {Disturb(2, [drift |-> 2])}
=============================================================================
