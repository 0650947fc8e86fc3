--------------------------- MODULE MCGatedRollout ---------------------------
(* An instance of GatedRollout for TLC.                                    *)
EXTENDS GatedRollout

\* One disturbance of any kind.
Disturb == [kind \in Disturbances |-> 1]
=============================================================================
