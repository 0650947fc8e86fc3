-------------------------- MODULE MCFieldOwnership --------------------------
(* The revision with at most two disturbances, of any kinds.               *)
EXTENDS FieldOwnership

TwoDisturbances ==
  LET Times(k) == [l \in Kind |-> IF l = k THEN 1 ELSE 0]
  IN {[l \in Kind |-> Times(k)[l] + Times(m)[l]] : k, m \in Kind}
=============================================================================
