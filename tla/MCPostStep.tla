----------------------------- MODULE MCPostStep -----------------------------
(* Three keys, one body, two nested locked sections, a queue of five entries. *)
EXTENDS PostStep
CONSTANTS k1, k2, k3, b1
MCKey == {k1, k2, k3}
MCBody == {b1}
=============================================================================
