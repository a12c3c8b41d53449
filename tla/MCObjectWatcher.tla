--------------------------- MODULE MCObjectWatcher ---------------------------
(* ObjectWatcher for TLC: the places the configurations name. *)
EXTENDS ObjectWatcher, TLC

CONSTANTS o1, o2, o3

\* The places are alike.
Places == Permutations(Objects)
=============================================================================
