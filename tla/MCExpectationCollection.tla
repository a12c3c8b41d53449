---------------------- MODULE MCExpectationCollection ----------------------
(* ExpectationCollection for TLC: two threads. *)
EXTENDS ExpectationCollection

CONSTANTS t1, t2
=============================================================================
