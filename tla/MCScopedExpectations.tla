------------------------ MODULE MCScopedExpectations ------------------------
(* ScopedExpectations for TLC: the sequences the configurations name. *)
EXTENDS ScopedExpectations

CONSTANTS s1, s2
=============================================================================
