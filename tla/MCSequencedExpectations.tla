---------------------- MODULE MCSequencedExpectations ----------------------
(* SequencedExpectations for TLC: the sequences the configurations name. *)
EXTENDS SequencedExpectations

CONSTANTS lazy1, lazy2, greedy1
=============================================================================
