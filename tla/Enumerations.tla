---------------------------- MODULE Enumerations ----------------------------
(***************************************************************************)
(* The elements of a finite set of numbers one by one, as the loops of the *)
(* program meet them: positions in a vector, or expectations in the order  *)
(* in which they were pushed onto their collection.                        *)
(***************************************************************************)
EXTENDS Integers, Sequences, FiniteSets

\* The k-th element is the one with k - 1 elements below it.
InOrder(S) ==
    [k \in 1 .. Cardinality(S) |->
        CHOOSE e \in S : Cardinality({f \in S : f < e}) = k - 1]

\* The collection is walked in reverse, and expectations are numbered in
\* the order they were pushed.
NewestFirst(S) ==
    LET ordered == InOrder(S)
    IN  [k \in 1 .. Cardinality(S) |-> ordered[Cardinality(S) + 1 - k]]

=============================================================================
