------------------------ MODULE OrderedExpectations ------------------------
(***************************************************************************)
(* What sequences promise (the documentation at the head of Sequence.hpp), *)
(* without entries, states and cursors: "the expectation, which gets       *)
(* attached first must match before all subsequent expectations".  The     *)
(* state is only how often every expectation has been matched.             *)
(***************************************************************************)
EXTENDS Integers, Sequences

CONSTANTS
    SequenceNames, \* the sequences expectations can be attached to
    MaxTimes       \* bound: the largest upper times limit

VARIABLE promised \* all expectations ever created, oldest first

\* e may be matched: it has a match left, and in every sequence it is part
\* of, everything attached before it has had its minimum of matches and
\* nothing attached after it has been matched.
InTurn(e) ==
    /\ promised[e].alive
    /\ promised[e].count < promised[e].max
    /\ \A f \in 1 .. Len(promised) :
          promised[e].in \cap promised[f].in # {} =>
             /\ f < e => promised[f].count >= promised[f].min
             /\ f > e => promised[f].count = 0

Init == promised = << >>

Promised(least, most, in) ==
    /\ least <= most
    /\ promised' = Append(promised, [min |-> least, max |-> most, count |-> 0,
                                     in |-> in, alive |-> TRUE])

Matched(e) ==
    /\ InTurn(e)
    /\ promised' = [promised EXCEPT ![e].count = @ + 1]

Dropped(e) ==
    /\ promised[e].alive
    /\ promised' = [promised EXCEPT ![e].alive = FALSE]

Next ==
    \/ \E least, most \in 0 .. MaxTimes, in \in SUBSET SequenceNames :
          Promised(least, most, in)
    \/ \E e \in 1 .. Len(promised) : Matched(e) \/ Dropped(e)

Spec == Init /\ [][Next]_promised

=============================================================================
