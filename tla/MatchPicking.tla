---------------------------- MODULE MatchPicking ----------------------------
(***************************************************************************)
(* pick_best_match on the matches that a few expectations make: attached   *)
(* is the list of the expectations created, oldest first, each as the set  *)
(* of the sequences it is in.  None of them has a minimum, so that each is *)
(* applicable and every cursor is at its start; the position of the cursor *)
(* shifts all priorities of a sequence alike.  in_sequence may be given    *)
(* several times, but no sequence twice (Config's constructor throws).     *)
(***************************************************************************)
EXTENDS BasicSequence, BestMatch

CONSTANTS
    LazySequences,  \* sequences created as LazySequence
    GreedySequences \* sequences created as GreedySequence

\* A sequence has one strategy, and a program has finitely many sequences.
ASSUME SequencesAssumption ==
    /\ LazySequences \cap GreedySequences = {}
    /\ IsFiniteSet(LazySequences) /\ IsFiniteSet(GreedySequences)

SequenceNames == LazySequences \cup GreedySequences

\* The id of e in s: how many entries s had when e was created.
IdOf(attached, e, s) == Cardinality({f \in 1 .. e - 1 : s \in attached[f]})

Rating(attached, e) ==
    [s \in attached[e] |->
        IF s \in LazySequences THEN LazyPriority(IdOf(attached, e, s), 0)
                               ELSE GreedyPriority(IdOf(attached, e, s), 0)]

\* The match handle_call uses when exactly these expectations match.
Best(attached, matches) ==
    PickBestMatch(NewestFirst(matches), [e \in matches |-> Rating(attached, e)])

=============================================================================
