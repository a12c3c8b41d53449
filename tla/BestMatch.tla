----------------------------- MODULE BestMatch -----------------------------
(***************************************************************************)
(* How one of several matching expectations is picked:                     *)
(* sequence::detail::has_better_rating (Sequence.hpp) and                  *)
(* detail::pick_best_match (Expectation.hpp).  The ratings of a match are  *)
(* a function from the sequences the expectation is attached to to the     *)
(* priority each of them gives it.                                         *)
(***************************************************************************)
EXTENDS Enumerations

\* Faulty: a tie counts for rhs.
HasStrictlyBetterRating(lhs, rhs) ==
    \/ \E s \in DOMAIN lhs : s \notin DOMAIN rhs
    \/ LET lost == {s \in DOMAIN lhs : lhs[s] < rhs[s]}
       IN  Cardinality(lost) < Cardinality(DOMAIN lhs \ lost)

\* has_better_rating(lhs, rhs): a sequence of lhs that rhs is not attached
\* to ends the loop with true, whatever was counted before; otherwise the
\* priorities are compared sequence by sequence, a tie counting for lhs.
HasBetterRating(lhs, rhs) ==
    \/ \E s \in DOMAIN lhs : s \notin DOMAIN rhs
    \/ LET lost == {s \in DOMAIN lhs : lhs[s] < rhs[s]}
       IN  Cardinality(lost) <= Cardinality(DOMAIN lhs \ lost)

\* pick_best_match over the matches in the order they were collected (the
\* newest expectation first): one pass that keeps the best one seen so far.
PickBestMatch(matches, rating) ==
    LET best[n \in 1 .. Len(matches)] ==
            IF n = 1 \/ ~ HasBetterRating(rating[best[n - 1]], rating[matches[n]])
            THEN matches[n]
            ELSE best[n - 1]
    IN  best[Len(matches)]

LazyMajority(S, lazy) == Cardinality(S \cap lazy) > Cardinality(S \ lazy)

\* What the strategies of the sequences promise of a match, where expectation
\* e is in the sequences attached[e]: no match with the same sequences should
\* win over it, it is the oldest of those when most of their sequences are
\* lazy and the newest otherwise; one outside of sequences is used only when
\* it is the newest of all.
FollowsStrategy(attached, lazy, matches, best) ==
    LET newest == CHOOSE e \in matches : \A f \in matches : f <= e
    IN  /\ best \in matches
        /\ attached[newest] \subseteq attached[best]
        /\ \A f \in matches :
              /\ attached[best] \subseteq attached[f] /\ LazyMajority(attached[best], lazy)
                 => best <= f
              /\ attached[best] = attached[f] /\ ~ LazyMajority(attached[best], lazy)
                 => best >= f

=============================================================================
