----------------------- MODULE SequencedExpectations -----------------------
(***************************************************************************)
(* The core of mimic++, one thread of control: expectations with a times   *)
(* limit (ControlPolicy), the sequences they are attached to               *)
(* (BasicSequence), and the calls that match and consume them              *)
(* (ExpectationCollection::handle_call taken as one step).                 *)
(*                                                                         *)
(* Expectations are numbered in the order they are created, which is the   *)
(* order in which every collection pushes them and every sequence adds     *)
(* them.  Which expectations the matchers of a call accept is left open:   *)
(* a call may be accepted by any subset of the living expectations, as     *)
(* one mock with arbitrary matchers can bring about; expectations of       *)
(* other mocks, and expectations whose matcher throws and which            *)
(* make_match_report therefore skips, are simply not in the subset.        *)
(*                                                                         *)
(* The reporter is one that records and returns, as the tests' reporter    *)
(* does; expectations and sequences that have been destroyed keep their    *)
(* last value, so that properties can speak about them.                    *)
(***************************************************************************)
EXTENDS BasicSequence, BestMatch

CONSTANTS
    LazySequences,   \* sequences created as LazySequence
    GreedySequences, \* sequences created as GreedySequence
    MaxExpectations, \* bound: expectations ever created
    MaxTimes         \* bound: the largest upper times limit

ASSUME BoundsAssumption == MaxExpectations \in Nat /\ MaxTimes \in Nat

\* A sequence has one strategy, and a program has finitely many sequences.
ASSUME SequencesAssumption ==
    /\ LazySequences \cap GreedySequences = {}
    /\ IsFiniteSet(LazySequences) /\ IsFiniteSet(GreedySequences)

SequenceNames == LazySequences \cup GreedySequences

VARIABLES
    sequence,     \* the value of every sequence
    held,         \* does the user's LazySequence/GreedySequence object live?
    expectations, \* all expectations ever created, oldest first
    asserted,     \* did every assert() evaluated so far hold?
    report        \* what the last step reported

vars == <<sequence, held, expectations, asserted, report>>

Created == 1 .. Len(expectations)
Alive == {e \in Created : expectations[e].alive}
Attached(s) == {e \in Created : s \in DOMAIN expectations[e].ids}
IdOf(e, s) == expectations[e].ids[s]

-----------------------------------------------------------------------------
(* ControlPolicy *)

\* detail::TimesConfig: any other pair of limits throws invalid_argument.
TimesConfig == {t \in (0 .. MaxTimes) \X (0 .. MaxTimes) : t[1] <= t[2]}

ExpectationRecord ==
    [min : 0 .. MaxTimes, max : 0 .. MaxTimes, count : 0 .. MaxTimes,
     ids : UNION {[S -> 0 .. MaxExpectations] : S \in SUBSET SequenceNames},
     alive : BOOLEAN]

IsSatisfied(x) == x.min <= x.count /\ x.count <= x.max

\* The assertion at the head of ControlPolicy::consume.
IsApplicable(x) ==
    /\ x.count < x.max
    /\ \A s \in DOMAIN x.ids : IsConsumable(sequence[s], x.ids[s])

\* Faulty: the count is left to the sequences.
ControlStateOfSequences(x) ==
    IF \E s \in DOMAIN x.ids : ~ IsConsumable(sequence[s], x.ids[s])
    THEN "inapplicable"
    ELSE "applicable"

\* make_control_state, which is what matching looks at.
ControlState(x) ==
    IF x.count = x.max THEN "saturated"
    ELSE IF \E s \in DOMAIN x.ids : ~ IsConsumable(sequence[s], x.ids[s])
         THEN "inapplicable"
         ELSE "applicable"

\* Faulty: the strategy of a sequence is not asked.
RatingsGreedyOnly(x) ==
    [s \in DOMAIN x.ids |-> GreedyPriority(x.ids[s], sequence[s].cursor)]

\* The sequenceRatings of an applicable state.
Ratings(x) ==
    [s \in DOMAIN x.ids |->
        IF s \in LazySequences
        THEN LazyPriority(x.ids[s], sequence[s].cursor)
        ELSE GreedyPriority(x.ids[s], sequence[s].cursor)]

\* Faulty: with min = max the entry becomes saturated.
UpdateSaturatedFirst(seqs, x) ==
    [s \in SequenceNames |->
        IF s \notin DOMAIN x.ids THEN seqs[s]
        ELSE IF x.count = x.max THEN SetSaturated(seqs[s], x.ids[s])
        ELSE IF x.count = x.min THEN SetSatisfied(seqs[s], x.ids[s])
        ELSE seqs[s]]

\* Faulty: the sequences learn of an expectation only when it is used up.
UpdateAtMaximum(seqs, x) ==
    [s \in SequenceNames |->
        IF s \in DOMAIN x.ids /\ x.count = x.max
        THEN SetSaturated(seqs[s], x.ids[s])
        ELSE seqs[s]]

\* update_sequence_states, on the sequences seqs: the entries of an
\* expectation follow its count.  With min = max only the first branch is
\* ever taken: such an entry ends as satisfied.
UpdateSequenceStates(seqs, x) ==
    [s \in SequenceNames |->
        IF s \notin DOMAIN x.ids THEN seqs[s]
        ELSE IF x.count = x.min THEN SetSatisfied(seqs[s], x.ids[s])
        ELSE IF x.count = x.max THEN SetSaturated(seqs[s], x.ids[s])
        ELSE seqs[s]]

UpdateAsserts(seqs, x) ==
    \A s \in DOMAIN x.ids :
        IF x.count = x.min THEN SetSatisfiedAsserts(seqs[s], x.ids[s])
        ELSE x.count = x.max => SetSaturatedAsserts(seqs[s], x.ids[s])

\* The cursors of all sequences of x move to its entries.
ConsumeInSequences(x) ==
    [s \in SequenceNames |->
        IF s \in DOMAIN x.ids THEN Consume(sequence[s], x.ids[s])
                              ELSE sequence[s]]

ConsumeInSequencesAsserts(x) ==
    \A s \in DOMAIN x.ids : ConsumeAsserts(sequence[s], x.ids[s])

-----------------------------------------------------------------------------
(* Reports.  A destroyed sequence is one nobody refers to any more: its    *)
(* interface object is gone and so are the expectations attached to it.    *)

IsDestroyed(s) ==
    ~ held[s] /\ \A e \in Attached(s) : ~ expectations[e].alive

Quiet == [kind |-> "none", errors |-> << >>]

\* ~BasicSequence of every sequence in S: the count each error prints.
SequenceErrors(S) ==
    [s \in {t \in S : Unfulfilled(sequence[t]) # {}} |->
        ReportedCount(sequence[s])]

Init ==
    /\ sequence = [s \in SequenceNames |-> EmptySequence]
    /\ held = [s \in SequenceNames |-> TRUE]
    /\ expectations = << >>
    /\ asserted = TRUE
    /\ report = Quiet

\* A ScopedExpectation is built from an ExpectationBuilder: the control
\* policy adds an entry to each of its sequences, settles their state, and
\* the expectation is pushed onto its collection.
Expect(times, S) ==
    LET x == [min |-> times[1], max |-> times[2], count |-> 0,
              ids |-> [s \in S |-> sequence[s].size], alive |-> TRUE]
        added == [s \in SequenceNames |->
                    IF s \in S THEN Add(sequence[s]) ELSE sequence[s]]
    IN  /\ Len(expectations) < MaxExpectations
        /\ \A s \in S : held[s]
        /\ expectations' = Append(expectations, x)
        /\ sequence' = UpdateSequenceStates(added, x)
        /\ asserted' = (asserted /\ UpdateAsserts(added, x))
        /\ report' = Quiet
        /\ UNCHANGED held

\* The expectation the call is given to: control policy first, then the
\* other policies and the finalizer, which keep no state of the model.
ConsumeExpectation(e) ==
    LET x == expectations[e]
        y == [x EXCEPT !.count = @ + 1]
        moved == ConsumeInSequences(x)
    IN  /\ expectations' = [expectations EXCEPT ![e] = y]
        /\ sequence' = UpdateSequenceStates(moved, y)
        /\ asserted' = (/\ asserted
                        /\ IsApplicable(x)
                        /\ ConsumeInSequencesAsserts(x)
                        /\ UpdateAsserts(moved, y))

Applicable(accepting) ==
    {e \in accepting : ControlState(expectations[e]) = "applicable"}

Best(matches) ==
    PickBestMatch(NewestFirst(matches),
                  [e \in matches |-> Ratings(expectations[e])])

\* handle_call with at least one full match.
CallMatched(accepting) ==
    \E e \in Applicable(accepting) :
        /\ e = Best(Applicable(accepting))
        /\ ConsumeExpectation(e)
        /\ report' = [Quiet EXCEPT !.kind = "full_match"]
        /\ UNCHANGED held

\* handle_call when matchers accept, but no accepting expectation can be
\* used now; and when no matcher accepts.
CallRejected(accepting) ==
    /\ Applicable(accepting) = {}
    /\ report' = [Quiet EXCEPT !.kind = IF accepting # {}
                                        THEN "inapplicable_matches"
                                        ELSE "no_matches"]
    /\ UNCHANGED <<sequence, held, expectations, asserted>>

\* The ScopedExpectation goes out of scope: the collection removes the
\* expectation and reports it if it is not satisfied; then its control
\* policy lets go of the sequences.
DestroyExpectation(e) ==
    /\ expectations[e].alive
    /\ expectations' = [expectations EXCEPT ![e].alive = FALSE]
    /\ report' =
         [kind |-> IF IsSatisfied(expectations[e])
                   THEN "none" ELSE "unfulfilled_expectation",
          errors |-> SequenceErrors(
              {s \in DOMAIN expectations[e].ids :
                  ~ held[s] /\ \A f \in Alive : s \in DOMAIN expectations[f].ids
                                                   => f = e})]
    /\ UNCHANGED <<sequence, held, asserted>>

\* The user's sequence object goes out of scope.
ReleaseSequence(s) ==
    /\ held[s]
    /\ held' = [held EXCEPT ![s] = FALSE]
    /\ report' = [Quiet EXCEPT !.errors = SequenceErrors(
                    {t \in {s} : \A e \in Attached(t) : ~ expectations[e].alive})]
    /\ UNCHANGED <<sequence, expectations, asserted>>

Next ==
    \/ \E times \in TimesConfig, S \in SUBSET SequenceNames : Expect(times, S)
    \/ \E accepting \in SUBSET Alive : CallMatched(accepting)
    \/ \E accepting \in SUBSET Alive : CallRejected(accepting)
    \/ \E e \in Created : DestroyExpectation(e)
    \/ \E s \in SequenceNames : ReleaseSequence(s)

Spec == Init /\ [][Next]_vars

-----------------------------------------------------------------------------
(* Properties *)

TypeOK ==
    /\ DOMAIN sequence = SequenceNames
    /\ \A s \in SequenceNames : IsSequence(sequence[s])
    /\ held \in [SequenceNames -> BOOLEAN]
    /\ expectations \in Seq(ExpectationRecord)
    /\ asserted \in BOOLEAN
    /\ report.kind \in {"none", "full_match", "inapplicable_matches",
                        "no_matches", "unfulfilled_expectation"}

\* None of the assertions of BasicSequence and ControlPolicy ever fails:
\* what matching found applicable is still so when it is consumed, and no
\* entry is marked twice or behind the cursor (Sequence.hpp:138-140,
\* 148-153, 178, ControlPolicies.hpp:198).
AssertionsHold == asserted

\* The cursor never passes an entry whose expectation still has matches to
\* receive: is_consumable looks only at the entries from the cursor on
\* (Sequence.hpp:164-171) and so relies on everything before it being done.
PassedEntriesAreDone ==
    \A s \in SequenceNames :
        \A i \in 0 .. sequence[s].cursor - 1 : MayBePassed(sequence[s].entries[i])

\* All sequences of an expectation agree with its count, although each is
\* told only at two points of the count's life and min = max, min = 0 and
\* never() merge or skip them (update_sequence_states, ControlPolicies.hpp:229).
EntriesFollowCounts ==
    \A e \in Created : \A s \in DOMAIN expectations[e].ids :
        LET x == expectations[e] IN
        sequence[s].entries[x.ids[s]] =
            IF x.count < x.min THEN "unsatisfied"
            ELSE IF x.count = x.max /\ x.min < x.max THEN "saturated"
            ELSE "satisfied"

\* The entries of a sequence are the expectations attached to it, in the
\* order they were created.
IdsFollowCreation ==
    \A s \in SequenceNames :
        /\ sequence[s].size <= Len(expectations)
        /\ \A e \in Attached(s) : IsValid(sequence[s], IdOf(e, s))
        /\ \A e, f \in Attached(s) : e < f => IdOf(e, s) < IdOf(f, s)
        /\ \A i \in 0 .. sequence[s].size - 1 :
              \E e \in Attached(s) : IdOf(e, s) = i

\* The cursor stands on the newest matched expectation of its sequence.
CursorIsLastMatched ==
    \A s \in SequenceNames :
        /\ \A e \in Attached(s) :
              expectations[e].count > 0 => IdOf(e, s) <= sequence[s].cursor
        /\ \/ sequence[s].cursor = 0
           \/ \E e \in Attached(s) : /\ IdOf(e, s) = sequence[s].cursor
                                     /\ expectations[e].count > 0

\* The inductive invariant: the parts above together, of which the first
\* alone says nothing about the next step.
IInv ==
    /\ TypeOK
    /\ AssertionsHold
    /\ PassedEntriesAreDone
    /\ EntriesFollowCounts
    /\ IdsFollowCreation
    /\ CursorIsLastMatched
    /\ \A e \in Created : /\ expectations[e].min <= expectations[e].max
                           /\ expectations[e].count <= expectations[e].max

\* What was promised about the expectations, as the abstract specification
\* sees them: entries and cursors forgotten.
Promise(x) == [min |-> x.min, max |-> x.max, count |-> x.count,
               in |-> DOMAIN x.ids, alive |-> x.alive]

Promises == [e \in Created |-> Promise(expectations[e])]

Ordered == INSTANCE OrderedExpectations WITH promised <- Promises

\* The code implements the documented ordering.
OrderedSpec == Ordered!Spec

\* An expectation is found applicable exactly when it is its turn: never
\* out of order, and never refused when the order allows it.
ApplicableExactlyInTurn ==
    \A e \in Alive : ControlState(expectations[e]) = "applicable" <=> Ordered!InTurn(e)

\* Sequences cannot lock each other up: an expectation that still needs
\* matches can be matched as soon as every older expectation it shares a
\* sequence with has had its minimum, whatever was matched or destroyed in
\* whichever order, in however many sequences.
OldestUnsatisfiedIsApplicable ==
    \A e \in Alive :
        /\ ~ IsSatisfied(expectations[e])
        /\ \A f \in 1 .. e - 1 :
              (DOMAIN expectations[f].ids) \cap (DOMAIN expectations[e].ids) # {}
                  => IsSatisfied(expectations[f])
        => IsApplicable(expectations[e])

\* Wherever the cursors of its sequences stand, whatever else was matched or
\* has died since, and whichever expectations match: the one a call is given
\* to is the one the strategies of the sequences promise, although it is
\* found by a fold over has_better_rating (Expectation.hpp:50-72), which
\* is no order.
CallsFollowStrategy ==
    \A accepting \in SUBSET Alive :
        LET matches == Applicable(accepting) IN
        matches # {} =>
            FollowsStrategy([e \in Created |-> DOMAIN expectations[e].ids],
                            LazySequences, matches, Best(matches))

\* A sequence that dies reports an error exactly when one of the
\* expectations that were ever attached to it missed its minimum, although
\* the destructor looks only from the cursor on (Sequence.hpp:90-108).
SequenceErrorIffUnfulfilled ==
    [][\A s \in SequenceNames :
          /\ s \in DOMAIN report'.errors => IsDestroyed(s)'
          /\ IsDestroyed(s)' /\ ~ IsDestroyed(s) =>
                (s \in DOMAIN report'.errors <=>
                    \E e \in Attached(s) : ~ IsSatisfied(expectations[e]))]_vars

\* "LazySequence is designed to make the least possible progress for a
\* match, thus prefers not to skip sequence elements" (Sequence.hpp:70):
\* no call is given to an expectation that skips another match of the same
\* lazy sequence.
LazySkipsNoMatch ==
    \A accepting \in SUBSET Alive :
        LET matches == Applicable(accepting) IN
        matches # {} =>
            \A s \in LazySequences : \A f \in matches \cap Attached(s) :
                Best(matches) \in Attached(s) => Best(matches) <= f

\* "Unfulfilled sequence. {} out of {} expectation(s) are satisfied."
\* (Sequence.hpp:104): the first number is that of the satisfied ones.
ErrorCountsSatisfied ==
    \A s \in DOMAIN report.errors :
        report.errors[s] = Cardinality({e \in Attached(s) : IsSatisfied(expectations[e])})

=============================================================================
