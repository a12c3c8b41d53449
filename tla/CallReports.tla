---------------------------- MODULE CallReports ----------------------------
(***************************************************************************)
(* What a mock tells its caller and the reporter.  The module composes the *)
(* core (SequencedExpectations: times, sequences, which match is used)     *)
(* with the policies expectations are built of, the reports made from      *)
(* them, and the reporter that is installed.  Where the core leaves open   *)
(* which expectations accept a call, here their policies decide, and they  *)
(* may throw.  There is one thread and one mock, whose overloads share a   *)
(* collection; the sequences outlive the expectations.                     *)
(*                                                                         *)
(* A noexcept function that an exception tries to leave ends the program,  *)
(* after which nothing happens any more.                                   *)
(***************************************************************************)
EXTENDS ExpectationBuilders, Reporters, FiniteSetsExt

CONSTANTS
    LazySequences, GreedySequences, MaxExpectations, MaxTimes, \* of the core
    Identity,   \* std::identity on the values of arguments
    ReturnType, \* of the mocked function
    Overloads,  \* [category, constness, noexcept] of one decayed signature
    Inputs,     \* lists of argument values to call with
    Recipes,    \* [args, overload, parts]: expectations the test writes
    Installed   \* reporters the test installs

\* Every expectation can be matched once, which is what it is limited to
\* when the test says nothing else; sequences are finitely many, each of one
\* strategy.
ASSUME CoreAssumption ==
    /\ MaxExpectations \in Nat
    /\ MaxTimes \in Nat \ {0}
    /\ LazySequences \cap GreedySequences = {}
    /\ IsFiniteSet(LazySequences) /\ IsFiniteSet(GreedySequences)

ASSUME RecipesCompile ==
    \A r \in Recipes :
        /\ r.args \in Seq(Range(r.args))
        /\ r.parts \in Seq(Range(r.parts))
        /\ \A i \in DOMAIN r.parts :
              IsPart(r.parts[i], Len(r.args), MaxTimes, LazySequences \cup GreedySequences)
        /\ Compiles(r.args, r.overload, ReturnType, r.parts, Identity)

\* The overloads have one list of parameters.
ASSUME CallsFitRecipes ==
    \A args \in Inputs : args \in Seq(Int) /\ \A r \in Recipes : Len(r.args) = Len(args)

ASSUME InstalledAreReporters == Installed \subseteq Reporter

VARIABLES
    sequence, held, expectations, asserted, report, \* of the core
    built,     \* policies and finalizer of every expectation
    reporter,  \* detail::get_reporter()
    sent,      \* the reports of the last step, in order
    outcome    \* how the last step ended, and the call it was about

\* SequencedExpectations together with the theorems about it.
Core == INSTANCE SequencedExpectations_proofs

coreVars == <<sequence, held, expectations, asserted, report>>
vars == <<sequence, held, expectations, asserted, report, built, reporter, sent, outcome>>

Running == outcome.ended # "terminated"

\* call::Info of a call on an overload.
Info(overload, args) ==
    [returnType |-> ReturnType, types |-> [i \in DOMAIN args |-> "int"], args |-> args,
     fromLoc |-> "caller", stacktrace |-> << >>,
     fromCategory |-> overload.category, fromConstness |-> overload.constness]

-----------------------------------------------------------------------------
(* BasicExpectation *)

Policies(e) == Range(built[e].policies)

\* m_ControlPolicy.state(), see make_control_state.
ControlReport(e) ==
    LET x == expectations[e]
        times == [min |-> x.min, max |-> x.max, count |-> x.count]
        ratings == {s \in DOMAIN x.ids : Core!IsConsumable(sequence[s], x.ids[s])}
    IN  CASE Core!ControlState(x) = "saturated" -> StateSaturated(times, DOMAIN x.ids)
          [] Core!ControlState(x) = "applicable" -> StateApplicable(times, ratings)
          [] Core!ControlState(x) = "inapplicable" ->
                StateInapplicable(times, ratings, DOMAIN x.ids \ ratings)

\* report(): there is never a description of the finalizer.
ExpectationReport(e) ==
    [sourceLocation |-> {e}, finalizerDescription |-> {},
     timesDescription |-> {PrintControlState(ControlReport(e))},
     expectationDescriptions |->
        [i \in DOMAIN built[e].policies |-> Describe(built[e].policies[i])]]

\* matches() when nothing in it throws.
MatchReport(e, info) ==
    [sourceLocation |-> {e}, controlReport |-> ControlReport(e),
     expectationReports |->
        [i \in DOMAIN built[e].policies |->
            [isMatching |-> Matches(built[e].policies[i], info),
             description |-> Describe(built[e].policies[i])]]]

-----------------------------------------------------------------------------
(* make_match_report, which is noexcept *)

\* matches() asks every policy for its match and its description.
MatchesThrows(e, info) ==
    \E p \in Policies(e) : MatchThrows(p, info) \/ DescribeThrows(p)

\* The handler reports the exception together with report(), which asks
\* for all descriptions again.
MakeMatchReportTerminates(e, info) ==
    MatchesThrows(e, info) /\ \E p \in Policies(e) : DescribeThrows(p)

\* Faulty: a matcher that throws has not turned the call down.
AcceptingThrown(info) ==
    {e \in Core!Alive : \A p \in Policies(e) : MatchThrows(p, info) \/ Matches(p, info)}

\* The expectations all of whose policies match; one that throws does not.
Accepting(info) ==
    {e \in Core!Alive : /\ ~ MatchesThrows(e, info)
                        /\ \A p \in Policies(e) : Matches(p, info)}

\* The walk over the collection: newest first, until the program ends.
Walked(info) ==
    {e \in Core!Alive :
        \A f \in Core!Alive : MakeMatchReportTerminates(f, info) => f < e}

\* The expectations whose exceptions are reported on the way.
Threw(info) == {e \in Walked(info) : MatchesThrows(e, info)}

Unhandled(info) ==
    [i \in DOMAIN NewestFirst(Threw(info)) |->
        UnhandledException(MakeCallReport(info),
                           ExpectationReport(NewestFirst(Threw(info))[i]),
                           "exception of the test")]

\* The reports handle_call collects for one result.
Resulting(info, result) ==
    {e \in Walked(info) : /\ ~ MatchesThrows(e, info)
                          /\ EvaluateMatchReport(MatchReport(e, info)) = result}

Collected(info, result) ==
    [i \in DOMAIN NewestFirst(Resulting(info, result)) |->
        MatchReport(NewestFirst(Resulting(info, result))[i], info)]

-----------------------------------------------------------------------------
(* What the caller sees *)

Idle == [ended |-> "none", value |-> {}, call |-> {}]

Ended(how, value, overload, args) ==
    [ended |-> how, value |-> value, call |-> {[overload |-> overload, args |-> args]}]

\* An exception on its way out of operator().
Leaves(overload) == IF overload.noexcept THEN "terminated" ELSE "threw"

\* Faulty: side effects may throw as the finalizer may.
AnswerUnguarded(e, overload, args) ==
    IF \/ \E p \in Policies(e) : ConsumeThrows(p)
       \/ FinalizeThrows(built[e].finalizer)
    THEN Ended(Leaves(overload), {}, overload, args)
    ELSE Ended("returned",
               FinalizeCall(built[e].finalizer, PoliciesConsume(built[e].policies, args)),
               overload, args)

\* consume and finalize_call: the policies are consumed by a noexcept lambda.
Answer(e, overload, args) ==
    IF \E p \in Policies(e) : ConsumeThrows(p)
    THEN Ended("terminated", {}, overload, args)
    ELSE IF FinalizeThrows(built[e].finalizer)
    THEN Ended(Leaves(overload), {}, overload, args)
    ELSE Ended("returned",
               FinalizeCall(built[e].finalizer, PoliciesConsume(built[e].policies, args)),
               overload, args)

-----------------------------------------------------------------------------
Init ==
    /\ Core!Init
    /\ built = << >>
    /\ reporter = "Default"
    /\ sent = << >>
    /\ outcome = Idle

\* SCOPED_EXP mock.expect_call(args...) && parts...: finalize() and push.
Expect(r) ==
    LET b == Build(r.args, r.overload, r.parts, Identity)
    IN  /\ Running
        /\ Core!Expect(<<b.min, b.max>>, Range(b.sequences))
        /\ built' = Append(built, [policies |-> b.policies, finalizer |-> b.finalizer])
        /\ sent' = << >>
        /\ outcome' = Idle
        /\ UNCHANGED reporter

\* handle_call with a full match: it is reported before it is consumed.
CallMatched(overload, args) ==
    LET info == Info(overload, args)
        best == Core!Best(Core!Applicable(Accepting(info)))
    IN  /\ Running
        /\ \A e \in Core!Alive : ~ MakeMatchReportTerminates(e, info)
        /\ Core!CallMatched(Accepting(info))
        /\ sent' = Append(Unhandled(info),
                          FullMatch(MakeCallReport(info), MatchReport(best, info)))
        /\ outcome' = Answer(best, overload, args)
        /\ UNCHANGED <<built, reporter>>

\* Faulty: the expectations that do not match are reported in any case.
RejectionAlways(info) ==
    NoMatches(MakeCallReport(info), Collected(info, "none"))

\* Faulty: the inapplicable matches come with those that do not match.
RejectionMixed(info) ==
    IF Collected(info, "inapplicable") # << >>
    THEN InapplicableMatches(MakeCallReport(info),
                             Collected(info, "none") \o Collected(info, "inapplicable"))
    ELSE NoMatches(MakeCallReport(info), Collected(info, "none"))

\* The report of a call that has no full match.
Rejection(info) ==
    IF Collected(info, "inapplicable") # << >>
    THEN InapplicableMatches(MakeCallReport(info), Collected(info, "inapplicable"))
    ELSE NoMatches(MakeCallReport(info), Collected(info, "none"))

\* handle_call without one.
CallRejected(overload, args) ==
    LET info == Info(overload, args)
    IN  /\ Running
        /\ \A e \in Core!Alive : ~ MakeMatchReportTerminates(e, info)
        /\ Core!CallRejected(Accepting(info))
        /\ sent' = Append(Unhandled(info), Rejection(info))
        /\ outcome' = Ended(IF Throws(reporter, Rejection(info), 0)
                            THEN Leaves(overload) ELSE "unreachable",
                            {}, overload, args)
        /\ UNCHANGED <<built, reporter>>

\* handle_call that does not get to the end of its walk.
CallAborted(overload, args) ==
    LET info == Info(overload, args)
    IN  /\ Running
        /\ \E e \in Core!Alive : MakeMatchReportTerminates(e, info)
        /\ sent' = Unhandled(info)
        /\ outcome' = Ended("terminated", {}, overload, args)
        /\ UNCHANGED <<coreVars, built, reporter>>

\* The ScopedExpectation goes out of scope, with no exception uncaught.
\* Printing an unsatisfied expectation may throw like its report.
DestroyExpectation(e) ==
    LET unfulfilled == ~ Core!IsSatisfied(expectations[e])
        describable == \A p \in Policies(e) : ~ DescribeThrows(p)
        r == UnfulfilledExpectation(ExpectationReport(e))
    IN  /\ Running
        /\ Core!DestroyExpectation(e)
        /\ sent' = IF unfulfilled /\ describable THEN <<r>> ELSE << >>
        /\ outcome' = [Idle EXCEPT !.ended =
                         IF unfulfilled /\ (describable => Throws(reporter, r, 0))
                         THEN "threw" ELSE "none"]
        /\ UNCHANGED <<built, reporter>>

\* install_reporter, by the test or the ReporterInstaller of an adapter.
InstallReporter(r) ==
    /\ Running
    /\ reporter' = r
    /\ sent' = << >>
    /\ outcome' = Idle
    /\ UNCHANGED <<coreVars, built>>

Next ==
    \/ \E r \in Recipes : Expect(r)
    \/ \E o \in Overloads, args \in Inputs : CallMatched(o, args)
    \/ \E o \in Overloads, args \in Inputs : CallRejected(o, args)
    \/ \E o \in Overloads, args \in Inputs : CallAborted(o, args)
    \/ \E e \in Core!Created : DestroyExpectation(e)
    \/ \E r \in Installed : InstallReporter(r)

Spec == Init /\ [][Next]_vars

-----------------------------------------------------------------------------
(* Properties *)

TypeOK ==
    /\ Len(built) = Len(expectations)
    /\ reporter \in Reporter
    /\ \A i \in DOMAIN sent :
          sent[i].kind \in {"no_matches", "inapplicable_matches", "full_match",
                            "unfulfilled_expectation", "unhandled_exception"}
    /\ outcome.ended \in {"none", "returned", "threw", "terminated"}

\* The last step was a call that was answered, or turned down.
Answered == sent # << >> /\ Last(sent).kind = "full_match"
TurnedDown == sent # << >> /\ Last(sent).kind \in {"no_matches", "inapplicable_matches"}

\* The call, and the expectation that answered it.
TheCall == Value(outcome.call)
TheInfo == Info(TheCall.overload, TheCall.args)
TheAnswering == Value(Last(sent).matches[1].sourceLocation)

\* No assertion about a report fails: DefaultReporter checks every report it
\* gets against evaluate_match_report (Reporter.hpp:446, 471, 495), although
\* the reports were sorted before sequences and counts moved, and Category
\* and Constness check the call they consume (GeneralPolicies.hpp:46, 76).
AssertionsHold ==
    /\ Core!AssertionsHold
    /\ \A i \in DOMAIN sent : DefaultReporterAsserts(sent[i])
    /\ Answered => \A p \in Policies(TheAnswering) : ConsumeAsserts(p, TheInfo)

\* The reports of exceptions come first.
Exceptions == {i \in DOMAIN sent : sent[i].kind = "unhandled_exception"}
ThrewAt(i) == Value(sent[i].expectation.sourceLocation)

\* A match is counted exactly when it is reported, also if the side effects
\* or the finalizer throw afterwards (Expectation.hpp:337-345), and the
\* matches of an expectation whose matcher threw in the same call stay as
\* they are.
CountedExactlyWhenReported ==
    [][\A e \in Core!Created :
          /\ expectations'[e].count - expectations[e].count =
                IF Answered' /\ TheAnswering' = e THEN 1 ELSE 0
          /\ (\E i \in Exceptions : ThrewAt(i) = e)' =>
                expectations'[e].count = expectations[e].count]_vars

\* A test that reads the report of a call that was turned down sees every
\* candidate once, newest first: as inapplicable or not matching, or before
\* that in the report of the exception that kept it from matching.  Those
\* that do not match are left out if others are inapplicable.
FailureNamesEveryCandidate ==
    TurnedDown =>
        LET threw == {e \in Core!Alive : \E p \in Policies(e) : MatchThrows(p, TheInfo)}
            willing == {e \in Core!Alive \ threw :
                           \A p \in Policies(e) : Matches(p, TheInfo)}
            candidates == IF willing # {} THEN willing ELSE Core!Alive \ threw
            listed == [i \in DOMAIN Last(sent).matches |->
                          Value(Last(sent).matches[i].sourceLocation)]
        IN  /\ Exceptions = 1 .. Len(sent) - 1
            /\ [i \in Exceptions |-> ThrewAt(i)] = NewestFirst(threw)
            /\ listed = NewestFirst(candidates)
            /\ Last(sent).kind = "inapplicable_matches" <=> willing # {}

\* How a call ends is what was reported of it: it returns only with a match,
\* a call that is turned down leaves by an exception whatever reporter is
\* installed, and the program ends only where an exception of a report or a
\* finalizer meets a noexcept overload, a side effect throws, or the
\* description of an expectation does, which the reports ask for in the
\* handler of make_match_report.
OutcomeFollowsReports ==
    outcome.call # {} =>
        LET effectThrows == \E p \in Policies(TheAnswering) : ConsumeThrows(p)
            throws == \/ TurnedDown
                      \/ Answered /\ FinalizeThrows(built[TheAnswering].finalizer)
        IN  IF ~ Answered /\ ~ TurnedDown
            THEN /\ outcome.ended = "terminated"
                 /\ \E e \in Core!Alive : \E p \in Policies(e) : DescribeThrows(p)
            ELSE outcome.ended =
                    IF Answered /\ effectThrows THEN "terminated"
                    ELSE IF ~ throws THEN "returned"
                    ELSE IF TheCall.overload.noexcept THEN "terminated" ELSE "threw"

\* What the side effects among policies add to the argument at index.
AddsTo(policy, index) ==
    IF /\ policy.kind = "side effect"
       /\ policy.action.param # 0
       /\ policy.indices[policy.action.param] = index
    THEN policy.action.adds ELSE 0

AddedTo(policies, index) ==
    MapThenSumSet(LAMBDA i : AddsTo(policies[i], index), DOMAIN policies)

\* Side effects change arguments through references, some of them several
\* times; the finalizer returns what all of them together have left, and a
\* value given to finally::returns is the same after every call.
ResultSeesSideEffects ==
    outcome.ended = "returned" =>
        LET b == built[TheAnswering]
        IN  outcome.value =
                CASE b.finalizer.kind = "init" -> {}
                  [] b.finalizer.kind = "returns" -> {b.finalizer.value}
                  [] b.finalizer.kind = "returns_arg" ->
                        {TheCall.args[b.finalizer.index + 1]
                            + AddedTo(b.policies, b.finalizer.index)}

\* e cannot be matched in sequence s: an older member still needs matches,
\* or a younger one has been matched.
IsHeldUp(e, s) ==
    \E f \in Core!Attached(s) :
        \/ f < e /\ expectations[f].count < expectations[f].min
        \/ f > e /\ expectations[f].count > 0

\* What the text of a match in the report of a call says is so: failed
\* requirements are those that do not match, and there is one unless the
\* policies match; an inapplicable match is saturated when its count has
\* reached the limit, and held up in exactly the sequences that are counted
\* otherwise.
MatchTextIsTrue(m) ==
    LET e == Value(m.from)
        x == expectations[e]
        failing == {p \in Policies(e) : ~ Matches(p, TheInfo)}
    IN  /\ Range(m.failed) = UNION {Describe(p) : p \in failing}
        /\ Range(m.passed) = UNION {Describe(p) : p \in Policies(e) \ failing}
        /\ m.result = "none" <=> m.failed # << >>
        /\ m.reason # {} =>
             LET reason == Value(m.reason)
             IN  /\ reason.times.says = "saturated" <=> x.count = x.max
                 /\ reason.times.matched = x.count
                 /\ reason.times.says # "saturated" =>
                      /\ reason.notCurrent # {}
                      /\ reason.notCurrent = {s \in DOMAIN x.ids : IsHeldUp(e, s)}

\* An unfulfilled expectation is missing matches, and is printed with the
\* limits it was given.
ExpectationTextIsTrue(text) ==
    LET x == expectations[Value(text.from)]
    IN  /\ Value(text.times).times = [says |-> "expected", matched |-> x.count,
                                      low |-> x.min, high |-> x.max]
        /\ x.count < x.min

\* The texts say what is so, although print_times_state compares the count
\* with the limits anew (Reports.hpp:93-111) and the sequences are asked one
\* by one (ControlPolicies.hpp:112-133).
MessagesTellTheTruth ==
    /\ TurnedDown =>
         \A i \in DOMAIN Last(sent).matches :
            MatchTextIsTrue(Stringify(Last(sent)).matches[i])
    /\ \A i \in DOMAIN sent :
         sent[i].kind = "unfulfilled_expectation" =>
            ExpectationTextIsTrue(Stringify(sent[i]).expectation)

=============================================================================
