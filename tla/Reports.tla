------------------------------ MODULE Reports ------------------------------
(***************************************************************************)
(* The reports mimic++ hands to a reporter, and what their texts say       *)
(* (Reports.hpp).  A text is a record of the statements it makes, in the   *)
(* order of its fields; the words around them are left out.  A             *)
(* std::optional is the set of its values: empty or a singleton.           *)
(***************************************************************************)
EXTENDS Enumerations, SequencesExt

-----------------------------------------------------------------------------
(* Times and control states *)

\* Faulty: a count that has reached its minimum needs no more matches.
PrintTimesStateMinFirst(current, min, max) ==
    IF min <= current THEN [says |-> "accepts", matched |-> current, low |-> 0, high |-> max]
    ELSE IF current = max THEN [says |-> "saturated", matched |-> current, low |-> 0, high |-> 0]
    ELSE [says |-> "expected", matched |-> current, low |-> min, high |-> max]

\* print_times_state: "already saturated", "accepts further matches" or
\* "matched ... is expected", with the numbers each of them names.  An
\* interval min = max is printed as "exactly".
PrintTimesState(current, min, max) ==
    CASE current = max -> [says |-> "saturated", matched |-> current, low |-> 0, high |-> 0]
      [] current # max /\ min <= current ->
            [says |-> "accepts", matched |-> current, low |-> 0, high |-> max]
      [] OTHER -> [says |-> "expected", matched |-> current, low |-> min, high |-> max]

\* The alternatives of control_state_t.  ratings are the sequences that gave
\* the expectation a priority, tags those that are listed by their tag: the
\* ones that did not, or all of them when the expectation is saturated.
StateApplicable(times, ratings) ==
    [is |-> "applicable", times |-> times, ratings |-> ratings, tags |-> {}]
StateInapplicable(times, ratings, tags) ==
    [is |-> "inapplicable", times |-> times, ratings |-> ratings, tags |-> tags]
StateSaturated(times, tags) ==
    [is |-> "saturated", times |-> times, ratings |-> {}, tags |-> tags]

\* control_state_printer: the times, and the sequences: of an applicable
\* state those it is the current element of, of an inapplicable one those
\* it is not the current element of out of all.
PrintControlState(state) ==
    [times |-> PrintTimesState(state.times.count, state.times.min, state.times.max),
     current |-> IF state.is = "applicable" THEN state.ratings ELSE {},
     notCurrent |-> IF state.is = "inapplicable" THEN state.tags ELSE {},
     all |-> state.ratings \cup state.tags]

-----------------------------------------------------------------------------
(* Calls *)

\* make_call_report: the arguments are printed when the report is made, and
\* keep that text whatever happens to the arguments later.
MakeCallReport(info) ==
    [returnType |-> info.returnType,
     argDetails |-> [i \in DOMAIN info.args |->
                        [type |-> info.types[i], state |-> info.args[i]]],
     fromLoc |-> info.fromLoc, stacktrace |-> info.stacktrace,
     fromCategory |-> info.fromCategory, fromConstness |-> info.fromConstness]

\* Printer<CallReport>: the first stack frame, or the location the call
\* operator saw when there is no stacktrace.
PrintCallReport(report) ==
    [from |-> IF report.stacktrace # << >> THEN Head(report.stacktrace) ELSE report.fromLoc,
     constness |-> report.fromConstness, category |-> report.fromCategory,
     returnType |-> report.returnType, args |-> report.argDetails]

-----------------------------------------------------------------------------
(* Expectations *)

Present(optional) == optional # {}
Value(optional) == CHOOSE v \in optional : TRUE

\* The values of the optionals that have one, in order.
Values(optionals) ==
    LET present == InOrder({i \in DOMAIN optionals : Present(optionals[i])})
    IN  [k \in DOMAIN present |-> Value(optionals[present[k]])]

\* Printer<ExpectationReport>: from, times, expects, finally.
PrintExpectationReport(report) ==
    [from |-> report.sourceLocation, times |-> report.timesDescription,
     expects |-> Values(report.expectationDescriptions),
     finally |-> report.finalizerDescription]

-----------------------------------------------------------------------------
(* Matches *)

\* evaluate_match_report: what the policies say comes first.
EvaluateMatchReport(report) ==
    IF \E i \in DOMAIN report.expectationReports :
         ~ report.expectationReports[i].isMatching
    THEN "none"
    ELSE IF report.controlReport.is # "applicable" THEN "inapplicable" ELSE "full"

Descriptions(report, isMatching) ==
    LET reports == report.expectationReports
        listed == InOrder({i \in DOMAIN reports : reports[i].isMatching = isMatching})
    IN  Values([k \in DOMAIN listed |-> reports[listed[k]].description])

\* Printer<MatchReport>: the result, for an inapplicable match the reason,
\* and the described policies, the failed ones before the others.
PrintMatchReport(report) ==
    LET result == EvaluateMatchReport(report)
    IN  [result |-> result,
         reason |-> IF result = "inapplicable"
                    THEN {PrintControlState(report.controlReport)} ELSE {},
         from |-> report.sourceLocation,
         failed |-> Descriptions(report, FALSE),
         passed |-> Descriptions(report, TRUE)]

=============================================================================
