----------------------------- MODULE Reporters -----------------------------
(***************************************************************************)
(* The reporters of mimic++ (Reporter.hpp and adapters/): what each of     *)
(* them writes, and how the control comes back from it.  A report is the   *)
(* record of the arguments of one member function of IReporter.            *)
(***************************************************************************)
EXTENDS Reports

\* The reporters: the default one, and BasicReporter with the callbacks of
\* a test framework.
Adapters == {"BoostTest", "Catch2", "Doctest", "GTest"}
Reporter == Adapters \cup {"Default"}

NoMatches(call, reports) ==
    [kind |-> "no_matches", call |-> call, matches |-> reports]
InapplicableMatches(call, reports) ==
    [kind |-> "inapplicable_matches", call |-> call, matches |-> reports]
FullMatch(call, report) ==
    [kind |-> "full_match", call |-> call, matches |-> <<report>>]
UnfulfilledExpectation(report) ==
    [kind |-> "unfulfilled_expectation", expectation |-> report]
UnhandledException(call, report, what) ==
    [kind |-> "unhandled_exception", call |-> call, expectation |-> report, what |-> what]

-----------------------------------------------------------------------------
(* The messages: the stringify_ functions.  The stacktrace is appended     *)
(* when it is not empty.                                                   *)

PrintAll(reports) == [i \in DOMAIN reports |-> PrintMatchReport(reports[i])]

\* "No match for", "{} available expectation(s)" or "No expectations available".
StringifyNoMatchReport(r) ==
    [says |-> "No match", call |-> PrintCallReport(r.call),
     available |-> {Len(r.matches)}, matches |-> PrintAll(r.matches),
     stacktrace |-> r.call.stacktrace]

\* "No applicable match for", "Tested expectations".
StringifyInapplicableMatchReport(r) ==
    [says |-> "No applicable match", call |-> PrintCallReport(r.call),
     available |-> {}, matches |-> PrintAll(r.matches),
     stacktrace |-> r.call.stacktrace]

\* "Found match for".
StringifyReport(r) ==
    [says |-> "Found match", call |-> PrintCallReport(r.call),
     available |-> {}, matches |-> PrintAll(r.matches),
     stacktrace |-> r.call.stacktrace]

\* "Unfulfilled expectation".
StringifyUnfulfilledExpectation(r) ==
    [says |-> "Unfulfilled expectation",
     expectation |-> PrintExpectationReport(r.expectation)]

\* "Unhandled exception", its what() when it is a std::exception, "while
\* checking expectation", "For" the call; without the stacktrace.
StringifyUnhandledException(r) ==
    [says |-> "Unhandled exception", what |-> r.what,
     expectation |-> PrintExpectationReport(r.expectation),
     call |-> PrintCallReport(r.call)]

Stringify(r) ==
    CASE r.kind = "no_matches" -> StringifyNoMatchReport(r)
      [] r.kind = "inapplicable_matches" -> StringifyInapplicableMatchReport(r)
      [] r.kind = "full_match" -> StringifyReport(r)
      [] r.kind = "unfulfilled_expectation" -> StringifyUnfulfilledExpectation(r)
      [] r.kind = "unhandled_exception" -> StringifyUnhandledException(r)

-----------------------------------------------------------------------------
(* The reporters *)

\* What DefaultReporter asserts of the match reports it is given.
DefaultReporterAsserts(r) ==
    LET All(result) ==
            \A i \in DOMAIN r.matches : EvaluateMatchReport(r.matches[i]) = result
    IN  /\ r.kind = "no_matches" => All("none")
        /\ r.kind = "inapplicable_matches" => All("inapplicable")
        /\ r.kind = "full_match" => All("full")

\* The report fails the test.  The reports about an expectation or a
\* sequence that dies are dropped while an exception is uncaught.
Fails(r, uncaught) ==
    \/ r.kind \in {"no_matches", "inapplicable_matches"}
    \/ r.kind = "unfulfilled_expectation" /\ uncaught = 0

\* What DefaultReporter throws: an UnmatchedCallT with the reports, or an
\* UnfulfilledExpectationT.
DefaultReporterThrows(r, uncaught) ==
    IF ~ Fails(r, uncaught) THEN {}
    ELSE IF r.kind = "unfulfilled_expectation" THEN {"UnfulfilledExpectationT"}
    ELSE {"UnmatchedCallT"}

\* Faulty: an adapter whose failure only notes that the test has failed.
AdapterFailReturns(adapter) == {}

\* send_fail of the adapters: FAIL, DOCTEST_FAIL and BOOST_TEST_FAIL throw
\* the framework's own exception; GTEST_FAIL notes the failure and returns
\* from the lambda around it, and failure{} is thrown by the adapter.
AdapterFail(adapter) ==
    IF adapter = "GTest" THEN {"failure"} ELSE {"framework exception"}

\* BasicReporter sends the message of a failure to send_fail; the callbacks
\* for a full match and for an unhandled exception return.
BasicReporterThrows(adapter, r, uncaught) ==
    IF Fails(r, uncaught) THEN AdapterFail(adapter) ELSE {}

\* detail::report_*: what the installed reporter throws at the report.
Thrown(reporter, r, uncaught) ==
    IF reporter = "Default" THEN DefaultReporterThrows(r, uncaught)
                            ELSE BasicReporterThrows(reporter, r, uncaught)

Throws(reporter, r, uncaught) == Thrown(reporter, r, uncaught) # {}

=============================================================================
