------------------------ MODULE ExpectationBuilders ------------------------
(***************************************************************************)
(* BasicExpectationBuilder (ExpectationBuilder.hpp): how expect_call and   *)
(* the && after it put an expectation together.  A builder is a value that *)
(* every && moves into a new builder; a part is the right operand of &&.   *)
(***************************************************************************)
EXTENDS CallPolicies, FiniteSets

\* The right operands.
PolicyPart(policy) == [part |-> "policy", policy |-> policy]
TimesPart(min, max) == [part |-> "times", min |-> min, max |-> max]
SequencePart(names) == [part |-> "sequence", names |-> names]
FinalizerPart(finalizer) == [part |-> "finalizer", finalizer |-> finalizer]

\* A part that a test can write for a function of n parameters when it
\* counts up to maxTimes and knows the sequences in names.
IsPart(part, n, maxTimes, names) ==
    \/ part.part = "policy" /\ IsPolicyFor(part.policy, n)
    \/ part.part = "times" /\ part.min \in 0 .. maxTimes /\ part.max \in 0 .. maxTimes
    \/ part.part = "sequence" /\ part.names \in Seq(names)
    \/ part.part = "finalizer" /\ IsFinalizerFor(part.finalizer, n)

\* The builder expect_call starts with: once(), no sequence.
BaseBuilder ==
    [timesConfigured |-> FALSE, min |-> 1, max |-> 1, sequences |-> << >>,
     finalizer |-> InitFinalize, policies |-> << >>]

\* The && overload for the part exists: times only once, a finalizer only
\* in the place of InitFinalize.  A times part with wrong limits and a
\* sequence named twice are no values of their types: both throw
\* invalid_argument before or while the builder is extended.
Accepts(builder, part) ==
    CASE part.part = "policy" -> TRUE
      [] part.part = "times" ->
            ~ builder.timesConfigured /\ 0 <= part.min /\ part.min <= part.max
      [] part.part = "sequence" -> IsInjective(builder.sequences \o part.names)
      [] part.part = "finalizer" -> builder.finalizer = InitFinalize

\* operator&&: every overload exchanges one member and moves the others.
Extend(builder, part) ==
    CASE part.part = "policy" -> [builder EXCEPT !.policies = Append(@, part.policy)]
      [] part.part = "times" ->
            [builder EXCEPT !.timesConfigured = TRUE, !.min = part.min, !.max = part.max]
      [] part.part = "sequence" -> [builder EXCEPT !.sequences = @ \o part.names]
      [] part.part = "finalizer" -> [builder EXCEPT !.finalizer = part.finalizer]

\* One && after the other.
ExtendAll(builder, parts) ==
    LET extended[n \in 0 .. Len(parts)] ==
            IF n = 0 THEN builder ELSE Extend(extended[n - 1], parts[n])
    IN  extended[Len(parts)]

\* make_arg_matcher: a matcher is used as it is, a string becomes str::eq,
\* any other value eq; make_arg_policy attaches it to its parameter.
MakeArgMatcher(arg) ==
    IF arg.is = "matcher" THEN arg.matcher
    ELSE [accepts |-> {<<arg.value>>}, throwsOn |-> {}, printable |-> TRUE,
          text |-> IF arg.is = "string" THEN "str::eq" ELSE "eq"]

MakeArgPolicy(index, arg, identity) ==
    ArgsRequirement(MakeArgMatcher(arg), <<index>>, <<identity>>)

\* make_expectation_builder: a policy per argument of expect_call, and the
\* qualifiers of the overload behind them (BasicMock).
MakeExpectationBuilder(args, overload, identity) ==
    ExtendAll(BaseBuilder,
        [i \in DOMAIN args |-> PolicyPart(MakeArgPolicy(i - 1, args[i], identity))]
        \o <<PolicyPart(Category(overload.category)),
             PolicyPart(Constness(overload.constness))>>)

\* What finalize() makes the expectation of.
Build(args, overload, parts, identity) ==
    ExtendAll(MakeExpectationBuilder(args, overload, identity), parts)

\* The parts written after expect_call(args...) are accepted one by one, and
\* finalize() finds a finalizer that fits the return type.
Compiles(args, overload, returnType, parts, identity) ==
    /\ \A i \in DOMAIN parts :
          Accepts(ExtendAll(MakeExpectationBuilder(args, overload, identity),
                            SubSeq(parts, 1, i - 1)),
                  parts[i])
    /\ FinalizePolicyFor(Build(args, overload, parts, identity).finalizer, returnType)

=============================================================================
