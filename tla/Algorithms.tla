----------------------------- MODULE Algorithms -----------------------------
(***************************************************************************)
(* The parts of the library that compute a result of their inputs alone.   *)
(* A behaviour takes one input after the other; what an algorithm makes of *)
(* it is compared with a definition of what it is for.                     *)
(***************************************************************************)
EXTENDS MatchPicking, Matchers, Stacktraces, InterfaceMocks, Reports, Printing

CONSTANTS
    Nul, UpperCase,  \* of StringMatchers
    Extended,        \* characters outside of ASCII
    MaxAttached,     \* bound: expectations to pick from
    Numerals,        \* bound: the finite numbers
    MaxRange,        \* bound: the length of ranges
    Texts,           \* strings, as [from, chars]
    SkipCounts,      \* skips given to a mock
    ParameterCounts, \* lengths of parameter lists
    OverloadLists    \* overloads, as lists of [ret, params, more]

ASSUME NumbersAssumption ==
    Numerals \subseteq Int /\ MaxRange \in Nat /\ SkipCounts \subseteq Nat

\* A text that is looked at through a pointer has a terminator: without one
\* the view is undefined behaviour.
ASSUME TextsAssumption ==
    \A text \in Texts :
        /\ text.from \in {"string", "string_view", "array", "pointer"}
        /\ text.chars \in Seq(Extended \cup DOMAIN UpperCase)
        /\ text.from \in {"array", "pointer"} => Nul \in Range(text.chars)

ASSUME MacrosAssumption ==
    /\ ParameterCounts \subseteq Nat
    /\ \A overloads \in OverloadLists :
          overloads \in Seq(Range(overloads)) /\ \A o \in Range(overloads) : IsOverload(o)

Strings == INSTANCE StringMatchers

VARIABLE sample \* the input of the last algorithm, with the name of it

None == [algorithm |-> "none"]

Floats == {Finite(n) : n \in Numerals} \cup {NotANumber, PlusInfinity, MinusInfinity}
FiniteFloats == {Finite(n) : n \in Numerals}
Ranges == BoundedSeq(FiniteFloats, MaxRange)

\* A matcher inverted n times.
Inverted(m, n) ==
    LET inverted[k \in 0 .. n] ==
            IF k = 0 THEN m ELSE MakeInverted(inverted[k - 1])
    IN  inverted[n]

ValueMatchers ==
    (UNION {{Eq(v), Ne(v), Lt(v), Le(v), Gt(v), Ge(v)} : v \in FiniteFloats})
    \cup {NaN, Predicate}

RangeMatchers ==
    (UNION {{RangeEq(r), UnorderedEq(r)} : r \in Ranges})
    \cup {IsSortedRange, IsEmptyRange}
    \cup {HasSize(n) : n \in 0 .. MaxRange}
    \cup {EachElement(Inverted(m, n)) : m \in ValueMatchers, n \in 0 .. 1}
    \cup {AnyElement(Inverted(m, n)) : m \in ValueMatchers, n \in 0 .. 1}

-----------------------------------------------------------------------------

Init == sample = None

PickMatch ==
    /\ sample = None
    /\ \E attached \in BoundedSeq(SUBSET SequenceNames, MaxAttached) :
          sample' = [algorithm |-> "pick", attached |-> attached]

MatchValue ==
    /\ sample = None
    /\ \E m \in ValueMatchers, n \in 0 .. 3 :
          sample' = [algorithm |-> "value", matcher |-> Inverted(m, n)]

MatchRange ==
    /\ sample = None
    /\ \E m \in RangeMatchers, n \in 0 .. 2 :
          sample' = [algorithm |-> "range", matcher |-> Inverted(m, n)]

\* A matcher that cannot be constructed is not there to be called.
MatchApproximation ==
    /\ sample = None
    /\ \E value, epsilon \in Floats :
          /\ ApproxConstructible(value, epsilon)
          /\ sample' = [algorithm |-> "approx", value |-> value, epsilon |-> epsilon]

MatchString ==
    /\ sample = None
    /\ \E target, pattern \in Texts, fold \in [Extended -> Extended \cup DOMAIN UpperCase] :
          sample' = [algorithm |-> "string", target |-> target, pattern |-> pattern,
                     fold |-> fold]

TraceCall ==
    /\ sample = None
    /\ \E config \in Configuration, isInterface \in BOOLEAN, skip \in SkipCounts :
          sample' = [algorithm |-> "trace", config |-> config,
                     isInterface |-> isInterface, skip |-> skip]

MockParameters ==
    /\ sample = None
    /\ \E n \in ParameterCounts, more \in {<< >>, <<{NoSpecs}>>} :
          sample' = [algorithm |-> "macro",
                     overloads |-> <<[ret |-> "r", params |-> [i \in 1 .. n |-> <<i>>],
                                      more |-> more]>>]

MockOverloads ==
    /\ sample = None
    /\ \E overloads \in OverloadLists :
          sample' = [algorithm |-> "macro", overloads |-> overloads]

PrintAValue ==
    /\ sample = None
    /\ \E v \in Printables : sample' = [algorithm |-> "print", value |-> v]

Finish == sample # None /\ sample' = None

Next ==
    \/ PickMatch \/ MatchValue \/ MatchRange \/ MatchApproximation \/ MatchString
    \/ TraceCall \/ MockParameters \/ MockOverloads \/ PrintAValue \/ Finish

Spec == Init /\ [][Next]_sample

Is(algorithm) == sample.algorithm = algorithm

-----------------------------------------------------------------------------

\* pick_best_match folds has_better_rating over the matches, which is no
\* order (it is not transitive); still what it picks is what the strategies
\* of the sequences promise, whichever expectations match.
BestFollowsStrategy ==
    Is("pick") =>
        \A matches \in (SUBSET DOMAIN sample.attached) \ {{}} :
            FollowsStrategy(sample.attached, LazySequences, matches,
                            Best(sample.attached, matches))

\* A report shows the description of a matcher, and operator! changes both
\* the predicate and the description: a target matches exactly when what
\* the description says is true of it, however often the matcher is
\* inverted.  The exception is a NaN under an ordering: !lt(1) accepts it
\* and says ">= 1", which no NaN is.
DescriptionsAreTrue ==
    LET m == sample.matcher
        orderings == {"< {}", "<= {}", "> {}", ">= {}"}
    IN  /\ Is("value") =>
              \A x \in Floats :
                  IF IsNaN(x) /\ m.format \in orderings
                  THEN ValueMatches(m, x) = m.inverted
                  ELSE ValueMatches(m, x) = ValueMeaning(Describe(m), x)
        /\ Is("range") =>
              \A x \in Ranges : RangeMatches(m, x) = RangeMeaning(Describe(m), x)

\* approx_abs and approx_rel: never an infinity or a NaN, whose differences
\* and scaled epsilons compare in unexpected ways; of the numbers exactly
\* those in the documented distance, the value itself among them; and
\* a number matches a value when the value matches it.
ApproximationsAreExact ==
    LET v == sample.value
        eps == sample.epsilon
        Within(x, a, b) == x >= a /\ x <= b
    IN  Is("approx") =>
          /\ \A x \in Floats \ FiniteFloats :
                ~ ApproxAbsMatches(x, v, eps) /\ ~ ApproxRelMatches(x, v, eps)
          /\ \A x \in FiniteFloats :
                /\ ApproxAbsMatches(x, v, eps)
                   <=> Within(x.value, v.value - eps.value, v.value + eps.value)
                /\ ApproxRelMatches(x, v, eps)
                   <=> \E n \in {x.value, - x.value, v.value, - v.value} :
                          Within(2 * (x.value - v.value), - eps.value * n, eps.value * n)
                /\ ApproxRelMatches(x, v, eps) = ApproxRelMatches(v, x, eps)
          /\ ApproxAbsMatches(v, v, eps) /\ ApproxRelMatches(v, v, eps)

\* What was written as the string: all of it, or what is in front of the
\* terminator that ends a pointed-to string.
Written(str) ==
    IF str.from \in {"array", "pointer"}
    THEN SubSeq(str.chars, 1, SelectInSeq(str.chars, LAMBDA c : c = Nul) - 1)
    ELSE str.chars

\* What the names of the string matchers say of a target and a pattern.
Named(fn, t, p) ==
    CASE fn = "eq" -> t = p
      [] fn = "starts_with" -> IsPrefix(p, t)
      [] fn = "ends_with" -> IsSuffix(p, t)
      [] fn = "contains" -> \E s \in Suffixes(t) : IsPrefix(p, s)

\* The text with each character replaced by all cases of it.
Letters(text) ==
    [i \in DOMAIN text |->
        {c \in DOMAIN UpperCase : UpperCase[c] = UpperCase[text[i]]}]

\* The string matchers, written with views that are reversed, folded or
\* searched, agree with what their names say of the strings as they were
\* written, wherever they are stored; without regard to case they accept
\* all they accept otherwise, and among ASCII strings exactly those that
\* differ in case only.
StringMatchersAgree ==
    LET target == Written(sample.target)
        pattern == Written(sample.pattern)
        Accepts(fn, insensitive) ==
            Strings!StringMatches(fn, insensitive, sample.target, sample.pattern, sample.fold)
    IN  Is("string") =>
          \A fn \in {"eq", "starts_with", "ends_with", "contains"} :
              /\ Accepts(fn, FALSE) <=> Named(fn, target, pattern)
              /\ Accepts(fn, FALSE) => Accepts(fn, TRUE)
              /\ Range(target \o pattern) \cap Extended = {} =>
                    (Accepts(fn, TRUE) <=> Named(fn, Letters(target), Letters(pattern)))

\* The counts of frames that stacktrace::current, the mock and the interface
\* mock each add to the skip make up the frames of the library: the report
\* of a call names the function that made it, and with a skip the one that
\* many calls further out.  Without a backend it has the source location,
\* and no entry is asked for, which would throw.
TraceStartsAtCaller ==
    LET callers == <<"test", "fixture", "main", "start">>
        trace == CallStacktrace(sample.config, sample.isInterface, sample.skip, callers)
        printed == PrintCallReport(
            [from |-> "location", fromLoc |-> "location", stacktrace |-> trace.frames,
             fromConstness |-> "any", fromCategory |-> "any", returnType |-> "void",
             argDetails |-> << >>])
        skipped == IF sample.isInterface THEN 0 ELSE sample.skip
    IN  Is("trace") =>
          /\ \/ trace.frames = Skip(callers, skipped)
             \/ Backend(sample.config) = "NullBackend" /\ IsEmpty(trace)
          /\ IsEmpty(trace) => printed.from = "location"
          /\ ~ IsEmpty(trace) => printed.from = callers[skipped + 1]
          /\ SameStacktrace(trace, trace)
          /\ "throws" \notin Range(PrintStacktrace(trace))

\* The preprocessor loops paste each of up to 86 parameters and overloads,
\* 4 ^ 3 scans and those of the enclosing macros; what compiles has for
\* each overload one method that names its parameters apart, forwards all
\* of them in order and reaches the very signature it overrides, whatever
\* its qualifiers are and whatever the other overloads.
OverridesReachTheirOverload ==
    LET infos == [i \in DOMAIN sample.overloads |->
                    AddOverload(sample.overloads[i].ret, sample.overloads[i].params,
                                sample.overloads[i].more)]
        mock == MockOverloadedMethod(infos)
    IN  Is("macro") =>
          /\ (/\ Len(infos) <= 86 /\ \A i \in DOMAIN infos : Len(infos[i].params) <= 86
              /\ IsOverloadSet([i \in DOMAIN infos |-> MakeSignature(infos[i])]))
                <=> mock.compiles
          /\ mock.compiles =>
               /\ Len(mock.methods) = Len(infos) /\ Len(mock.signatures) = Len(infos)
               /\ \A i \in DOMAIN infos :
                     LET method == mock.methods[i]
                         names == [k \in DOMAIN method.takes |-> method.takes[k].sequence]
                     IN  /\ Cardinality(Range(names)) = Len(infos[i].params)
                         /\ [k \in DOMAIN method.forwards |-> method.forwards[k].type]
                               = FlattenSeq(infos[i].params)
                         /\ \A a \in Range(method.forwards) : a.name \in Range(names)
                         /\ BindsTo(mock.signatures[i], method.calls)
                         /\ \A j \in DOMAIN infos \ {i} :
                               BindsTo(mock.signatures[j], method.calls) =>
                                   IsPreferredTo(mock.signatures[i], mock.signatures[j])

\* What a reader has to find of a value, given what of its parts.
LeavesOf(v, parts) ==
    IF v.custom \/ v.kind \in {"number", "pointer"} THEN v.text
    ELSE IF v.kind = "string" THEN <<"\"">> \o v.text \o <<"\"">>
    ELSE IF v.kind = "nullopt" \/ (v.kind = "optional" /\ parts = << >>) THEN <<"nullopt">>
    ELSE IF v.kind = "opaque" THEN <<"{?}">>
    ELSE FlattenSeq(parts)

Leaves[v \in Printables] ==
    LeavesOf(v, [i \in DOMAIN v.parts |-> Leaves[v.parts[i]]])

\* The pieces of a text that are no layout.
Content(text) ==
    FlattenSeq([i \in DOMAIN text |-> IF text[i] \in Layout THEN << >> ELSE <<text[i]>>])

CountUpTo(text, token, n) == Cardinality({i \in 1 .. n : text[i] = token})

Balanced(text) ==
    /\ \A n \in 0 .. Len(text) : CountUpTo(text, "{ ", n) >= CountUpTo(text, " }", n)
    /\ CountUpTo(text, "{ ", Len(text)) = CountUpTo(text, " }", Len(text))

\* The overloads of print overlap (a string is a range, an array is a range
\* and a tuple, std::format may know any of them): whatever a value is made
\* of, its parts are printed in order, strings as text, at every depth by
\* the most special printer there is, and {?} stands for nothing else than
\* a part nobody can print; braces are balanced.
TextShowsTheValue ==
    Is("print") =>
        /\ Content(PrintValue[sample.value]) = Leaves[sample.value]
        /\ Balanced(PrintValue[sample.value])

=============================================================================
