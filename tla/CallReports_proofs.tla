------------------------- MODULE CallReports_proofs -------------------------
(***************************************************************************)
(* That every step of CallReports is a step of the core or leaves it as it *)
(* is, which brings the core's inductive invariant over, and from it the   *)
(* invariants about the reports, how a call ends, what is counted and what *)
(* the texts say.  For this nothing is to be kept but the types: the       *)
(* properties compare the last reports with a state that does not change   *)
(* after they are made, so each is proved of a step from Core!IInv and     *)
(* TypeInv before it.                                                      *)
(***************************************************************************)
EXTENDS CallReports, BestMatch_proofs, TLAPS

-----------------------------------------------------------------------------
(* The constants *)

\* What the core assumes of its constants, in its own words: each instance
\* has its own IsFiniteSet.
LEMMA CoreConstants ==
    /\ MaxExpectations \in Nat
    /\ MaxTimes \in Nat
    /\ LazySequences \cap GreedySequences = {}
    /\ Core!IsFiniteSet(LazySequences) /\ Core!IsFiniteSet(GreedySequences)
  BY CoreAssumption DEF IsFiniteSet, Core!IsFiniteSet

-----------------------------------------------------------------------------
(* Builders *)

\* The builders between the first and the last.
LEMMA Extensions ==
    ASSUME NEW builder, NEW parts, Len(parts) \in Nat
    PROVE  \E ext : /\ ext[0] = builder
                    /\ \A n \in 1 .. Len(parts) : ext[n] = Extend(ext[n - 1], parts[n])
                    /\ ExtendAll(builder, parts) = ext[Len(parts)]
<1> DEFINE Chain(g, n) == /\ g = [k \in 0 .. n |-> g[k]]
                          /\ g[0] = builder
                          /\ \A k \in 1 .. n : g[k] = Extend(g[k - 1], parts[k])
           Missing == {n \in 0 .. Len(parts) : ~ \E g : Chain(g, n)}
<1>1. Missing = {}
  <2> SUFFICES ASSUME Missing # {}  PROVE FALSE
    OBVIOUS
  <2>0. Missing \in SUBSET Nat
    OBVIOUS
  <2>1. PICK n \in Missing : \A m \in Missing : n <= m
    BY <2>0, SmallestExists
  <2>2. n \in 0 .. Len(parts) /\ ~ \E g : Chain(g, n)
    OBVIOUS
  <2>3. n # 0
    <3> DEFINE g == [k \in 0 .. 0 |-> builder]
    <3>1. Chain(g, 0)
      OBVIOUS
    <3> HIDE DEF g
    <3> QED BY <3>1, <2>2
  <2>4. n - 1 \in 0 .. Len(parts) /\ ~ (n <= n - 1)
    BY <2>2, <2>3
  <2>5. PICK g : Chain(g, n - 1)
    BY <2>1, <2>4
  <2> DEFINE h == [k \in 0 .. n |-> IF k = n THEN Extend(g[n - 1], parts[n]) ELSE g[k]]
  <2>6. Chain(h, n)
    <3>1. \A k \in 0 .. n - 1 : k \in 0 .. n /\ k # n
      BY <2>2
    <3>2. h[n] = Extend(g[n - 1], parts[n]) /\ \A k \in 0 .. n - 1 : h[k] = g[k]
      BY <2>2, <3>1
    <3>3. h = [k \in 0 .. n |-> h[k]]
      OBVIOUS
    <3> HIDE DEF h
    <3>4. h[0] = builder
      BY <2>2, <2>3, <2>5, <3>2
    <3>5. ASSUME NEW k \in 1 .. n  PROVE h[k] = Extend(h[k - 1], parts[k])
      <4>1. k - 1 \in 0 .. n - 1 /\ h[k - 1] = g[k - 1]
        BY <2>2, <3>2
      <4>2. CASE k = n
        BY <3>2, <4>1, <4>2
      <4>3. CASE k # n
        <5>1. k \in 1 .. n - 1 /\ k \in 0 .. n - 1
          BY <2>2, <4>3
        <5> QED BY <2>5, <3>2, <4>1, <5>1
      <4> QED BY <4>2, <4>3
    <3> QED BY <3>3, <3>4, <3>5
  <2> HIDE DEF h
  <2> QED BY <2>2, <2>6
<1>2. PICK g : Chain(g, Len(parts))
  BY <1>1
<1> DEFINE Step(f) == f = [n \in 0 .. Len(parts) |->
                            IF n = 0 THEN builder ELSE Extend(f[n - 1], parts[n])]
           ext == CHOOSE f : Step(f)
<1>3. Step(g)
  <2>1. \A n \in 0 .. Len(parts) :
           g[n] = IF n = 0 THEN builder ELSE Extend(g[n - 1], parts[n])
    BY <1>2
  <2> QED BY <1>2, <2>1
<1>4. Step(ext)
  BY Zenon, <1>3
<1>5. ExtendAll(builder, parts) = ext[Len(parts)]
  BY Zenon DEF ExtendAll
<1> HIDE DEF ext
<1>6. /\ ext[0] = builder
      /\ \A n \in 1 .. Len(parts) : ext[n] = Extend(ext[n - 1], parts[n])
  BY <1>4
<1> QED BY <1>5, <1>6

\* Builders, and right operands of &&, with policies in P and finalizers in F.
BuildersOf(P, F) ==
    {b \in [timesConfigured : BOOLEAN, min : 0 .. MaxTimes, max : 0 .. MaxTimes,
            sequences : Seq(Core!SequenceNames), finalizer : F, policies : Seq(P)] :
        b.min <= b.max}

FitsIn(part, P, F) ==
    \/ part.part = "policy" /\ part.policy \in P
    \/ /\ part.part = "times" /\ part.min <= part.max
       /\ part.min \in 0 .. MaxTimes /\ part.max \in 0 .. MaxTimes
    \/ part.part = "sequence" /\ part.names \in Seq(Core!SequenceNames)
    \/ part.part = "finalizer" /\ part.finalizer \in F

LEMMA ExtendFits ==
    ASSUME NEW P, NEW F, NEW b \in BuildersOf(P, F), NEW part, FitsIn(part, P, F)
    PROVE  Extend(b, part) \in BuildersOf(P, F)
<1>1. CASE part.part = "policy" /\ part.policy \in P
  <2>1. Append(b.policies, part.policy) \in Seq(P)
    BY <1>1 DEF BuildersOf
  <2>2. Extend(b, part) = [b EXCEPT !.policies = Append(b.policies, part.policy)]
    BY <1>1 DEF Extend
  <2> QED BY <2>1, <2>2 DEF BuildersOf
<1>2. CASE /\ part.part = "times" /\ part.min <= part.max
           /\ part.min \in 0 .. MaxTimes /\ part.max \in 0 .. MaxTimes
  <2>1. Extend(b, part) =
          [b EXCEPT !.timesConfigured = TRUE, !.min = part.min, !.max = part.max]
    BY <1>2 DEF Extend
  <2> QED BY <1>2, <2>1 DEF BuildersOf
<1>3. CASE part.part = "sequence" /\ part.names \in Seq(Core!SequenceNames)
  <2>1. b.sequences \o part.names \in Seq(Core!SequenceNames)
    BY <1>3 DEF BuildersOf
  <2>2. Extend(b, part) = [b EXCEPT !.sequences = b.sequences \o part.names]
    BY <1>3 DEF Extend
  <2> QED BY <2>1, <2>2 DEF BuildersOf
<1>4. CASE part.part = "finalizer" /\ part.finalizer \in F
  <2>1. Extend(b, part) = [b EXCEPT !.finalizer = part.finalizer]
    BY <1>4 DEF Extend
  <2> QED BY <1>4, <2>1 DEF BuildersOf
<1> QED BY <1>1, <1>2, <1>3, <1>4 DEF FitsIn

LEMMA ExtendAllFits ==
    ASSUME NEW P, NEW F, NEW builder \in BuildersOf(P, F), NEW parts, Len(parts) \in Nat,
           \A i \in 1 .. Len(parts) : FitsIn(parts[i], P, F)
    PROVE  ExtendAll(builder, parts) \in BuildersOf(P, F)
<1>1. PICK ext : /\ ext[0] = builder
                 /\ \A n \in 1 .. Len(parts) : ext[n] = Extend(ext[n - 1], parts[n])
                 /\ ExtendAll(builder, parts) = ext[Len(parts)]
  BY Extensions
<1> DEFINE Misfits == {n \in 0 .. Len(parts) : ext[n] \notin BuildersOf(P, F)}
<1>2. Misfits = {}
  <2> SUFFICES ASSUME Misfits # {}  PROVE FALSE
    OBVIOUS
  <2>1. Misfits \in SUBSET Nat
    OBVIOUS
  <2>2. PICK n \in Misfits : \A m \in Misfits : n <= m
    BY <2>1, SmallestExists
  <2>3. n \in 1 .. Len(parts) /\ n - 1 \in 0 .. Len(parts) /\ ~ (n <= n - 1)
    BY <1>1
  <2>4. ext[n - 1] \in BuildersOf(P, F)
    BY <2>2, <2>3
  <2>5. ext[n] \in BuildersOf(P, F)
    BY <1>1, <2>3, <2>4, ExtendFits
  <2> QED BY <2>5
<1> QED BY <1>1, <1>2

\* The policies and finalizers that r is built of.
ArgPolicies(r) == {MakeArgPolicy(i - 1, r.args[i], Identity) : i \in DOMAIN r.args}
PartPolicies(r) == {r.parts[i].policy : i \in {j \in DOMAIN r.parts : r.parts[j].part = "policy"}}
PoliciesOf(r) ==
    ArgPolicies(r) \cup PartPolicies(r)
        \cup {Category(r.overload.category), Constness(r.overload.constness)}
FinalizersOf(r) ==
    {InitFinalize} \cup
    {r.parts[i].finalizer : i \in {j \in DOMAIN r.parts : r.parts[j].part = "finalizer"}}

LEMMA KindsOfPolicies ==
    ASSUME NEW r \in Recipes, NEW p \in PoliciesOf(r)
    PROVE  p.kind \in PolicyKinds
<1>1. CASE p \in ArgPolicies(r)
  <2>1. \A matcher, indices, projections :
           ArgsRequirement(matcher, indices, projections).kind = "args"
    BY Zenon DEF ArgsRequirement
  <2>2. p.kind = "args"
    BY Zenon, <1>1, <2>1 DEF ArgPolicies, MakeArgPolicy
  <2> QED BY <2>2 DEF PolicyKinds
<1>2. CASE p \in PartPolicies(r)
  BY <1>2, RecipesCompile DEF PartPolicies, IsPart, IsPolicyFor
<1>3. CASE p \in {Category(r.overload.category), Constness(r.overload.constness)}
  <2>1. \A m : Category(m).kind = "category" /\ Constness(m).kind = "constness"
    BY Zenon DEF Category, Constness
  <2>2. p.kind \in {"category", "constness"}
    BY Zenon, <1>3, <2>1
  <2> QED BY <2>2 DEF PolicyKinds
<1> QED BY <1>1, <1>2, <1>3 DEF PoliciesOf

\* The builder that expect_call makes, and what the parts make of it.
LEMMA MakeFits ==
    ASSUME NEW r \in Recipes
    PROVE  MakeExpectationBuilder(r.args, r.overload, Identity)
               \in BuildersOf(PoliciesOf(r), FinalizersOf(r))
<1> DEFINE P == PoliciesOf(r)
           F == FinalizersOf(r)
           args == [i \in DOMAIN r.args |-> PolicyPart(MakeArgPolicy(i - 1, r.args[i], Identity))]
           qualifiers == <<PolicyPart(Category(r.overload.category)),
                           PolicyPart(Constness(r.overload.constness))>>
           X == {PolicyPart(p) : p \in P}
<1>1. BaseBuilder \in BuildersOf(P, F)
  <2>1. << >> \in Seq(P) /\ << >> \in Seq(Core!SequenceNames) /\ InitFinalize \in F
    BY DEF FinalizersOf
  <2>2. 1 \in 0 .. MaxTimes
    BY CoreAssumption
  <2> HIDE DEF P, F
  <2> QED BY <2>1, <2>2 DEF BaseBuilder, BuildersOf
<1>2. args \in Seq(X)
  <2>1. r.args \in Seq(Range(r.args))
    BY RecipesCompile
  <2>2. Len(r.args) \in Nat /\ DOMAIN r.args = 1 .. Len(r.args)
    BY <2>1
  <2>3. \A i \in DOMAIN r.args : args[i] \in X
    BY DEF PoliciesOf, ArgPolicies
  <2> QED BY <2>2, <2>3
<1>3. qualifiers \in Seq(X)
  <2>1. PolicyPart(Category(r.overload.category)) \in X
    BY DEF PoliciesOf
  <2>2. PolicyPart(Constness(r.overload.constness)) \in X
    BY DEF PoliciesOf
  <2> HIDE DEF X
  <2> QED BY <2>1, <2>2
<1>4. args \o qualifiers \in Seq(X)
  BY <1>2, <1>3
<1> DEFINE all == args \o qualifiers
<1>5. Len(all) \in Nat /\ \A i \in 1 .. Len(all) : all[i] \in X
  BY <1>4
<1>6. \A x \in X : FitsIn(x, P, F)
  BY DEF FitsIn, PolicyPart
<1>7. ExtendAll(BaseBuilder, all) \in BuildersOf(P, F)
  <2> HIDE DEF all, P, F
  <2> QED BY <1>1, <1>5, <1>6, ExtendAllFits
<1> QED BY <1>7 DEF MakeExpectationBuilder

LEMMA BuildFits ==
    ASSUME NEW r \in Recipes
    PROVE  Build(r.args, r.overload, r.parts, Identity)
               \in BuildersOf(PoliciesOf(r), FinalizersOf(r))
<1> DEFINE P == PoliciesOf(r)
           F == FinalizersOf(r)
           made == MakeExpectationBuilder(r.args, r.overload, Identity)
<1>1. r.parts \in Seq(Range(r.parts))
  BY RecipesCompile
<1>2. Len(r.parts) \in Nat /\ DOMAIN r.parts = 1 .. Len(r.parts)
  BY <1>1
<1>3. ASSUME NEW i \in 1 .. Len(r.parts)
      PROVE  FitsIn(r.parts[i], P, F)
  <2>1. IsPart(r.parts[i], Len(r.args), MaxTimes, Core!SequenceNames)
    BY <1>2, RecipesCompile DEF Core!SequenceNames
  <2>2. PICK b : Accepts(b, r.parts[i])
    BY <1>2, RecipesCompile DEF Compiles
  <2>3. r.parts[i].part = "times" => r.parts[i].min <= r.parts[i].max
    BY <2>2 DEF Accepts
  <2>4. r.parts[i].part = "policy" => r.parts[i].policy \in P
    BY <1>2 DEF PoliciesOf, PartPolicies
  <2>5. r.parts[i].part = "finalizer" => r.parts[i].finalizer \in F
    BY <1>2 DEF FinalizersOf
  <2> HIDE DEF P, F
  <2> QED BY <2>1, <2>3, <2>4, <2>5 DEF FitsIn, IsPart
<1>4. made \in BuildersOf(P, F)
  BY MakeFits
<1>5. ExtendAll(made, r.parts) \in BuildersOf(P, F)
  <2> HIDE DEF made, P, F
  <2> QED BY <1>2, <1>3, <1>4, ExtendAllFits
<1> QED BY <1>5 DEF Build

-----------------------------------------------------------------------------
(* The core *)

\* The builder hands the core limits and sequences that it knows.
LEMMA RecipesFitCore ==
    ASSUME NEW r \in Recipes
    PROVE  LET b == Build(r.args, r.overload, r.parts, Identity)
           IN  /\ <<b.min, b.max>> \in Core!TimesConfig
               /\ Range(b.sequences) \in SUBSET Core!SequenceNames
<1> DEFINE b == Build(r.args, r.overload, r.parts, Identity)
<1>1. b \in BuildersOf(PoliciesOf(r), FinalizersOf(r))
  BY BuildFits
<1> HIDE DEF b
<1>2. /\ b.min \in 0 .. MaxTimes /\ b.max \in 0 .. MaxTimes /\ b.min <= b.max
      /\ b.sequences \in Seq(Core!SequenceNames)
  BY <1>1 DEF BuildersOf
<1>3. <<b.min, b.max>> \in Core!TimesConfig
  BY <1>2 DEF Core!TimesConfig
<1>4. Range(b.sequences) \in SUBSET Core!SequenceNames
  BY <1>2 DEF Range
<1> QED BY <1>3, <1>4 DEF b

\* Whatever matchers, side effects, finalizers and reporters throw, and
\* wherever that ends the program, the expectations and sequences make steps
\* of the core or stay as they are.
THEOREM ImplementsCore == Spec => Core!Spec
<1>1. Init => Core!Init
  BY DEF Init
<1>2. [Next]_vars => [Core!Next]_coreVars
  <2> SUFFICES ASSUME Next  PROVE [Core!Next]_coreVars
    BY DEF vars, coreVars
  <2>1. ASSUME NEW r \in Recipes, Expect(r)  PROVE Core!Next
    <3>1. Core!Expect(<<Build(r.args, r.overload, r.parts, Identity).min,
                        Build(r.args, r.overload, r.parts, Identity).max>>,
                      Range(Build(r.args, r.overload, r.parts, Identity).sequences))
      BY <2>1 DEF Expect
    <3> QED BY <3>1, RecipesFitCore DEF Core!Next
  <2>2. ASSUME NEW o \in Overloads, NEW args \in Inputs, CallMatched(o, args)
        PROVE  Core!Next
    <3>1. Accepting(Info(o, args)) \in SUBSET Core!Alive
      BY DEF Accepting
    <3>2. Core!CallMatched(Accepting(Info(o, args)))
      BY <2>2 DEF CallMatched
    <3> QED BY <3>1, <3>2 DEF Core!Next
  <2>3. ASSUME NEW o \in Overloads, NEW args \in Inputs, CallRejected(o, args)
        PROVE  Core!Next
    <3>1. Accepting(Info(o, args)) \in SUBSET Core!Alive
      BY DEF Accepting
    <3>2. Core!CallRejected(Accepting(Info(o, args)))
      BY <2>3 DEF CallRejected
    <3> QED BY <3>1, <3>2 DEF Core!Next
  <2>4. ASSUME NEW o \in Overloads, NEW args \in Inputs, CallAborted(o, args)
        PROVE  UNCHANGED coreVars
    BY <2>4 DEF CallAborted
  <2>5. ASSUME NEW e \in Core!Created, DestroyExpectation(e)  PROVE Core!Next
    BY <2>5 DEF DestroyExpectation, Core!Next
  <2>6. ASSUME NEW r \in Installed, InstallReporter(r)  PROVE UNCHANGED coreVars
    BY <2>6 DEF InstallReporter
  <2> QED BY <2>1, <2>2, <2>3, <2>4, <2>5, <2>6 DEF Next
<1> QED BY <1>1, <1>2, PTL DEF Spec, Core!Spec, Core!vars, coreVars

\* So what is proved of the core holds here.
LEMMA CoreInvariance == Spec => []Core!IInv
<1>1. Core!Spec => []Core!IInv
  BY Core!Invariance, CoreConstants
<1> QED BY <1>1, ImplementsCore, PTL

\* With matchers, side effects, finalizers and reporters that throw, too, no
\* match of a sequence turns out to have been too early, be it that they
\* leave before the call is counted or after (Expectation.hpp:341-345).
THEOREM CallsKeepOrder == Spec => []Core!MatchesInOrder
<1>1. Core!Spec => []Core!MatchesInOrder
  BY Core!MatchesKeepOrder, CoreConstants
<1> QED BY <1>1, ImplementsCore, PTL

\* Nor does a matcher that throws, or an expectation that a policy turns
\* down, change which of the remaining matches is used: handle_call gives
\* pick_best_match what is left, whatever that is (Expectation.hpp:310-335).
THEOREM CallsFollowStrategies == Spec => []Core!CallsFollowStrategy
<1>1. Core!Spec => []Core!CallsFollowStrategy
  BY Core!StrategiesDecide, CoreConstants
<1> QED BY <1>1, ImplementsCore, PTL

-----------------------------------------------------------------------------
(* What a step sends *)

\* The fields of reports.
LEMMA ReportFields ==
    \A call, reports :
       /\ NoMatches(call, reports).kind = "no_matches"
       /\ NoMatches(call, reports).matches = reports
       /\ InapplicableMatches(call, reports).kind = "inapplicable_matches"
       /\ InapplicableMatches(call, reports).matches = reports
       /\ FullMatch(call, reports).kind = "full_match"
       /\ FullMatch(call, reports).matches = <<reports>>
BY Zenon DEF NoMatches, InapplicableMatches, FullMatch

LEMMA RejectionFields ==
    ASSUME NEW r, NEW call, NEW reports
    PROVE  /\ r = NoMatches(call, reports) =>
                 r.kind = "no_matches" /\ r.matches = reports
           /\ r = InapplicableMatches(call, reports) =>
                 r.kind = "inapplicable_matches" /\ r.matches = reports
<1>1. ASSUME r = NoMatches(call, reports)
      PROVE  r.kind = "no_matches" /\ r.matches = reports
  BY Zenon, <1>1 DEF NoMatches
<1>2. ASSUME r = InapplicableMatches(call, reports)
      PROVE  r.kind = "inapplicable_matches" /\ r.matches = reports
  BY Zenon, <1>2 DEF InapplicableMatches
<1> QED BY Zenon, <1>1, <1>2

LEMMA UnhandledFields ==
    \A call, x, what :
       /\ UnhandledException(call, x, what).kind = "unhandled_exception"
       /\ UnhandledException(call, x, what).expectation = x
BY Zenon DEF UnhandledException

LEMMA UnfulfilledFields ==
    \A x : /\ UnfulfilledExpectation(x).kind = "unfulfilled_expectation"
           /\ UnfulfilledExpectation(x).expectation = x
BY Zenon DEF UnfulfilledExpectation

LEMMA ValueOfOne == \A v : Value({v}) = v
BY Zenon DEF Value

\* The names of the expectations in reports.
LEMMA WhoseReport ==
    /\ \A e : Value(ExpectationReport(e).sourceLocation) = e
    /\ \A e, info : Value(MatchReport(e, info).sourceLocation) = e
<1>1. \A e : ExpectationReport(e).sourceLocation = {e}
  BY Zenon DEF ExpectationReport
<1>2. \A e, info : MatchReport(e, info).sourceLocation = {e}
  BY Zenon DEF MatchReport
<1> QED BY Zenon, <1>1, <1>2, ValueOfOne

\* The walk over some of the living expectations.
LEMMA Listing ==
    ASSUME Core!TypeOK, NEW S \in SUBSET Core!Alive
    PROVE  /\ Cardinality(S) \in Nat
           /\ NewestFirst(S) \in [1 .. Cardinality(S) -> S]
           /\ DOMAIN NewestFirst(S) = 1 .. Cardinality(S)
           /\ \A e \in S : \E k \in 1 .. Cardinality(S) : NewestFirst(S)[k] = e
<1>1. Len(expectations) \in Nat
  BY DEF Core!TypeOK
<1>2. S \subseteq 1 .. Len(expectations)
  BY DEF Core!Alive, Core!Created
<1>3. IsFiniteSet(S)
  <2>1. IsFiniteSet(1 .. Len(expectations))
    BY <1>1, FS_Interval
  <2> QED BY <1>2, <2>1, FS_Subset
<1>4. S \in SUBSET Int
  BY <1>1, <1>2
<1>5. /\ Cardinality(S) \in Nat
      /\ NewestFirst(S) \in [1 .. Cardinality(S) -> S]
      /\ \A e \in S : \E k \in 1 .. Cardinality(S) : NewestFirst(S)[k] = e
  BY <1>3, <1>4, NewestFirstIsDescending
<1>6. DOMAIN NewestFirst(S) = 1 .. Cardinality(S)
  BY <1>5
<1> QED BY <1>5, <1>6

\* The reports of exceptions, by themselves and before another report.
LEMMA UnhandledReports ==
    ASSUME Core!TypeOK, NEW info
    PROVE  LET n == Cardinality(Threw(info))
           IN  /\ n \in Nat
               /\ DOMAIN NewestFirst(Threw(info)) = 1 .. n
               /\ Len(Unhandled(info)) = n
               /\ Unhandled(info) \in Seq(Range(Unhandled(info)))
               /\ \A i \in 1 .. n :
                     /\ Unhandled(info)[i].kind = "unhandled_exception"
                     /\ Value(Unhandled(info)[i].expectation.sourceLocation) =
                           NewestFirst(Threw(info))[i]
<1> DEFINE n == Cardinality(Threw(info))
           walk == NewestFirst(Threw(info))
<1>1. Threw(info) \in SUBSET Core!Alive
  BY DEF Threw, Walked
<1>2. n \in Nat /\ DOMAIN walk = 1 .. n
  BY <1>1, Listing
<1>3. Unhandled(info) =
        [i \in 1 .. n |-> UnhandledException(MakeCallReport(info),
                             ExpectationReport(walk[i]), "exception of the test")]
  BY Zenon, <1>2 DEF Unhandled
<1>4. \A i \in 1 .. n :
        /\ Unhandled(info)[i].kind = "unhandled_exception"
        /\ Value(Unhandled(info)[i].expectation.sourceLocation) = walk[i]
  <2> TAKE i \in 1 .. n
  <2>1. Unhandled(info)[i] =
          UnhandledException(MakeCallReport(info), ExpectationReport(walk[i]),
                             "exception of the test")
    BY Zenon, <1>3
  <2>2. /\ Unhandled(info)[i].kind = "unhandled_exception"
        /\ Unhandled(info)[i].expectation = ExpectationReport(walk[i])
    <3> DEFINE r == UnhandledException(MakeCallReport(info), ExpectationReport(walk[i]),
                                       "exception of the test")
    <3>1. r.kind = "unhandled_exception" /\ r.expectation = ExpectationReport(walk[i])
      BY Zenon, UnhandledFields
    <3> QED BY Zenon, <2>1, <3>1
  <2> QED BY Zenon, <2>2, WhoseReport
<1>5. DOMAIN Unhandled(info) = 1 .. n
      /\ Unhandled(info) = [i \in 1 .. n |-> Unhandled(info)[i]]
  BY Zenon, <1>3
<1> HIDE DEF n
<1>6. Unhandled(info) \in [1 .. n -> Range(Unhandled(info))]
  BY <1>5 DEF Range
<1>7. Len(Unhandled(info)) = n /\ Unhandled(info) \in Seq(Range(Unhandled(info)))
  BY <1>2, <1>6
<1> QED BY <1>2, <1>4, <1>7 DEF n

LEMMA ReportedLast ==
    ASSUME Core!TypeOK, NEW info, NEW r
    PROVE  LET n == Cardinality(Threw(info))
               all == Append(Unhandled(info), r)
           IN  /\ n \in Nat
               /\ Len(all) = n + 1 /\ DOMAIN all = 1 .. n + 1 /\ all # << >>
               /\ Last(all) = r
               /\ \A i \in 1 .. n : all[i] = Unhandled(info)[i]
<1> DEFINE n == Cardinality(Threw(info))
           U == Range(Unhandled(info)) \cup {r}
           all == Append(Unhandled(info), r)
<1>1. /\ n \in Nat /\ Len(Unhandled(info)) = n
      /\ Unhandled(info) \in Seq(Range(Unhandled(info)))
  BY UnhandledReports
<1>2. Unhandled(info) \in Seq(U) /\ r \in U
  BY <1>1
<1> HIDE DEF U, n
<1>3. /\ Len(all) = n + 1 /\ DOMAIN all = 1 .. n + 1 /\ all # << >>
      /\ all[n + 1] = r
      /\ \A i \in 1 .. n : all[i] = Unhandled(info)[i]
  BY <1>1, <1>2
<1>4. Last(all) = r
  BY <1>3 DEF Last
<1> QED BY <1>1, <1>3, <1>4 DEF n

-----------------------------------------------------------------------------
(* How a step ends *)

LEMMA EndedFields ==
    ASSUME NEW end, NEW how, NEW value, NEW overload, NEW args,
           end = Ended(how, value, overload, args)
    PROVE  /\ end.ended = how
           /\ end.value = value
           /\ end.call = {[overload |-> overload, args |-> args]}
BY Zenon DEF Ended

LEMMA IdleFields ==
    /\ Idle.ended = "none" /\ Idle.call = {}
    /\ \A how : /\ [Idle EXCEPT !.ended = how].ended = how
                /\ [Idle EXCEPT !.ended = how].call = {}
BY Zenon DEF Idle

LEMMA AnswerFields ==
    ASSUME NEW e, NEW o, NEW args
    PROVE  LET effectThrows == \E p \in Policies(e) : ConsumeThrows(p)
               a == Answer(e, o, args)
           IN  /\ a.call = {[overload |-> o, args |-> args]}
               /\ a.ended = IF effectThrows THEN "terminated"
                            ELSE IF FinalizeThrows(built[e].finalizer) THEN Leaves(o)
                            ELSE "returned"
<1> DEFINE effectThrows == \E p \in Policies(e) : ConsumeThrows(p)
           a == Answer(e, o, args)
<1>1. CASE effectThrows
  <2>1. a = Ended("terminated", {}, o, args)
    BY Zenon, <1>1 DEF Answer
  <2>2. a.ended = "terminated" /\ a.call = {[overload |-> o, args |-> args]}
    BY <2>1, EndedFields
  <2> QED BY Zenon, <1>1, <2>2
<1>2. CASE ~ effectThrows /\ FinalizeThrows(built[e].finalizer)
  <2>1. a = Ended(Leaves(o), {}, o, args)
    BY Zenon, <1>2 DEF Answer
  <2>2. a.ended = Leaves(o) /\ a.call = {[overload |-> o, args |-> args]}
    BY <2>1, EndedFields
  <2> QED BY Zenon, <1>2, <2>2
<1>3. CASE ~ effectThrows /\ ~ FinalizeThrows(built[e].finalizer)
  <2>1. a = Ended("returned",
                  FinalizeCall(built[e].finalizer, PoliciesConsume(built[e].policies, args)),
                  o, args)
    BY Zenon, <1>3 DEF Answer
  <2>2. a.ended = "returned" /\ a.call = {[overload |-> o, args |-> args]}
    BY <2>1, EndedFields
  <2> QED BY Zenon, <1>3, <2>2
<1> QED BY <1>1, <1>2, <1>3

\* No reporter comes back from the report of a rejected call.
LEMMA RejectionsThrow ==
    ASSUME NEW rep, NEW r, r.kind \in {"no_matches", "inapplicable_matches"}
    PROVE  Throws(rep, r, 0)
<1>1. Fails(r, 0)
  BY DEF Fails
<1>2. CASE rep = "Default"
  <2>1. Thrown(rep, r, 0) = DefaultReporterThrows(r, 0)
    BY <1>2 DEF Thrown
  <2>2. DefaultReporterThrows(r, 0) = {"UnmatchedCallT"}
    BY <1>1 DEF DefaultReporterThrows
  <2> QED BY Zenon, <2>1, <2>2 DEF Throws
<1>3. CASE rep # "Default"
  <2>1. Thrown(rep, r, 0) = BasicReporterThrows(rep, r, 0)
    BY <1>3 DEF Thrown
  <2>2. BasicReporterThrows(rep, r, 0) = AdapterFail(rep)
    BY <1>1 DEF BasicReporterThrows
  <2>3. AdapterFail(rep) # {}
    BY Zenon DEF AdapterFail
  <2> QED BY Zenon, <2>1, <2>2, <2>3 DEF Throws
<1> QED BY <1>2, <1>3

\* A call that is answered.
LEMMA MatchedStep ==
    ASSUME Core!TypeOK, NEW o, NEW args, CallMatched(o, args)
    PROVE  LET info == Info(o, args)
           IN  \E best \in Accepting(info) :
                  /\ Core!ControlState(expectations[best]) = "applicable"
                  /\ Core!ConsumeExpectation(best)
                  /\ UNCHANGED <<built, reporter>>
                  /\ sent' = Append(Unhandled(info),
                               FullMatch(MakeCallReport(info), MatchReport(best, info)))
                  /\ outcome' = Answer(best, o, args)
                  /\ Answered' /\ ~ TurnedDown'
                  /\ TheAnswering' = best
                  /\ TheCall' = [overload |-> o, args |-> args]
<1> DEFINE info == Info(o, args)
           best == Core!Best(Core!Applicable(Accepting(info)))
           r == FullMatch(MakeCallReport(info), MatchReport(best, info))
<1>1. /\ best \in Accepting(info)
      /\ Core!ControlState(expectations[best]) = "applicable"
      /\ Core!ConsumeExpectation(best)
  BY DEF CallMatched, Core!CallMatched, Core!Applicable
<1>2. /\ sent' = Append(Unhandled(info), r)
      /\ outcome' = Answer(best, o, args)
      /\ UNCHANGED <<built, reporter>>
  BY DEF CallMatched
<1> HIDE DEF best
<1>3. r.kind = "full_match" /\ r.matches = <<MatchReport(best, info)>>
  BY Zenon, ReportFields
<1>4. sent' # << >> /\ Last(sent') = r
  BY <1>2, ReportedLast
<1>5. Answered' /\ ~ TurnedDown'
  <2>1. Last(sent').kind = "full_match"
    BY Zenon, <1>3, <1>4
  <2> QED BY <1>4, <2>1 DEF Answered, TurnedDown
<1>6. TheAnswering' = best
  <2>1. Last(sent').matches[1] = MatchReport(best, info)
    <3>1. \A x : <<x>>[1] = x
      OBVIOUS
    <3> QED BY Zenon, <1>3, <1>4, <3>1
  <2> QED BY Zenon, <2>1, WhoseReport DEF TheAnswering
<1>7. TheCall' = [overload |-> o, args |-> args]
  <2>1. outcome'.call = {[overload |-> o, args |-> args]}
    BY <1>2, AnswerFields
  <2> QED BY Zenon, <2>1, ValueOfOne DEF TheCall
<1> QED BY <1>1, <1>2, <1>5, <1>6, <1>7

\* A call that is turned down.
LEMMA RejectedStep ==
    ASSUME Core!TypeOK, NEW o, NEW args, CallRejected(o, args)
    PROVE  LET info == Info(o, args)
           IN  /\ \A e \in Core!Alive : ~ MakeMatchReportTerminates(e, info)
               /\ Core!Applicable(Accepting(info)) = {}
               /\ UNCHANGED <<sequence, held, expectations, asserted, built, reporter>>
               /\ sent' = Append(Unhandled(info), Rejection(info))
               /\ outcome'.ended = Leaves(o)
               /\ ~ Answered' /\ TurnedDown'
               /\ Last(sent') = Rejection(info)
               /\ TheCall' = [overload |-> o, args |-> args]
<1> DEFINE info == Info(o, args)
           r == Rejection(info)
<1>1. /\ \A e \in Core!Alive : ~ MakeMatchReportTerminates(e, info)
      /\ Core!Applicable(Accepting(info)) = {}
      /\ UNCHANGED <<sequence, held, expectations, asserted, built, reporter>>
      /\ sent' = Append(Unhandled(info), r)
  BY DEF CallRejected, Core!CallRejected
<1>2. outcome' = Ended(IF Throws(reporter, r, 0) THEN Leaves(o) ELSE "unreachable", {}, o, args)
  BY DEF CallRejected
<1>3. r.kind \in {"no_matches", "inapplicable_matches"}
  <2>1. \/ r = InapplicableMatches(MakeCallReport(info), Collected(info, "inapplicable"))
        \/ r = NoMatches(MakeCallReport(info), Collected(info, "none"))
    BY Zenon DEF Rejection
  <2> HIDE DEF r
  <2> QED BY <2>1, ReportFields
<1> HIDE DEF r
<1>4. Throws(reporter, r, 0)
  BY <1>3, RejectionsThrow
<1>5. outcome' = Ended(Leaves(o), {}, o, args)
  BY Zenon, <1>2, <1>4
<1>6. outcome'.ended = Leaves(o) /\ outcome'.call = {[overload |-> o, args |-> args]}
  BY <1>5, EndedFields
<1>7. sent' # << >> /\ Last(sent') = r
  BY <1>1, ReportedLast
<1>8. ~ Answered' /\ TurnedDown'
  <2>1. Last(sent').kind \in {"no_matches", "inapplicable_matches"}
    BY Zenon, <1>3, <1>7
  <2> QED BY <1>7, <2>1 DEF Answered, TurnedDown
<1>9. TheCall' = [overload |-> o, args |-> args]
  BY Zenon, <1>6, ValueOfOne DEF TheCall
<1> QED BY <1>1, <1>6, <1>7, <1>8, <1>9 DEF r

\* A call whose walk does not get to its end.
LEMMA AbortedStep ==
    ASSUME Core!TypeOK, NEW o, NEW args, CallAborted(o, args)
    PROVE  LET info == Info(o, args)
           IN  /\ \E e \in Core!Alive : MakeMatchReportTerminates(e, info)
               /\ UNCHANGED <<coreVars, built, reporter>>
               /\ sent' = Unhandled(info)
               /\ outcome'.ended = "terminated"
               /\ ~ Answered' /\ ~ TurnedDown'
<1> DEFINE info == Info(o, args)
           n == Cardinality(Threw(info))
<1>1. /\ \E e \in Core!Alive : MakeMatchReportTerminates(e, info)
      /\ UNCHANGED <<coreVars, built, reporter>>
      /\ sent' = Unhandled(info)
      /\ outcome' = Ended("terminated", {}, o, args)
  BY DEF CallAborted
<1>2. outcome'.ended = "terminated"
  BY <1>1, EndedFields
<1>3. n \in Nat /\ Len(sent') = n /\ sent' \in Seq(Range(sent'))
  BY <1>1, UnhandledReports
<1>4. \A i \in 1 .. n : sent'[i].kind = "unhandled_exception"
  BY <1>1, UnhandledReports
<1> HIDE DEF n
<1>5. ASSUME sent' # << >>  PROVE Last(sent').kind = "unhandled_exception"
  <2>1. Len(sent') \in 1 .. n
    BY <1>3, <1>5
  <2> QED BY <1>4, <2>1 DEF Last
<1>6. ~ Answered' /\ ~ TurnedDown'
  BY <1>5 DEF Answered, TurnedDown
<1> QED BY <1>1, <1>2, <1>6

\* The steps that are not calls.
LEMMA OtherSteps ==
    ASSUME \/ \E r \in Recipes : Expect(r)
           \/ \E e \in Core!Created : DestroyExpectation(e)
           \/ \E r \in Installed : InstallReporter(r)
    PROVE  /\ outcome'.call = {}
           /\ outcome'.ended \in {"none", "threw"}
           /\ ~ Answered' /\ ~ TurnedDown'
<1>1. CASE sent' = << >> /\ outcome' = Idle
  <2>1. ~ Answered' /\ ~ TurnedDown'
    BY <1>1 DEF Answered, TurnedDown
  <2>2. outcome'.call = {} /\ outcome'.ended = "none"
    BY Zenon, <1>1, IdleFields
  <2> QED BY <2>1, <2>2
<1>2. ASSUME NEW e \in Core!Created, DestroyExpectation(e)
      PROVE  /\ outcome'.call = {}
             /\ outcome'.ended \in {"none", "threw"}
             /\ ~ Answered' /\ ~ TurnedDown'
  <2> DEFINE r == UnfulfilledExpectation(ExpectationReport(e))
  <2>1. sent' = <<r>> \/ sent' = << >>
    BY <1>2 DEF DestroyExpectation
  <2>2. \E how \in {"none", "threw"} : outcome' = [Idle EXCEPT !.ended = how]
    BY <1>2 DEF DestroyExpectation
  <2>3. r.kind = "unfulfilled_expectation"
    BY Zenon, UnfulfilledFields
  <2>4. outcome'.call = {} /\ outcome'.ended \in {"none", "threw"}
    BY Zenon, <2>2, IdleFields
  <2>5. sent' # << >> => Last(sent').kind = "unfulfilled_expectation"
    <3> HIDE DEF r
    <3>1. \A x : Last(<<x>>) = x
      BY DEF Last
    <3> QED BY Zenon, <2>1, <2>3, <3>1
  <2>6. ~ Answered' /\ ~ TurnedDown'
    BY <2>5 DEF Answered, TurnedDown
  <2> QED BY <2>4, <2>6
<1>3. ASSUME NEW r \in Recipes, Expect(r)  PROVE sent' = << >> /\ outcome' = Idle
  BY <1>3 DEF Expect
<1>4. ASSUME NEW r \in Installed, InstallReporter(r)  PROVE sent' = << >> /\ outcome' = Idle
  BY <1>4 DEF InstallReporter
<1> QED BY <1>1, <1>2, <1>3, <1>4

-----------------------------------------------------------------------------
(* Types *)

\* What the recipes are built into.
Compiled ==
    {[policies |-> Build(r.args, r.overload, r.parts, Identity).policies,
      finalizer |-> Build(r.args, r.overload, r.parts, Identity).finalizer] : r \in Recipes}

\* Inductive with the invariant of the core.
TypeInv == TypeOK /\ built \in Seq(Compiled)

\* The policies of an expectation.
LEMMA PoliciesAreTyped ==
    ASSUME Core!TypeOK, TypeInv, NEW e \in Core!Created
    PROVE  /\ Len(built[e].policies) \in Nat
           /\ DOMAIN built[e].policies = 1 .. Len(built[e].policies)
           /\ \A p \in Policies(e) : p.kind \in PolicyKinds
<1>1. e \in 1 .. Len(built) /\ built \in Seq(Compiled)
  BY DEF Core!Created, TypeInv, TypeOK
<1>2. built[e] \in Compiled
  BY <1>1
<1>3. PICK r \in Recipes :
        built[e] = [policies |-> Build(r.args, r.overload, r.parts, Identity).policies,
                    finalizer |-> Build(r.args, r.overload, r.parts, Identity).finalizer]
  BY <1>2 DEF Compiled
<1>4. built[e].policies = Build(r.args, r.overload, r.parts, Identity).policies
  BY <1>3
<1>5. built[e].policies \in Seq(PoliciesOf(r))
  BY <1>4, BuildFits DEF BuildersOf
<1>6. /\ Len(built[e].policies) \in Nat
      /\ DOMAIN built[e].policies = 1 .. Len(built[e].policies)
      /\ \A i \in 1 .. Len(built[e].policies) : built[e].policies[i] \in PoliciesOf(r)
  BY <1>5
<1>7. \A p \in Policies(e) : p \in PoliciesOf(r)
  BY <1>6 DEF Policies, Range
<1> QED BY <1>6, <1>7, KindsOfPolicies

KindsOfReports ==
    {"no_matches", "inapplicable_matches", "full_match",
     "unfulfilled_expectation", "unhandled_exception"}

\* What a call sends is typed.
LEMMA CallSendsReports ==
    ASSUME Core!TypeOK, NEW info, NEW r, r.kind \in KindsOfReports,
           sent' = Append(Unhandled(info), r) \/ sent' = Unhandled(info)
    PROVE  \A i \in DOMAIN sent' : sent'[i].kind \in KindsOfReports
<1> DEFINE n == Cardinality(Threw(info))
<1>1. /\ n \in Nat
      /\ Len(Unhandled(info)) = n
      /\ Unhandled(info) \in Seq(Range(Unhandled(info)))
      /\ \A i \in 1 .. n : Unhandled(info)[i].kind = "unhandled_exception"
  BY UnhandledReports
<1> HIDE DEF n
<1>2. CASE sent' = Unhandled(info)
  <2>1. DOMAIN sent' = 1 .. n
    BY <1>1, <1>2
  <2> QED BY <1>1, <1>2, <2>1 DEF KindsOfReports
<1>3. CASE sent' = Append(Unhandled(info), r)
  <2>1. /\ DOMAIN sent' = 1 .. n + 1
        /\ \A i \in 1 .. n : sent'[i] = Unhandled(info)[i]
        /\ Len(sent') = n + 1 /\ Last(sent') = r
    BY <1>3, ReportedLast DEF n
  <2>2. sent'[n + 1] = r
    BY <2>1 DEF Last
  <2>3. \A i \in DOMAIN sent' : i \in 1 .. n \/ i = n + 1
    BY <1>1, <2>1
  <2>4. ASSUME NEW i \in DOMAIN sent'  PROVE sent'[i].kind \in KindsOfReports
    <3>1. CASE i \in 1 .. n
      <4>1. sent'[i].kind = "unhandled_exception"
        BY Zenon, <1>1, <2>1, <3>1
      <4> QED BY <4>1 DEF KindsOfReports
    <3>2. CASE i = n + 1
      BY Zenon, <2>2, <3>2
    <3> QED BY <2>3, <3>1, <3>2
  <2> QED BY <2>4
<1> QED BY <1>2, <1>3

LEMMA TypeInvInductive ==
    ASSUME Core!TypeOK, TypeInv, Next
    PROVE  TypeInv'
<1> USE DEF TypeInv
<1>1. ASSUME NEW r \in Recipes, Expect(r)  PROVE TypeInv'
  <2> DEFINE b == Build(r.args, r.overload, r.parts, Identity)
             new == [policies |-> b.policies, finalizer |-> b.finalizer]
  <2>1. /\ built' = Append(built, new)
        /\ sent' = << >> /\ outcome' = Idle /\ reporter' = reporter
    BY <1>1 DEF Expect
  <2>2. Len(expectations') = Len(expectations) + 1
    BY <1>1 DEF Expect, Core!Expect, Core!TypeOK
  <2>3. new \in Compiled
    BY DEF Compiled
  <2> HIDE DEF new
  <2>4. built' \in Seq(Compiled) /\ Len(built') = Len(built) + 1
    BY <2>1, <2>3
  <2>5. DOMAIN sent' = {}
    BY <2>1
  <2>6. outcome'.ended = "none"
    BY Zenon, <2>1, IdleFields
  <2> QED BY <2>1, <2>2, <2>4, <2>5, <2>6 DEF TypeOK
<1>2. ASSUME NEW o \in Overloads, NEW args \in Inputs, CallMatched(o, args)
      PROVE  TypeInv'
  <2> DEFINE info == Info(o, args)
  <2>1. PICK best \in Accepting(info) :
          /\ Core!ConsumeExpectation(best)
          /\ UNCHANGED <<built, reporter>>
          /\ sent' = Append(Unhandled(info),
                       FullMatch(MakeCallReport(info), MatchReport(best, info)))
          /\ outcome' = Answer(best, o, args)
    BY <1>2, MatchedStep
  <2>2. Len(expectations') = Len(expectations)
    BY <2>1 DEF Core!ConsumeExpectation, Core!TypeOK
  <2>3. FullMatch(MakeCallReport(info), MatchReport(best, info)).kind \in KindsOfReports
    BY ReportFields DEF KindsOfReports
  <2>4. \A i \in DOMAIN sent' : sent'[i].kind \in KindsOfReports
    BY <2>1, <2>3, CallSendsReports
  <2>5. outcome'.ended \in {"terminated", "threw", "returned"}
    BY <2>1, AnswerFields DEF Leaves
  <2> QED BY <2>1, <2>2, <2>4, <2>5 DEF TypeOK, KindsOfReports
<1>3. ASSUME NEW o \in Overloads, NEW args \in Inputs, CallRejected(o, args)
      PROVE  TypeInv'
  <2> DEFINE info == Info(o, args)
  <2>1. /\ UNCHANGED <<expectations, built, reporter>>
        /\ sent' = Append(Unhandled(info), Rejection(info))
        /\ outcome'.ended = Leaves(o)
        /\ TurnedDown'
        /\ Last(sent') = Rejection(info)
    BY <1>3, RejectedStep
  <2>2. Rejection(info).kind \in KindsOfReports
    BY <2>1 DEF TurnedDown, KindsOfReports
  <2>3. \A i \in DOMAIN sent' : sent'[i].kind \in KindsOfReports
    BY <2>1, <2>2, CallSendsReports
  <2> QED BY <2>1, <2>3 DEF TypeOK, KindsOfReports, Leaves
<1>4. ASSUME NEW o \in Overloads, NEW args \in Inputs, CallAborted(o, args)
      PROVE  TypeInv'
  <2> DEFINE info == Info(o, args)
  <2>1. /\ UNCHANGED <<expectations, built, reporter>>
        /\ sent' = Unhandled(info)
        /\ outcome'.ended = "terminated"
    BY <1>4, AbortedStep DEF coreVars
  <2>2. PICK r : r.kind \in KindsOfReports
    BY UnfulfilledFields DEF KindsOfReports
  <2>3. \A i \in DOMAIN sent' : sent'[i].kind \in KindsOfReports
    BY <2>1, <2>2, CallSendsReports
  <2> QED BY <2>1, <2>3 DEF TypeOK, KindsOfReports
<1>5. ASSUME NEW e \in Core!Created, DestroyExpectation(e)  PROVE TypeInv'
  <2> DEFINE r == UnfulfilledExpectation(ExpectationReport(e))
  <2>1. /\ sent' = <<r>> \/ sent' = << >>
        /\ UNCHANGED <<built, reporter>>
    BY <1>5 DEF DestroyExpectation
  <2>2. Len(expectations') = Len(expectations)
    BY <1>5 DEF DestroyExpectation, Core!DestroyExpectation, Core!TypeOK
  <2>3. r.kind = "unfulfilled_expectation"
    BY Zenon, UnfulfilledFields
  <2>4. \A i \in DOMAIN sent' : sent'[i].kind = "unfulfilled_expectation"
    <3> HIDE DEF r
    <3>1. \A i \in DOMAIN sent' : sent'[i] = r
      BY <2>1
    <3> QED BY Zenon, <2>3, <3>1
  <2>5. outcome'.ended \in {"none", "threw"}
    BY <1>5, OtherSteps
  <2> QED BY <2>1, <2>2, <2>4, <2>5 DEF TypeOK
<1>6. ASSUME NEW r \in Installed, InstallReporter(r)  PROVE TypeInv'
  <2>1. /\ UNCHANGED <<expectations, built>>
        /\ reporter' \in Reporter
        /\ sent' = << >> /\ outcome' = Idle
    BY <1>6, InstalledAreReporters DEF InstallReporter, coreVars
  <2>2. outcome'.ended = "none"
    BY Zenon, <2>1, IdleFields
  <2>3. DOMAIN sent' = {}
    BY <2>1
  <2> QED BY <2>1, <2>2, <2>3 DEF TypeOK
<1> QED BY <1>1, <1>2, <1>3, <1>4, <1>5, <1>6 DEF Next

LEMMA Typing == Spec => [](Core!IInv /\ TypeInv)
<1>1. Init => TypeInv
  <2> SUFFICES ASSUME Init  PROVE TypeInv
    OBVIOUS
  <2>1. expectations = << >> /\ built = << >> /\ sent = << >> /\ outcome = Idle
        /\ reporter = "Default"
    BY DEF Init, Core!Init
  <2>2. built \in Seq(Compiled) /\ Len(built) = Len(expectations) /\ DOMAIN sent = {}
    BY <2>1
  <2>3. outcome.ended = "none"
    BY Zenon, <2>1, IdleFields
  <2> QED BY <2>1, <2>2, <2>3 DEF TypeInv, TypeOK, Reporter
<1>2. Core!IInv /\ TypeInv /\ [Next]_vars => TypeInv'
  <2>1. Core!IInv => Core!TypeOK
    BY DEF Core!IInv
  <2>2. TypeInv /\ UNCHANGED vars => TypeInv'
    BY DEF vars, TypeInv, TypeOK
  <2> QED BY <2>1, <2>2, TypeInvInductive
<1> QED BY <1>1, <1>2, CoreInvariance, PTL DEF Spec

\* The builders, the reporters and what has been sent are well formed.
THEOREM TypesHold == Spec => []TypeOK
BY Typing, PTL DEF TypeInv

-----------------------------------------------------------------------------
(* How a call ends *)

\* An exception that is thrown while a match is reported comes from a matcher
\* or from a description, and the latter ends the program.
LEMMA OutcomeStep ==
    ASSUME Core!IInv, TypeInv, Next
    PROVE  OutcomeFollowsReports'
<1>0. Core!TypeOK
  BY DEF Core!IInv
<1>1. ASSUME NEW o \in Overloads, NEW args \in Inputs, CallMatched(o, args)
      PROVE  OutcomeFollowsReports'
  <2> DEFINE info == Info(o, args)
  <2>1. PICK best \in Accepting(info) :
          /\ UNCHANGED <<built, reporter>>
          /\ outcome' = Answer(best, o, args)
          /\ Answered' /\ ~ TurnedDown'
          /\ TheAnswering' = best
          /\ TheCall' = [overload |-> o, args |-> args]
    BY <1>0, <1>1, MatchedStep
  <2>2. outcome'.ended =
          IF \E p \in Policies(best) : ConsumeThrows(p) THEN "terminated"
          ELSE IF FinalizeThrows(built[best].finalizer) THEN Leaves(o)
          ELSE "returned"
    BY <2>1, AnswerFields
  <2>3. TheCall'.overload = o
    BY <2>1
  <2>4. Policies(best)' = Policies(best)
    BY <2>1 DEF Policies
  <2> QED BY <2>1, <2>2, <2>3, <2>4 DEF OutcomeFollowsReports, Leaves
<1>2. ASSUME NEW o \in Overloads, NEW args \in Inputs, CallRejected(o, args)
      PROVE  OutcomeFollowsReports'
  <2>1. /\ outcome'.ended = Leaves(o)
        /\ ~ Answered' /\ TurnedDown'
        /\ TheCall' = [overload |-> o, args |-> args]
    BY <1>0, <1>2, RejectedStep
  <2>2. TheCall'.overload = o
    BY <2>1
  <2> QED BY <2>1, <2>2 DEF OutcomeFollowsReports, Leaves
<1>3. ASSUME NEW o \in Overloads, NEW args \in Inputs, CallAborted(o, args)
      PROVE  OutcomeFollowsReports'
  <2>1. /\ \E e \in Core!Alive : MakeMatchReportTerminates(e, Info(o, args))
        /\ UNCHANGED <<coreVars, built, reporter>>
        /\ outcome'.ended = "terminated"
        /\ ~ Answered' /\ ~ TurnedDown'
    BY <1>0, <1>3, AbortedStep
  <2>2. \E e \in Core!Alive : \E p \in Policies(e) : DescribeThrows(p)
    BY <2>1 DEF MakeMatchReportTerminates
  <2>3. (\E e \in Core!Alive : \E p \in Policies(e) : DescribeThrows(p))'
    BY <2>1, <2>2 DEF coreVars, Core!Alive, Core!Created, Policies
  <2> QED BY <2>1, <2>3 DEF OutcomeFollowsReports
<1>4. ASSUME \/ \E r \in Recipes : Expect(r)
             \/ \E e \in Core!Created : DestroyExpectation(e)
             \/ \E r \in Installed : InstallReporter(r)
      PROVE  OutcomeFollowsReports'
  BY <1>4, OtherSteps DEF OutcomeFollowsReports
<1> QED BY <1>1, <1>2, <1>3, <1>4 DEF Next

\* A call returns only with a reported match, and a call that is turned down
\* never comes back, whatever the test and its reporter throw.
THEOREM OutcomesFollowReports == Spec => []OutcomeFollowsReports
<1>1. Init => OutcomeFollowsReports
  BY IdleFields DEF Init, OutcomeFollowsReports
<1>2. OutcomeFollowsReports /\ UNCHANGED vars => OutcomeFollowsReports'
  BY DEF vars, OutcomeFollowsReports, Answered, TurnedDown, TheAnswering, TheCall,
         Policies, Core!Alive, Core!Created
<1>3. Core!IInv /\ TypeInv /\ OutcomeFollowsReports /\ [Next]_vars => OutcomeFollowsReports'
  BY <1>2, OutcomeStep
<1> QED BY <1>1, <1>3, Typing, PTL DEF Spec

-----------------------------------------------------------------------------
(* What is counted *)

\* The exceptions that are reported before r.
LEMMA ExceptionsBefore ==
    ASSUME Core!TypeOK, NEW info, NEW r, r.kind # "unhandled_exception",
           sent' = Append(Unhandled(info), r)
    PROVE  LET n == Cardinality(Threw(info))
           IN  /\ n \in Nat /\ Len(sent') = n + 1
               /\ DOMAIN NewestFirst(Threw(info)) = 1 .. n
               /\ Exceptions' = 1 .. n
               /\ \A i \in 1 .. n : ThrewAt(i)' = NewestFirst(Threw(info))[i]
<1> DEFINE n == Cardinality(Threw(info))
           walk == NewestFirst(Threw(info))
<1>1. /\ n \in Nat /\ Len(sent') = n + 1 /\ DOMAIN sent' = 1 .. n + 1
      /\ \A i \in 1 .. n : sent'[i] = Unhandled(info)[i]
      /\ Last(sent') = r
  BY ReportedLast
<1>2. /\ DOMAIN walk = 1 .. n
      /\ \A i \in 1 .. n : /\ Unhandled(info)[i].kind = "unhandled_exception"
                           /\ Value(Unhandled(info)[i].expectation.sourceLocation) = walk[i]
  BY UnhandledReports
<1> HIDE DEF n, walk
<1>3. sent'[n + 1] = r
  BY <1>1 DEF Last
<1>4. \A i \in 1 .. n : sent'[i].kind = "unhandled_exception"
  BY Zenon, <1>1, <1>2
<1>5. sent'[n + 1].kind # "unhandled_exception"
  BY Zenon, <1>3
<1>6. \A i \in 1 .. n + 1 : i \in 1 .. n \/ i = n + 1
  BY <1>1
<1>7. \A i \in 1 .. n : i \in 1 .. n + 1
  BY <1>1
<1>8. Exceptions' = 1 .. n
  BY Zenon, <1>1, <1>4, <1>5, <1>6, <1>7 DEF Exceptions
<1>9. \A i \in 1 .. n : ThrewAt(i)' = walk[i]
  BY Zenon, <1>1, <1>2 DEF ThrewAt
<1> QED BY <1>1, <1>2, <1>8, <1>9 DEF n, walk

\* Steps that answer no call move no count.
LEMMA CountsStay ==
    ASSUME Core!TypeOK, NEW e \in Core!Created, ~ Answered',
           expectations'[e].count = expectations[e].count
    PROVE  /\ expectations'[e].count - expectations[e].count =
                 IF Answered' /\ TheAnswering' = e THEN 1 ELSE 0
           /\ (\E i \in Exceptions : ThrewAt(i) = e)' =>
                 expectations'[e].count = expectations[e].count
BY Core!ExpectationFields, CoreConstants

LEMMA CountStep ==
    ASSUME Core!TypeOK, TypeInv, Next, NEW e \in Core!Created
    PROVE  /\ expectations'[e].count - expectations[e].count =
                 IF Answered' /\ TheAnswering' = e THEN 1 ELSE 0
           /\ (\E i \in Exceptions : ThrewAt(i) = e)' =>
                 expectations'[e].count = expectations[e].count
<1>1. ASSUME NEW r \in Recipes, Expect(r)
      PROVE  expectations'[e].count = expectations[e].count
  <2>1. PICK x : expectations' = Append(expectations, x)
    BY <1>1 DEF Expect, Core!Expect
  <2> QED BY <2>1 DEF Core!TypeOK, Core!Created
<1>2. ASSUME NEW o \in Overloads, NEW args \in Inputs, CallMatched(o, args)
      PROVE  /\ expectations'[e].count - expectations[e].count =
                   IF Answered' /\ TheAnswering' = e THEN 1 ELSE 0
             /\ (\E i \in Exceptions : ThrewAt(i) = e)' =>
                   expectations'[e].count = expectations[e].count
  <2> DEFINE info == Info(o, args)
  <2>1. PICK best \in Accepting(info) :
          /\ Core!ConsumeExpectation(best)
          /\ sent' = Append(Unhandled(info),
                       FullMatch(MakeCallReport(info), MatchReport(best, info)))
          /\ Answered'
          /\ TheAnswering' = best
    BY <1>2, MatchedStep
  <2>2. best \in Core!Created /\ ~ MatchesThrows(best, info)
    BY DEF Accepting, Core!Alive
  <2>3. PICK y : /\ y = [expectations[best] EXCEPT !.count = @ + 1]
                 /\ expectations' = [expectations EXCEPT ![best] = y]
    BY <2>1 DEF Core!ConsumeExpectation
  <2>4. /\ expectations[best] \in Core!ExpectationRecord
        /\ expectations[best].count \in Nat /\ expectations[e].count \in Nat
    BY <2>2, Core!ExpectationFields, CoreConstants
  <2>5. y.count = expectations[best].count + 1
    BY <2>3, <2>4 DEF Core!ExpectationRecord
  <2>6. DOMAIN expectations = Core!Created
    BY DEF Core!TypeOK, Core!Created
  <2>7. CASE e = best
    <3>1. expectations'[e].count = expectations[e].count + 1
      BY <2>2, <2>3, <2>5, <2>6, <2>7
    <3>2. ~ (\E i \in Exceptions : ThrewAt(i) = e)'
      <4>1. FullMatch(MakeCallReport(info), MatchReport(best, info)).kind
              # "unhandled_exception"
        BY ReportFields
      <4>2. /\ DOMAIN NewestFirst(Threw(info)) = Exceptions'
            /\ \A i \in Exceptions' : ThrewAt(i)' = NewestFirst(Threw(info))[i]
        BY <2>1, <4>1, ExceptionsBefore
      <4>3. Threw(info) \in SUBSET Core!Alive
        BY DEF Threw, Walked
      <4>4. \A i \in DOMAIN NewestFirst(Threw(info)) :
               NewestFirst(Threw(info))[i] \in Threw(info)
        BY <4>3, Listing
      <4>5. e \notin Threw(info)
        BY <2>2, <2>7 DEF Threw
      <4> QED BY Zenon, <4>2, <4>4, <4>5
    <3> QED BY <2>1, <2>4, <2>7, <3>1, <3>2
  <2>8. CASE e # best
    <3>1. expectations'[e] = expectations[e]
      BY <2>3, <2>6, <2>8
    <3> QED BY <2>1, <2>4, <2>8, <3>1
  <2> QED BY <2>7, <2>8
<1>3. ASSUME NEW o \in Overloads, NEW args \in Inputs, CallRejected(o, args)
      PROVE  ~ Answered' /\ expectations' = expectations
  BY <1>3, RejectedStep
<1>4. ASSUME NEW o \in Overloads, NEW args \in Inputs, CallAborted(o, args)
      PROVE  ~ Answered' /\ expectations' = expectations
  BY <1>4, AbortedStep DEF coreVars
<1>5. ASSUME NEW f \in Core!Created, DestroyExpectation(f)
      PROVE  expectations'[e].count = expectations[e].count
  <2>1. expectations' = [expectations EXCEPT ![f].alive = FALSE]
    BY <1>5 DEF DestroyExpectation, Core!DestroyExpectation
  <2>2. expectations[f] \in Core!ExpectationRecord
    BY Core!ExpectationFields, CoreConstants
  <2>3. DOMAIN expectations = Core!Created
    BY DEF Core!TypeOK, Core!Created
  <2>4. \A b : [expectations[f] EXCEPT !.alive = b].count = expectations[f].count
    BY <2>2 DEF Core!ExpectationRecord
  <2>5. PICK b : expectations' = [expectations EXCEPT ![f].alive = b]
    BY Zenon, <2>1
  <2>6. expectations' = [expectations EXCEPT ![f] = [expectations[f] EXCEPT !.alive = b]]
    BY <2>5
  <2> QED BY <2>3, <2>4, <2>6
<1>6. ASSUME NEW r \in Installed, InstallReporter(r)  PROVE expectations' = expectations
  BY <1>6 DEF InstallReporter, coreVars
<1> QED BY <1>1, <1>2, <1>3, <1>4, <1>5, <1>6, OtherSteps, CountsStay DEF Next

\* Every match is counted exactly when it is reported, whatever its side
\* effects and finalizer throw, and no throwing matcher is counted.
THEOREM CountsFollowReports == Spec => CountedExactlyWhenReported
<1>1. Core!IInv => Core!TypeOK
  BY DEF Core!IInv
<1>2. Core!IInv /\ TypeInv /\ [Next]_vars =>
        [\A e \in Core!Created :
           /\ expectations'[e].count - expectations[e].count =
                 IF Answered' /\ TheAnswering' = e THEN 1 ELSE 0
           /\ (\E i \in Exceptions : ThrewAt(i) = e)' =>
                 expectations'[e].count = expectations[e].count]_vars
  BY <1>1, CountStep
<1> QED BY <1>2, Typing, PTL DEF Spec, CountedExactlyWhenReported

-----------------------------------------------------------------------------
(* What a match report says *)

LEMMA ControlReportIs ==
    ASSUME NEW e
    PROVE  ControlReport(e).is = Core!ControlState(expectations[e])
<1>1. Core!ControlState(expectations[e]) \in {"saturated", "inapplicable", "applicable"}
  BY DEF Core!ControlState
<1>2. /\ \A t, g : StateSaturated(t, g).is = "saturated"
      /\ \A t, r : StateApplicable(t, r).is = "applicable"
      /\ \A t, r, g : StateInapplicable(t, r, g).is = "inapplicable"
  BY Zenon DEF StateSaturated, StateApplicable, StateInapplicable
<1>3. CASE Core!ControlState(expectations[e]) = "saturated"
  <2>1. \E t, g : ControlReport(e) = StateSaturated(t, g)
    BY Zenon, <1>3 DEF ControlReport
  <2> QED BY Zenon, <1>2, <1>3, <2>1
<1>4. CASE Core!ControlState(expectations[e]) = "applicable"
  <2>1. \E t, r : ControlReport(e) = StateApplicable(t, r)
    BY Zenon, <1>4 DEF ControlReport
  <2> QED BY Zenon, <1>2, <1>4, <2>1
<1>5. CASE Core!ControlState(expectations[e]) = "inapplicable"
  <2>1. \E t, r, g : ControlReport(e) = StateInapplicable(t, r, g)
    BY Zenon, <1>5 DEF ControlReport
  <2> QED BY Zenon, <1>2, <1>5, <2>1
<1> QED BY <1>1, <1>3, <1>4, <1>5

LEMMA MatchReportFields ==
    ASSUME NEW e, NEW info
    PROVE  LET m == MatchReport(e, info)
               p == built[e].policies
           IN  /\ m.sourceLocation = {e}
               /\ m.controlReport = ControlReport(e)
               /\ DOMAIN m.expectationReports = DOMAIN p
               /\ \A i \in DOMAIN p :
                     /\ m.expectationReports[i].isMatching = Matches(p[i], info)
                     /\ m.expectationReports[i].description = Describe(p[i])
<1> DEFINE m == MatchReport(e, info)
           p == built[e].policies
           reports == [i \in DOMAIN p |-> [isMatching |-> Matches(p[i], info),
                                           description |-> Describe(p[i])]]
<1>1. /\ m.sourceLocation = {e}
      /\ m.controlReport = ControlReport(e)
      /\ m.expectationReports = reports
  BY Zenon DEF MatchReport
<1>2. DOMAIN reports = DOMAIN p
  BY Zenon
<1>3. \A x, y : /\ [isMatching |-> x, description |-> y].isMatching = x
                /\ [isMatching |-> x, description |-> y].description = y
  BY Zenon
<1>4. \A i \in DOMAIN p : /\ reports[i].isMatching = Matches(p[i], info)
                          /\ reports[i].description = Describe(p[i])
  BY Zenon, <1>3
<1> HIDE DEF reports, m
<1> QED BY Zenon, <1>1, <1>2, <1>4 DEF m

\* The result of a match is what policies and control policy make of it.
LEMMA EvaluatedMatch ==
    ASSUME NEW e, NEW info
    PROVE  EvaluateMatchReport(MatchReport(e, info)) =
             IF \E p \in Policies(e) : ~ Matches(p, info) THEN "none"
             ELSE IF Core!ControlState(expectations[e]) # "applicable" THEN "inapplicable"
             ELSE "full"
<1> DEFINE m == MatchReport(e, info)
<1>1. m.controlReport.is = Core!ControlState(expectations[e])
  BY Zenon, MatchReportFields, ControlReportIs
<1>2. (\E i \in DOMAIN m.expectationReports : ~ m.expectationReports[i].isMatching)
        <=> \E p \in Policies(e) : ~ Matches(p, info)
  <2>1. (\E i \in DOMAIN m.expectationReports : ~ m.expectationReports[i].isMatching)
          <=> \E i \in DOMAIN built[e].policies : ~ Matches(built[e].policies[i], info)
    <3>1. /\ DOMAIN m.expectationReports = DOMAIN built[e].policies
          /\ \A i \in DOMAIN built[e].policies :
                m.expectationReports[i].isMatching = Matches(built[e].policies[i], info)
      BY MatchReportFields
    <3> HIDE DEF m
    <3>2. \A i \in DOMAIN built[e].policies :
             m.expectationReports[i].isMatching <=> Matches(built[e].policies[i], info)
      BY Zenon, <3>1
    <3> QED BY Zenon, <3>1, <3>2
  <2> QED BY Zenon, <2>1 DEF Policies, Range
<1> HIDE DEF m
<1>3. EvaluateMatchReport(m) =
        IF \E p \in Policies(e) : ~ Matches(p, info) THEN "none"
        ELSE IF Core!ControlState(expectations[e]) # "applicable" THEN "inapplicable"
        ELSE "full"
  BY Zenon, <1>1, <1>2 DEF EvaluateMatchReport
<1> QED BY <1>3 DEF m

\* The reports collected for one result.
LEMMA CollectedReports ==
    ASSUME Core!TypeOK, NEW info, NEW result
    PROVE  LET R == Resulting(info, result)
               c == Collected(info, result)
           IN  /\ R \in SUBSET Core!Alive
               /\ DOMAIN c = DOMAIN NewestFirst(R)
               /\ c # << >> <=> R # {}
               /\ \A i \in DOMAIN c : /\ NewestFirst(R)[i] \in R
                                      /\ c[i] = MatchReport(NewestFirst(R)[i], info)
               /\ [i \in DOMAIN c |-> Value(c[i].sourceLocation)] = NewestFirst(R)
<1> DEFINE R == Resulting(info, result)
           c == Collected(info, result)
           walk == NewestFirst(R)
<1>1. R \in SUBSET Core!Alive
  BY DEF Resulting, Walked
<1>2. /\ Cardinality(R) \in Nat
      /\ walk \in [1 .. Cardinality(R) -> R]
      /\ DOMAIN walk = 1 .. Cardinality(R)
      /\ \A e \in R : \E k \in 1 .. Cardinality(R) : walk[k] = e
  BY <1>1, Listing
<1>3. c = [i \in DOMAIN walk |-> MatchReport(walk[i], info)]
  BY Zenon DEF Collected
<1> HIDE DEF c, R, walk
<1>4. DOMAIN c = DOMAIN walk /\ \A i \in DOMAIN c : c[i] = MatchReport(walk[i], info)
  BY Zenon, <1>3
<1>5. \A i \in DOMAIN c : walk[i] \in R
  BY <1>2, <1>4
<1>6. c # << >> <=> R # {}
  <2>1. ASSUME c = << >>  PROVE R = {}
    <3>1. DOMAIN c = {}
      BY <2>1
    <3> QED BY Zenon, <1>2, <1>4, <3>1
  <2>2. ASSUME R = {}  PROVE c = << >>
    <3>1. DOMAIN c = {}
      BY Zenon, <1>5, <2>2
    <3>2. c = [i \in {} |-> MatchReport(walk[i], info)]
      BY Zenon, <1>3, <1>4, <3>1
    <3>3. c \in [1 .. 0 -> {}]
      BY <3>2
    <3>4. c \in Seq({}) /\ Len(c) = 0
      BY <3>3
    <3> QED BY <3>4
  <2> QED BY <2>1, <2>2
<1>7. [i \in DOMAIN c |-> Value(c[i].sourceLocation)] = walk
  <2>1. \A i \in DOMAIN c : Value(c[i].sourceLocation) = walk[i]
    BY Zenon, <1>4, WhoseReport
  <2>2. walk = [i \in DOMAIN walk |-> walk[i]]
    BY <1>2
  <2> QED BY Zenon, <1>4, <2>1, <2>2
<1> QED BY <1>1, <1>4, <1>5, <1>6, <1>7 DEF c, R, walk

-----------------------------------------------------------------------------
(* The candidates of a call that is turned down *)

LEMMA RejectedCandidates ==
    ASSUME NEW info,
           \A e \in Core!Alive : ~ MakeMatchReportTerminates(e, info),
           Core!Applicable(Accepting(info)) = {}
    PROVE  LET threw == {e \in Core!Alive : \E p \in Policies(e) : MatchThrows(p, info)}
               willing == {e \in Core!Alive \ threw :
                              \A p \in Policies(e) : Matches(p, info)}
           IN  /\ Threw(info) = threw
               /\ Resulting(info, "inapplicable") = willing
               /\ willing = {} => Resulting(info, "none") = Core!Alive \ threw
               /\ Walked(info) = Core!Alive
<1> DEFINE threw == {e \in Core!Alive : \E p \in Policies(e) : MatchThrows(p, info)}
           willing == {e \in Core!Alive \ threw : \A p \in Policies(e) : Matches(p, info)}
<1>1. Walked(info) = Core!Alive
  BY DEF Walked
<1>2. \A e \in Core!Alive : MatchesThrows(e, info) <=> e \in threw
  BY Zenon DEF MatchesThrows, MakeMatchReportTerminates
<1>3. Threw(info) = threw
  BY Zenon, <1>1, <1>2 DEF Threw
<1>4. \A e \in willing : Core!ControlState(expectations[e]) # "applicable"
  BY Zenon, <1>2 DEF Accepting, Core!Applicable
<1>5. \A e \in Core!Alive : EvaluateMatchReport(MatchReport(e, info)) =
             IF \E p \in Policies(e) : ~ Matches(p, info) THEN "none"
             ELSE IF Core!ControlState(expectations[e]) # "applicable" THEN "inapplicable"
             ELSE "full"
  BY EvaluatedMatch
<1>6. \A e \in Core!Alive \ threw :
         /\ EvaluateMatchReport(MatchReport(e, info)) = "inapplicable" <=> e \in willing
         /\ EvaluateMatchReport(MatchReport(e, info)) = "none" <=> e \notin willing
  <2> TAKE e \in Core!Alive \ threw
  <2>1. CASE e \in willing
    BY <1>4, <1>5, <2>1
  <2>2. CASE e \notin willing
    BY <1>5, <2>2
  <2> QED BY <2>1, <2>2
<1>7. Resulting(info, "inapplicable") = willing
  BY Zenon, <1>1, <1>2, <1>6 DEF Resulting
<1>8. willing = {} => Resulting(info, "none") = Core!Alive \ threw
  BY Zenon, <1>1, <1>2, <1>6 DEF Resulting
<1> QED BY <1>1, <1>3, <1>7, <1>8

\* What is reported of a call that is turned down.
LEMMA RejectionReports ==
    ASSUME Core!TypeOK, NEW info
    PROVE  LET r == Rejection(info)
               R == Resulting(info, "inapplicable")
               named == IF R # {} THEN R ELSE Resulting(info, "none")
           IN  /\ r.kind = IF R # {} THEN "inapplicable_matches" ELSE "no_matches"
               /\ r.matches = Collected(info, IF R # {} THEN "inapplicable" ELSE "none")
               /\ [i \in DOMAIN r.matches |-> Value(r.matches[i].sourceLocation)] =
                     NewestFirst(named)
<1> DEFINE r == Rejection(info)
           R == Resulting(info, "inapplicable")
<1>1. Collected(info, "inapplicable") # << >> <=> R # {}
  BY CollectedReports
<1>2. CASE R # {}
  <2>1. r = InapplicableMatches(MakeCallReport(info), Collected(info, "inapplicable"))
    BY Zenon, <1>1, <1>2 DEF Rejection
  <2>2. r.kind = "inapplicable_matches" /\ r.matches = Collected(info, "inapplicable")
    BY <2>1, RejectionFields
  <2> HIDE DEF r, R
  <2>3. [i \in DOMAIN r.matches |-> Value(r.matches[i].sourceLocation)] = NewestFirst(R)
    BY Zenon, <2>2, CollectedReports DEF R
  <2> QED BY Zenon, <1>2, <2>2, <2>3 DEF r, R
<1>3. CASE R = {}
  <2>1. r = NoMatches(MakeCallReport(info), Collected(info, "none"))
    BY Zenon, <1>1, <1>3 DEF Rejection
  <2>2. r.kind = "no_matches" /\ r.matches = Collected(info, "none")
    BY <2>1, RejectionFields
  <2> HIDE DEF r, R
  <2>3. [i \in DOMAIN r.matches |-> Value(r.matches[i].sourceLocation)] =
           NewestFirst(Resulting(info, "none"))
    BY Zenon, <2>2, CollectedReports
  <2> QED BY Zenon, <1>3, <2>2, <2>3 DEF r, R
<1> QED BY <1>2, <1>3

LEMMA FailureStep ==
    ASSUME Core!TypeOK, Next
    PROVE  FailureNamesEveryCandidate'
<1>1. ASSUME NEW o \in Overloads, NEW args \in Inputs, CallRejected(o, args)
      PROVE  FailureNamesEveryCandidate'
  <2> DEFINE info == Info(o, args)
             threw == {e \in Core!Alive : \E p \in Policies(e) : MatchThrows(p, info)}
             willing == {e \in Core!Alive \ threw : \A p \in Policies(e) : Matches(p, info)}
             candidates == IF willing # {} THEN willing ELSE Core!Alive \ threw
             r == Rejection(info)
             n == Cardinality(Threw(info))
  <2>1. /\ \A e \in Core!Alive : ~ MakeMatchReportTerminates(e, info)
        /\ Core!Applicable(Accepting(info)) = {}
        /\ UNCHANGED <<sequence, held, expectations, asserted, built, reporter>>
        /\ sent' = Append(Unhandled(info), r)
        /\ Last(sent') = r
        /\ TheCall' = [overload |-> o, args |-> args]
    BY <1>1, RejectedStep
  <2>2. TheInfo' = info
    <3>1. TheCall'.overload = o /\ TheCall'.args = args
      BY Zenon, <2>1
    <3> QED BY Zenon, <3>1 DEF TheInfo
  <2>3. /\ Core!Alive' = Core!Alive
        /\ \A e : Policies(e)' = Policies(e)
    BY <2>1 DEF Core!Alive, Core!Created, Policies
  <2>4. /\ Threw(info) = threw
        /\ Resulting(info, "inapplicable") = willing
        /\ willing = {} => Resulting(info, "none") = Core!Alive \ threw
    BY <2>1, RejectedCandidates
  <2>5. /\ r.kind = IF willing # {} THEN "inapplicable_matches" ELSE "no_matches"
        /\ [i \in DOMAIN r.matches |-> Value(r.matches[i].sourceLocation)] =
              NewestFirst(candidates)
    <3> HIDE DEF info, threw, willing
    <3> QED BY <2>4, RejectionReports DEF candidates, r
  <2>6. r.kind # "unhandled_exception"
    <3> HIDE DEF willing, r
    <3> QED BY <2>5
  <2>7. /\ n \in Nat /\ Len(sent') = n + 1
        /\ DOMAIN NewestFirst(Threw(info)) = 1 .. n
        /\ Exceptions' = 1 .. n
        /\ \A i \in 1 .. n : ThrewAt(i)' = NewestFirst(Threw(info))[i]
    BY <2>1, <2>6, ExceptionsBefore
  <2>8. Exceptions' = 1 .. Len(sent') - 1
    BY <2>7
  <2>9. [i \in Exceptions' |-> ThrewAt(i)'] = NewestFirst(threw)
    <3>1. Threw(info) \in SUBSET Core!Alive
      BY DEF Threw, Walked
    <3>2. NewestFirst(Threw(info)) = [i \in 1 .. n |-> NewestFirst(Threw(info))[i]]
      BY <3>1, Listing
    <3> QED BY Zenon, <2>4, <2>7, <3>2
  <2>10. Last(sent').kind = "inapplicable_matches" <=> willing # {}
    <3> HIDE DEF willing, r
    <3>1. Last(sent').kind = r.kind
      BY Zenon, <2>1
    <3> QED BY <2>5, <3>1
  <2> DEFINE threwThen == {e \in Core!Alive' : \E p \in Policies(e)' : MatchThrows(p, TheInfo')}
             willingThen == {e \in Core!Alive' \ threwThen :
                               \A p \in Policies(e)' : Matches(p, TheInfo')}
  <2>11. threwThen = threw
    BY Zenon, <2>2, <2>3
  <2>12. willingThen = willing
    <3> HIDE DEF threw, threwThen, info
    <3> QED BY Zenon, <2>2, <2>3, <2>11
  <2>13. /\ Exceptions' = 1 .. Len(sent') - 1
         /\ [i \in Exceptions' |-> ThrewAt(i)'] = NewestFirst(threwThen)
         /\ [i \in DOMAIN Last(sent').matches |-> Value(Last(sent').matches[i].sourceLocation)] =
              NewestFirst(IF willingThen # {} THEN willingThen ELSE Core!Alive' \ threwThen)
         /\ Last(sent').kind = "inapplicable_matches" <=> willingThen # {}
    <3> HIDE DEF threw, threwThen, willing, willingThen, r
    <3> QED BY Zenon, <2>1, <2>3, <2>5, <2>8, <2>9, <2>10, <2>11, <2>12 DEF candidates
  <2> QED BY Zenon, <2>13 DEF FailureNamesEveryCandidate
<1>2. ASSUME ~ TurnedDown'  PROVE FailureNamesEveryCandidate'
  BY <1>2 DEF FailureNamesEveryCandidate
<1> QED BY <1>1, <1>2, MatchedStep, AbortedStep, OtherSteps DEF Next

\* A call that is turned down reports every candidate once, newest first, and
\* every exception that kept one from being a candidate before that.
THEOREM FailuresNameCandidates == Spec => []FailureNamesEveryCandidate
<1>1. Init => FailureNamesEveryCandidate
  BY DEF Init, FailureNamesEveryCandidate, TurnedDown
<1>2. FailureNamesEveryCandidate /\ UNCHANGED vars => FailureNamesEveryCandidate'
  BY DEF vars, FailureNamesEveryCandidate, Exceptions, ThrewAt, TurnedDown, TheInfo,
         TheCall, Policies, Core!Alive, Core!Created
<1>3. Core!IInv => Core!TypeOK
  BY DEF Core!IInv
<1>4. Core!IInv /\ FailureNamesEveryCandidate /\ [Next]_vars => FailureNamesEveryCandidate'
  BY <1>2, <1>3, FailureStep
<1> QED BY <1>1, <1>4, CoreInvariance, PTL DEF Spec

-----------------------------------------------------------------------------
(* Assertions *)

\* Reports of exceptions and of expectations are not checked.
LEMMA UncheckedReports ==
    ASSUME NEW r, r.kind \in {"unhandled_exception", "unfulfilled_expectation"}
    PROVE  DefaultReporterAsserts(r)
BY DEF DefaultReporterAsserts

LEMMA RejectionAsserts ==
    ASSUME Core!TypeOK, NEW info
    PROVE  DefaultReporterAsserts(Rejection(info))
<1> DEFINE r == Rejection(info)
           R == Resulting(info, "inapplicable")
           result == IF R # {} THEN "inapplicable" ELSE "none"
<1>1. /\ r.kind = IF R # {} THEN "inapplicable_matches" ELSE "no_matches"
      /\ r.matches = Collected(info, result)
  <2> HIDE DEF r
  <2> QED BY RejectionReports DEF r
<1>2. ASSUME NEW i \in DOMAIN r.matches
      PROVE  EvaluateMatchReport(r.matches[i]) = result
  <2> HIDE DEF r, result
  <2>1. PICK e \in Resulting(info, result) : r.matches[i] = MatchReport(e, info)
    BY <1>1, CollectedReports
  <2>2. EvaluateMatchReport(MatchReport(e, info)) = result
    BY DEF Resulting
  <2> QED BY Zenon, <2>1, <2>2
<1> HIDE DEF r, R
<1>3. CASE R # {}
  <2>1. result = "inapplicable" /\ r.kind = "inapplicable_matches"
    BY <1>1, <1>3
  <2> QED BY <1>2, <2>1 DEF DefaultReporterAsserts, r
<1>4. CASE R = {}
  <2>1. result = "none" /\ r.kind = "no_matches"
    BY <1>1, <1>4
  <2> QED BY <1>2, <2>1 DEF DefaultReporterAsserts, r
<1> QED BY <1>3, <1>4

LEMMA FullMatchAsserts ==
    ASSUME NEW info, NEW call, NEW e \in Accepting(info),
           Core!ControlState(expectations[e]) = "applicable"
    PROVE  DefaultReporterAsserts(FullMatch(call, MatchReport(e, info)))
<1> DEFINE m == MatchReport(e, info)
           r == FullMatch(call, m)
<1>1. EvaluateMatchReport(m) = "full"
  <2>1. ~ \E p \in Policies(e) : ~ Matches(p, info)
    BY DEF Accepting
  <2> QED BY <2>1, EvaluatedMatch
<1> HIDE DEF m
<1>2. r.kind = "full_match" /\ r.matches = <<m>>
  BY Zenon, ReportFields
<1> HIDE DEF r
<1>3. \A i \in DOMAIN r.matches : r.matches[i] = m
  <2>1. \A i \in DOMAIN <<m>> : <<m>>[i] = m
    OBVIOUS
  <2> QED BY Zenon, <1>2, <2>1
<1>4. \A i \in DOMAIN r.matches : EvaluateMatchReport(r.matches[i]) = "full"
  BY Zenon, <1>1, <1>3
<1>5. DefaultReporterAsserts(r)
  BY <1>2, <1>4 DEF DefaultReporterAsserts
<1> QED BY <1>5 DEF r, m

\* The exceptions before it do not matter.
LEMMA CallAsserts ==
    ASSUME Core!TypeOK, NEW info, NEW r, DefaultReporterAsserts(r),
           sent' = Append(Unhandled(info), r) \/ sent' = Unhandled(info)
    PROVE  \A i \in DOMAIN sent' : DefaultReporterAsserts(sent'[i])
<1> DEFINE n == Cardinality(Threw(info))
<1>1. /\ n \in Nat
      /\ Len(Unhandled(info)) = n
      /\ Unhandled(info) \in Seq(Range(Unhandled(info)))
      /\ \A i \in 1 .. n : Unhandled(info)[i].kind = "unhandled_exception"
  BY UnhandledReports
<1>2. \A i \in 1 .. n : DefaultReporterAsserts(Unhandled(info)[i])
  BY <1>1, UncheckedReports
<1> HIDE DEF n
<1>3. CASE sent' = Unhandled(info)
  <2>1. DOMAIN sent' = 1 .. n
    BY <1>1, <1>3
  <2> QED BY Zenon, <1>2, <1>3, <2>1
<1>4. CASE sent' = Append(Unhandled(info), r)
  <2>1. /\ DOMAIN sent' = 1 .. n + 1
        /\ \A i \in 1 .. n : sent'[i] = Unhandled(info)[i]
        /\ Len(sent') = n + 1 /\ Last(sent') = r
    BY <1>4, ReportedLast DEF n
  <2>2. sent'[n + 1] = r
    BY <2>1 DEF Last
  <2>3. \A i \in DOMAIN sent' : i \in 1 .. n \/ i = n + 1
    BY <1>1, <2>1
  <2> QED BY Zenon, <1>2, <2>1, <2>2, <2>3
<1> QED BY <1>3, <1>4

LEMMA AssertionStep ==
    ASSUME Core!TypeOK, Core!IInv', Next
    PROVE  AssertionsHold'
<1> DEFINE Checked == \A i \in DOMAIN sent' : DefaultReporterAsserts(sent'[i])
           Consumed == Answered' =>
                          \A p \in Policies(TheAnswering)' : ConsumeAsserts(p, TheInfo')
<1>1. ASSUME NEW o \in Overloads, NEW args \in Inputs, CallMatched(o, args)
      PROVE  Checked /\ Consumed
  <2> DEFINE info == Info(o, args)
  <2>1. PICK best \in Accepting(info) :
          /\ Core!ControlState(expectations[best]) = "applicable"
          /\ UNCHANGED <<built, reporter>>
          /\ sent' = Append(Unhandled(info),
                       FullMatch(MakeCallReport(info), MatchReport(best, info)))
          /\ TheAnswering' = best
          /\ TheCall' = [overload |-> o, args |-> args]
    BY <1>1, MatchedStep
  <2>2. Checked
    BY <2>1, FullMatchAsserts, CallAsserts
  <2>3. TheInfo' = info
    <3>1. TheCall'.overload = o /\ TheCall'.args = args
      BY Zenon, <2>1
    <3> QED BY Zenon, <3>1 DEF TheInfo
  <2>4. Policies(TheAnswering)' = Policies(best)
    BY <2>1 DEF Policies
  <2>5. \A p \in Policies(best) : Matches(p, info)
    BY DEF Accepting
  <2>6. Consumed
    BY Zenon, <2>3, <2>4, <2>5 DEF ConsumeAsserts
  <2> QED BY <2>2, <2>6
<1>2. ASSUME NEW o \in Overloads, NEW args \in Inputs, CallRejected(o, args)
      PROVE  Checked /\ Consumed
  <2>1. /\ sent' = Append(Unhandled(Info(o, args)), Rejection(Info(o, args)))
        /\ ~ Answered'
    BY <1>2, RejectedStep
  <2> QED BY <2>1, RejectionAsserts, CallAsserts
<1>3. ASSUME NEW o \in Overloads, NEW args \in Inputs, CallAborted(o, args)
      PROVE  Checked /\ Consumed
  <2>1. sent' = Unhandled(Info(o, args)) /\ ~ Answered'
    BY <1>3, AbortedStep
  <2> QED BY <2>1, RejectionAsserts, CallAsserts
<1>4. ASSUME NEW e \in Core!Created, DestroyExpectation(e)  PROVE Checked /\ Consumed
  <2> DEFINE r == UnfulfilledExpectation(ExpectationReport(e))
  <2>1. sent' = <<r>> \/ sent' = << >>
    BY <1>4 DEF DestroyExpectation
  <2>2. DefaultReporterAsserts(r)
    BY UnfulfilledFields, UncheckedReports
  <2> HIDE DEF r
  <2>3. \A i \in DOMAIN sent' : sent'[i] = r
    BY <2>1
  <2>4. Checked
    BY Zenon, <2>2, <2>3
  <2>5. Consumed
    BY <1>4, OtherSteps
  <2> QED BY <2>4, <2>5
<1>5. ASSUME \/ \E r \in Recipes : Expect(r)
             \/ \E r \in Installed : InstallReporter(r)
      PROVE  Checked /\ Consumed
  <2>1. sent' = << >>
    BY <1>5 DEF Expect, InstallReporter
  <2>2. ~ Answered'
    BY <1>5, OtherSteps
  <2> QED BY <2>1, <2>2
<1>6. Checked /\ Consumed
  BY <1>1, <1>2, <1>3, <1>4, <1>5 DEF Next
<1>7. Core!AssertionsHold'
  BY DEF Core!IInv
<1> QED BY <1>6, <1>7 DEF AssertionsHold

\* No assertion about a report, a policy, a sequence or a control policy can
\* fail, also in calls with exceptions.
THEOREM AssertionsNeverFail == Spec => []AssertionsHold
<1>1. Init => AssertionsHold
  <2> SUFFICES ASSUME Init  PROVE AssertionsHold
    OBVIOUS
  <2>1. asserted = TRUE /\ sent = << >>
    BY DEF Init, Core!Init
  <2> QED BY <2>1 DEF AssertionsHold, Core!AssertionsHold, Answered
<1>2. AssertionsHold /\ UNCHANGED vars => AssertionsHold'
  BY DEF vars, AssertionsHold, Core!AssertionsHold, Answered, TheAnswering, TheInfo,
         TheCall, Policies
<1>3. Core!IInv => Core!TypeOK
  BY DEF Core!IInv
<1>4. Core!IInv /\ Core!IInv' /\ AssertionsHold /\ [Next]_vars => AssertionsHold'
  BY <1>2, <1>3, AssertionStep
<1> QED BY <1>1, <1>4, CoreInvariance, PTL DEF Spec

-----------------------------------------------------------------------------
(* What the texts say *)

\* The values of optionals, of which the printers list those that are there.
LEMMA ListedValues ==
    ASSUME NEW o, NEW n \in Nat, DOMAIN o = 1 .. n,
           \A i \in 1 .. n : o[i] = {} \/ \E v : o[i] = {v}
    PROVE  /\ Range(Values(o)) = UNION {o[i] : i \in 1 .. n}
           /\ Values(o) # << >> <=> \E i \in 1 .. n : o[i] # {}
<1> DEFINE S == {i \in 1 .. n : o[i] # {}}
           present == InOrder(S)
<1>1. S \in SUBSET Int /\ IsFiniteSet(S)
  <2>1. IsFiniteSet(1 .. n)
    BY FS_Interval
  <2> QED BY <2>1, FS_Subset
<1>2. /\ Cardinality(S) \in Nat
      /\ present \in [1 .. Cardinality(S) -> S]
      /\ \A i \in S : \E k \in 1 .. Cardinality(S) : present[k] = i
  BY <1>1, InOrderIsAscending
<1>3. DOMAIN present = 1 .. Cardinality(S)
  BY <1>2
<1>4. Values(o) = [k \in 1 .. Cardinality(S) |-> Value(o[present[k]])]
  <2>1. S = {i \in DOMAIN o : Present(o[i])}
    BY Zenon DEF Present
  <2> HIDE DEF S
  <2> QED BY Zenon, <1>3, <2>1 DEF Values
<1>5. \A i \in S : o[i] = {Value(o[i])}
  BY Zenon, ValueOfOne
<1> DEFINE v == Values(o)
<1>6. DOMAIN v = 1 .. Cardinality(S) /\ \A k \in DOMAIN v : v[k] = Value(o[present[k]])
  <2> HIDE DEF S, present
  <2> QED BY Zenon, <1>4
<1>7. \A k \in 1 .. Cardinality(S) : present[k] \in S
  BY <1>2
<1>8. Range(v) = UNION {o[i] : i \in 1 .. n}
  <2>1. ASSUME NEW x \in Range(v)  PROVE x \in UNION {o[i] : i \in 1 .. n}
    <3> HIDE DEF v, present
    <3>1. PICK k \in DOMAIN v : x = v[k]
      BY Zenon DEF Range
    <3>2. x \in o[present[k]] /\ present[k] \in 1 .. n
      BY Zenon, <1>5, <1>6, <1>7, <3>1
    <3> QED BY Zenon, <3>2
  <2>2. ASSUME NEW x \in UNION {o[i] : i \in 1 .. n}  PROVE x \in Range(v)
    <3> HIDE DEF v, present
    <3>1. PICK i \in 1 .. n : x \in o[i]
      BY Zenon
    <3>2. i \in S
      BY Zenon, <3>1
    <3>3. PICK k \in 1 .. Cardinality(S) : present[k] = i
      BY Zenon, <1>2, <3>2
    <3>4. x = Value(o[i])
      BY Zenon, <1>5, <3>1, <3>2
    <3>5. v[k] = x /\ k \in DOMAIN v
      BY Zenon, <1>6, <3>3, <3>4
    <3> QED BY Zenon, <3>5 DEF Range
  <2> HIDE DEF v
  <2> QED BY Zenon, <2>1, <2>2
<1>9. v # << >> <=> S # {}
  <2>1. ASSUME v = << >>  PROVE S = {}
    <3> HIDE DEF v, S, present
    <3>1. DOMAIN v = {}
      BY <2>1
    <3> QED BY Zenon, <1>2, <1>6, <3>1
  <2>2. ASSUME S = {}  PROVE v = << >>
    <3> HIDE DEF S, present
    <3>1. Cardinality(S) = 0
      BY <2>2, FS_EmptySet
    <3>2. v \in [1 .. 0 -> {}]
      BY <1>4, <3>1
    <3>3. v \in Seq({}) /\ Len(v) = 0
      BY <3>2
    <3> QED BY <3>3
  <2> QED BY <2>1, <2>2
<1> HIDE DEF v
<1>10. S # {} <=> \E i \in 1 .. n : o[i] # {}
  BY Zenon
<1> QED BY <1>8, <1>9, <1>10 DEF v

\* A policy matches or does not; one that does not has a description.
LEMMA PolicyTexts ==
    ASSUME NEW p, p.kind \in PolicyKinds, NEW info
    PROVE  /\ Matches(p, info) \in BOOLEAN
           /\ Describe(p) = {} \/ \E text : Describe(p) = {text}
           /\ ~ Matches(p, info) => Describe(p) # {}
<1>1. p.kind \in {"args", "category", "constness", "side effect"}
  BY DEF PolicyKinds
<1>2. Matches(p, info) \in BOOLEAN
  <2>1. p.kind = "args" => Matches(p, info) \in BOOLEAN
    BY DEF Matches
  <2>2. p.kind = "category" => Matches(p, info) \in BOOLEAN
    BY DEF Matches, IsMatching
  <2>3. p.kind = "constness" => Matches(p, info) \in BOOLEAN
    BY DEF Matches, IsMatching
  <2>4. p.kind = "side effect" => Matches(p, info) \in BOOLEAN
    BY DEF Matches
  <2> QED BY <1>1, <2>1, <2>2, <2>3, <2>4
<1>3. p.kind = "side effect" => Describe(p) = {} /\ Matches(p, info)
  BY <1>1 DEF Describe, Matches
<1>4. p.kind = "args" =>
        Describe(p) = {[expects |-> "args", of |-> p.indices, text |-> p.matcher.text]}
  BY Zenon DEF Describe
<1>5. p.kind # "args" /\ p.kind # "side effect" =>
        Describe(p) = {[expects |-> p.kind, of |-> << >>, text |-> ""]}
  BY Zenon DEF Describe
<1>6. p.kind # "side effect" => \E text : Describe(p) = {text}
  BY Zenon, <1>4, <1>5
<1>7. \A text : {text} # {}
  BY Zenon
<1> QED BY Zenon, <1>2, <1>3, <1>6, <1>7

\* The descriptions a printer lists for one outcome of the policies.
LEMMA ListedDescriptions ==
    ASSUME Core!TypeOK, TypeInv, NEW e \in Core!Created, NEW info, NEW which \in BOOLEAN
    PROVE  LET d == Descriptions(MatchReport(e, info), which)
               P == {p \in Policies(e) : Matches(p, info) = which}
           IN  /\ Range(d) = UNION {Describe(p) : p \in P}
               /\ d # << >> <=> \E p \in P : Describe(p) # {}
<1> DEFINE m == MatchReport(e, info)
           policies == built[e].policies
           reports == m.expectationReports
           S == {i \in DOMAIN reports : reports[i].isMatching = which}
           listed == InOrder(S)
           o == [k \in DOMAIN listed |-> reports[listed[k]].description]
           P == {p \in Policies(e) : Matches(p, info) = which}
           N == Cardinality(S)
<1>1. /\ Len(policies) \in Nat
      /\ DOMAIN policies = 1 .. Len(policies)
      /\ \A p \in Policies(e) : p.kind \in PolicyKinds
  BY PoliciesAreTyped
<1>2. /\ DOMAIN reports = DOMAIN policies
      /\ \A i \in DOMAIN policies : /\ reports[i].isMatching = Matches(policies[i], info)
                                    /\ reports[i].description = Describe(policies[i])
  BY MatchReportFields
<1> HIDE DEF m, policies
<1>3. S \in SUBSET Int /\ IsFiniteSet(S)
  <2>1. IsFiniteSet(1 .. Len(policies))
    BY <1>1, FS_Interval
  <2>2. S \subseteq 1 .. Len(policies)
    BY <1>1, <1>2
  <2> QED BY <1>1, <2>1, <2>2, FS_Subset
<1>4. /\ N \in Nat
      /\ listed \in [1 .. N -> S]
      /\ \A i \in S : \E k \in 1 .. N : listed[k] = i
  BY <1>3, InOrderIsAscending
<1>5. DOMAIN listed = 1 .. N /\ \A k \in 1 .. N : listed[k] \in S
  BY <1>4
<1> HIDE DEF N
<1>6. DOMAIN o = 1 .. N
  BY Zenon, <1>5
<1>7. \A i \in DOMAIN policies : policies[i] \in Policies(e)
  BY Zenon DEF Policies, Range, policies
<1>8. \A i \in S : /\ i \in DOMAIN policies
                   /\ policies[i] \in P
                   /\ reports[i].description = Describe(policies[i])
  BY Zenon, <1>2, <1>7
<1>9. \A k \in 1 .. N : o[k] = Describe(policies[listed[k]])
  BY Zenon, <1>5, <1>8
<1>10. \A k \in 1 .. N : o[k] = {} \/ \E text : o[k] = {text}
  <2>1. \A p \in Policies(e) : Describe(p) = {} \/ \E text : Describe(p) = {text}
    BY <1>1, PolicyTexts
  <2> HIDE DEF S
  <2>2. \A k \in 1 .. N : policies[listed[k]] \in Policies(e)
    BY Zenon, <1>5, <1>8
  <2> QED BY Zenon, <1>9, <2>1, <2>2
<1>11. Descriptions(m, which) = Values(o)
  BY Zenon DEF Descriptions
<1> HIDE DEF o, listed
<1>12. /\ Range(Values(o)) = UNION {o[k] : k \in 1 .. N}
       /\ Values(o) # << >> <=> \E k \in 1 .. N : o[k] # {}
  BY <1>4, <1>6, <1>10, ListedValues
<1>13. \A p \in P : \E k \in 1 .. N : o[k] = Describe(p)
  <2> SUFFICES ASSUME NEW p \in P  PROVE \E k \in 1 .. N : o[k] = Describe(p)
    BY Zenon
  <2>1. PICK i \in DOMAIN policies : p = policies[i]
    BY Zenon DEF Policies, Range, policies
  <2>2. i \in S
    BY Zenon, <1>2, <2>1
  <2>3. PICK k \in 1 .. N : listed[k] = i
    BY Zenon, <1>4, <2>2
  <2> QED BY Zenon, <1>9, <2>1, <2>3
<1>14. \A k \in 1 .. N : \E p \in P : o[k] = Describe(p)
  BY Zenon, <1>5, <1>8, <1>9
<1> HIDE DEF P, S
<1>15. UNION {o[k] : k \in 1 .. N} = UNION {Describe(p) : p \in P}
  <2>1. ASSUME NEW x \in UNION {o[k] : k \in 1 .. N}
        PROVE  x \in UNION {Describe(p) : p \in P}
    BY Zenon, <1>14
  <2>2. ASSUME NEW x \in UNION {Describe(p) : p \in P}
        PROVE  x \in UNION {o[k] : k \in 1 .. N}
    BY Zenon, <1>13
  <2> QED BY Zenon, <2>1, <2>2
<1>16. (\E k \in 1 .. N : o[k] # {}) <=> \E p \in P : Describe(p) # {}
  BY Zenon, <1>13, <1>14
<1> QED BY Zenon, <1>11, <1>12, <1>15, <1>16 DEF P, m

\* What is printed of the matches of an expectation.
LEMMA TimesTexts ==
    ASSUME NEW count, NEW min, NEW max
    PROVE  LET t == PrintTimesState(count, min, max)
           IN  /\ t.says = "saturated" <=> count = max
               /\ t.matched = count
               /\ count # max /\ ~ (min <= count) =>
                     t = [says |-> "expected", matched |-> count, low |-> min, high |-> max]
<1> DEFINE t == PrintTimesState(count, min, max)
<1>1. ASSUME NEW u, NEW says, NEW low, NEW high,
             u = [says |-> says, matched |-> count, low |-> low, high |-> high]
      PROVE  u.says = says /\ u.matched = count
  BY Zenon, <1>1
<1>2. CASE count = max
  <2>1. t = [says |-> "saturated", matched |-> count, low |-> 0, high |-> 0]
    BY Zenon, <1>2 DEF PrintTimesState
  <2> HIDE DEF t
  <2>2. t.says = "saturated" /\ t.matched = count
    BY <1>1, <2>1
  <2> QED BY Zenon, <1>2, <2>2 DEF t
<1>3. CASE count # max /\ min <= count
  <2>1. t = [says |-> "accepts", matched |-> count, low |-> 0, high |-> max]
    BY Zenon, <1>3 DEF PrintTimesState
  <2> HIDE DEF t
  <2>2. t.says = "accepts" /\ t.matched = count
    BY <1>1, <2>1
  <2>3. t.says # "saturated"
    BY <2>2
  <2> QED BY Zenon, <1>3, <2>2, <2>3 DEF t
<1>4. CASE count # max /\ ~ (min <= count)
  <2>1. t = [says |-> "expected", matched |-> count, low |-> min, high |-> max]
    BY Zenon, <1>4 DEF PrintTimesState
  <2> HIDE DEF t
  <2>2. t.says = "expected" /\ t.matched = count
    BY <1>1, <2>1
  <2>3. t.says # "saturated"
    BY <2>2
  <2> QED BY Zenon, <1>4, <2>1, <2>2, <2>3 DEF t
<1> QED BY Zenon, <1>2, <1>3, <1>4

LEMMA ControlReportTimes ==
    ASSUME NEW e
    PROVE  LET x == expectations[e]
           IN  PrintControlState(ControlReport(e)).times =
                  PrintTimesState(x.count, x.min, x.max)
<1> DEFINE x == expectations[e]
           times == [min |-> x.min, max |-> x.max, count |-> x.count]
           c == ControlReport(e)
<1>1. times.min = x.min /\ times.max = x.max /\ times.count = x.count
  BY Zenon
<1>2. c.times = times
  <2>1. /\ \A t, g : StateSaturated(t, g).times = t
        /\ \A t, r : StateApplicable(t, r).times = t
        /\ \A t, r, g : StateInapplicable(t, r, g).times = t
    BY Zenon DEF StateSaturated, StateApplicable, StateInapplicable
  <2>2. Core!ControlState(x) \in {"saturated", "inapplicable", "applicable"}
    BY DEF Core!ControlState
  <2>3. CASE Core!ControlState(x) = "saturated"
    <3>1. \E g : c = StateSaturated(times, g)
      BY Zenon, <2>3 DEF ControlReport
    <3> HIDE DEF c, times
    <3> QED BY Zenon, <2>1, <3>1
  <2>4. CASE Core!ControlState(x) = "applicable"
    <3>1. \E r : c = StateApplicable(times, r)
      BY Zenon, <2>4 DEF ControlReport
    <3> HIDE DEF c, times
    <3> QED BY Zenon, <2>1, <3>1
  <2>5. CASE Core!ControlState(x) = "inapplicable"
    <3>1. PICK r, g : c = StateInapplicable(times, r, g)
      BY Zenon, <2>5 DEF ControlReport
    <3> HIDE DEF c, times
    <3> QED BY Zenon, <2>1, <3>1
  <2> QED BY <2>2, <2>3, <2>4, <2>5
<1>3. PrintControlState(c).times = PrintTimesState(c.times.count, c.times.min, c.times.max)
  BY Zenon DEF PrintControlState
<1> HIDE DEF c, times
<1> QED BY Zenon, <1>1, <1>2, <1>3 DEF c

\* The sequences that hold an expectation up.
LEMMA HeldUpSequences ==
    ASSUME Core!IInv, NEW e \in Core!Created,
           expectations[e].count < expectations[e].max,
           NEW s \in DOMAIN expectations[e].ids
    PROVE  ~ Core!IsConsumable(sequence[s], expectations[e].ids[s]) <=> IsHeldUp(e, s)
<1>1. Core!TypeOK
  BY DEF Core!IInv
<1>2. s \in Core!SequenceNames /\ e \in Core!Attached(s)
  BY <1>1, Core!ExpectationFields, CoreConstants DEF Core!Attached
<1>3. Core!IsConsumable(sequence[s], Core!IdOf(e, s)) <=>
        \A f \in Core!Attached(s) :
           /\ f < e => expectations[f].count >= expectations[f].min
           /\ f > e => expectations[f].count = 0
  BY <1>2, Core!ConsumableExactlyInTurn, CoreConstants
<1>4. \A f \in Core!Attached(s) : expectations[f].count \in Nat /\ expectations[f].min \in Nat
  BY <1>1, Core!ExpectationFields, CoreConstants DEF Core!Attached
<1>5. \A f \in Core!Attached(s) :
        /\ expectations[f].count >= expectations[f].min <=>
              ~ (expectations[f].count < expectations[f].min)
        /\ expectations[f].count = 0 <=> ~ (expectations[f].count > 0)
  BY <1>4
<1> QED BY Zenon, <1>3, <1>5 DEF IsHeldUp, Core!IdOf

\* The reason that is given for an inapplicable match.
LEMMA ReasonIsTrue ==
    ASSUME Core!IInv, NEW e \in Core!Created,
           Core!ControlState(expectations[e]) # "applicable"
    PROVE  LET reason == PrintControlState(ControlReport(e))
               x == expectations[e]
           IN  /\ reason.times.says = "saturated" <=> x.count = x.max
               /\ reason.times.matched = x.count
               /\ reason.times.says # "saturated" =>
                     /\ reason.notCurrent # {}
                     /\ reason.notCurrent = {s \in DOMAIN x.ids : IsHeldUp(e, s)}
<1> DEFINE reason == PrintControlState(ControlReport(e))
           x == expectations[e]
           ratings == {s \in DOMAIN x.ids : Core!IsConsumable(sequence[s], x.ids[s])}
<1>1. /\ reason.times.says = "saturated" <=> x.count = x.max
      /\ reason.times.matched = x.count
  <2> DEFINE t == PrintTimesState(x.count, x.min, x.max)
  <2>1. reason.times = t
    BY ControlReportTimes
  <2>2. /\ t.says = "saturated" <=> x.count = x.max
        /\ t.matched = x.count
    BY TimesTexts
  <2> HIDE DEF t, reason, x
  <2> QED BY Zenon, <2>1, <2>2
<1>2. ASSUME x.count # x.max
      PROVE  /\ reason.notCurrent # {}
             /\ reason.notCurrent = {s \in DOMAIN x.ids : IsHeldUp(e, s)}
  <2>1. Core!ControlState(x) = "inapplicable"
    BY <1>2 DEF Core!ControlState
  <2>2. \E s \in DOMAIN x.ids : ~ Core!IsConsumable(sequence[s], x.ids[s])
    BY <1>2 DEF Core!ControlState
  <2>3. x.count < x.max
    <3>1. x.count \in Nat /\ x.max \in Nat
      BY Core!ExpectationFields, CoreConstants DEF Core!IInv
    <3>2. x.count <= x.max
      BY DEF Core!IInv
    <3> QED BY <1>2, <3>1, <3>2
  <2>4. reason.notCurrent = DOMAIN x.ids \ ratings
    <3> DEFINE c == ControlReport(e)
               inapplicable == StateInapplicable(
                  [min |-> x.min, max |-> x.max, count |-> x.count],
                  ratings, DOMAIN x.ids \ ratings)
    <3>1. c = inapplicable
      BY Zenon, <2>1 DEF ControlReport
    <3>2. inapplicable.is = "inapplicable" /\ inapplicable.tags = DOMAIN x.ids \ ratings
      BY Zenon DEF StateInapplicable
    <3> HIDE DEF inapplicable, c
    <3>3. PrintControlState(c).notCurrent = c.tags
      BY Zenon, <3>1, <3>2 DEF PrintControlState
    <3> QED BY Zenon, <3>1, <3>2, <3>3 DEF c
  <2>5. \A s \in DOMAIN x.ids : s \notin ratings <=> IsHeldUp(e, s)
    BY <2>3, HeldUpSequences
  <2> HIDE DEF reason
  <2>6. reason.notCurrent # {}
    BY Zenon, <2>2, <2>4
  <2>7. reason.notCurrent = {s \in DOMAIN x.ids : IsHeldUp(e, s)}
    BY Zenon, <2>4, <2>5
  <2> QED BY <2>6, <2>7
<1> HIDE DEF reason, x
<1> QED BY Zenon, <1>1, <1>2 DEF reason, x

\* What is said of one match.
LEMMA MatchTexts ==
    ASSUME Core!IInv, TypeInv, NEW e \in Core!Created, NEW info,
           NEW m, m = PrintMatchReport(MatchReport(e, info))
    PROVE  LET x == expectations[e]
               failing == {p \in Policies(e) : ~ Matches(p, info)}
           IN  /\ Value(m.from) = e
               /\ Range(m.failed) = UNION {Describe(p) : p \in failing}
               /\ Range(m.passed) = UNION {Describe(p) : p \in Policies(e) \ failing}
               /\ m.result = "none" <=> m.failed # << >>
               /\ m.reason # {} =>
                    LET reason == Value(m.reason)
                    IN  /\ reason.times.says = "saturated" <=> x.count = x.max
                        /\ reason.times.matched = x.count
                        /\ reason.times.says # "saturated" =>
                             /\ reason.notCurrent # {}
                             /\ reason.notCurrent =
                                  {s \in DOMAIN x.ids : IsHeldUp(e, s)}
<1> DEFINE r == MatchReport(e, info)
           failing == {p \in Policies(e) : ~ Matches(p, info)}
           result == EvaluateMatchReport(r)
           reasons == IF result = "inapplicable"
                      THEN {PrintControlState(r.controlReport)} ELSE {}
<1>0. Core!TypeOK
  BY DEF Core!IInv
<1>1. /\ m.result = result
      /\ m.reason = reasons
      /\ m.from = r.sourceLocation
      /\ m.failed = Descriptions(r, FALSE)
      /\ m.passed = Descriptions(r, TRUE)
  BY Zenon DEF PrintMatchReport
<1>2. \A p \in Policies(e) : /\ p.kind \in PolicyKinds
                             /\ Matches(p, info) \in BOOLEAN
                             /\ ~ Matches(p, info) => Describe(p) # {}
  BY <1>0, PoliciesAreTyped, PolicyTexts
<1>3. failing = {p \in Policies(e) : Matches(p, info) = FALSE}
  BY <1>2
<1>4. Policies(e) \ failing = {p \in Policies(e) : Matches(p, info) = TRUE}
  BY <1>2
<1>5. /\ Range(Descriptions(r, FALSE)) = UNION {Describe(p) : p \in failing}
      /\ Descriptions(r, FALSE) # << >> <=> \E p \in failing : Describe(p) # {}
  <2> HIDE DEF r
  <2>1. LET P == {p \in Policies(e) : Matches(p, info) = FALSE}
        IN  /\ Range(Descriptions(r, FALSE)) = UNION {Describe(p) : p \in P}
            /\ Descriptions(r, FALSE) # << >> <=> \E p \in P : Describe(p) # {}
    BY <1>0, ListedDescriptions DEF r
  <2> HIDE DEF failing
  <2> QED BY Zenon, <1>3, <2>1
<1>6. Range(Descriptions(r, TRUE)) = UNION {Describe(p) : p \in Policies(e) \ failing}
  <2> HIDE DEF r
  <2>1. LET P == {p \in Policies(e) : Matches(p, info) = TRUE}
        IN  Range(Descriptions(r, TRUE)) = UNION {Describe(p) : p \in P}
    BY <1>0, ListedDescriptions DEF r
  <2> HIDE DEF failing
  <2> QED BY Zenon, <1>4, <2>1
<1>7. result = IF \E p \in Policies(e) : ~ Matches(p, info) THEN "none"
               ELSE IF Core!ControlState(expectations[e]) # "applicable" THEN "inapplicable"
               ELSE "full"
  BY EvaluatedMatch
<1>8. result = "none" <=> \E p \in failing : Describe(p) # {}
  <2>1. result = "none" <=> \E p \in Policies(e) : ~ Matches(p, info)
    <3> HIDE DEF result
    <3> QED BY <1>7
  <2> HIDE DEF result
  <2> QED BY Zenon, <1>2, <2>1
<1>9. Value(m.from) = e
  BY Zenon, <1>1, WhoseReport
<1>10. m.reason # {} => LET reason == Value(m.reason)
                            x == expectations[e]
                        IN  /\ reason.times.says = "saturated" <=> x.count = x.max
                            /\ reason.times.matched = x.count
                            /\ reason.times.says # "saturated" =>
                                 /\ reason.notCurrent # {}
                                 /\ reason.notCurrent =
                                      {s \in DOMAIN x.ids : IsHeldUp(e, s)}
  <2> SUFFICES ASSUME m.reason # {}
               PROVE  LET reason == Value(m.reason)
                          x == expectations[e]
                      IN  /\ reason.times.says = "saturated" <=> x.count = x.max
                          /\ reason.times.matched = x.count
                          /\ reason.times.says # "saturated" =>
                               /\ reason.notCurrent # {}
                               /\ reason.notCurrent =
                                    {s \in DOMAIN x.ids : IsHeldUp(e, s)}
    BY Zenon
  <2>1. result = "inapplicable"
    BY Zenon, <1>1
  <2>2. m.reason = {PrintControlState(ControlReport(e))}
    <3>1. r.controlReport = ControlReport(e)
      BY MatchReportFields
    <3> HIDE DEF r, result
    <3> QED BY Zenon, <1>1, <2>1, <3>1
  <2>3. Core!ControlState(expectations[e]) # "applicable"
    <3> HIDE DEF result
    <3> QED BY <1>7, <2>1
  <2>4. Value(m.reason) = PrintControlState(ControlReport(e))
    BY Zenon, <2>2, ValueOfOne
  <2> QED BY Zenon, <2>3, <2>4, ReasonIsTrue
<1> HIDE DEF r, failing, result
<1>11. /\ Range(m.failed) = UNION {Describe(p) : p \in failing}
       /\ Range(m.passed) = UNION {Describe(p) : p \in Policies(e) \ failing}
       /\ m.result = "none" <=> m.failed # << >>
  BY Zenon, <1>1, <1>5, <1>6, <1>8
<1> QED BY Zenon, <1>9, <1>10, <1>11 DEF failing

\* What is said of the matches of a call that is turned down.
LEMMA RejectionTexts ==
    ASSUME Core!IInv, TypeInv, NEW info,
           NEW i \in DOMAIN Rejection(info).matches
    PROVE  \E e \in Core!Created :
              Stringify(Rejection(info)).matches[i] = PrintMatchReport(MatchReport(e, info))
<1> DEFINE r == Rejection(info)
           R == Resulting(info, "inapplicable")
           result == IF R # {} THEN "inapplicable" ELSE "none"
<1>0. Core!TypeOK
  BY DEF Core!IInv
<1>1. /\ r.kind \in {"no_matches", "inapplicable_matches"}
      /\ r.matches = Collected(info, result)
  <2> HIDE DEF r
  <2> QED BY <1>0, RejectionReports DEF r
<1> HIDE DEF r, result
<1>2. Stringify(r).matches = PrintAll(r.matches)
  <2>1. CASE r.kind = "no_matches"
    <3>1. Stringify(r) = StringifyNoMatchReport(r)
      BY <2>1 DEF Stringify
    <3>2. StringifyNoMatchReport(r).matches = PrintAll(r.matches)
      BY Zenon DEF StringifyNoMatchReport
    <3> QED BY Zenon, <3>1, <3>2
  <2>2. CASE r.kind = "inapplicable_matches"
    <3>1. Stringify(r) = StringifyInapplicableMatchReport(r)
      BY <2>2 DEF Stringify
    <3>2. StringifyInapplicableMatchReport(r).matches = PrintAll(r.matches)
      BY Zenon DEF StringifyInapplicableMatchReport
    <3> QED BY Zenon, <3>1, <3>2
  <2> QED BY <1>1, <2>1, <2>2
<1>3. i \in DOMAIN r.matches
  BY DEF r
<1>4. Stringify(r).matches[i] = PrintMatchReport(r.matches[i])
  BY Zenon, <1>2, <1>3 DEF PrintAll
<1>5. PICK e \in Core!Created : r.matches[i] = MatchReport(e, info)
  <2>1. PICK e \in Resulting(info, result) : r.matches[i] = MatchReport(e, info)
    BY <1>0, <1>1, <1>3, CollectedReports
  <2>2. e \in Core!Created
    BY DEF Resulting, Walked, Core!Alive
  <2> QED BY Zenon, <2>1, <2>2
<1> QED BY Zenon, <1>4, <1>5 DEF r

\* What is said of an expectation that dies too early.
LEMMA UnfulfilledTexts ==
    ASSUME Core!IInv, NEW e \in Core!Created, ~ Core!IsSatisfied(expectations[e])
    PROVE  LET text == Stringify(UnfulfilledExpectation(ExpectationReport(e))).expectation
               x == expectations[e]
           IN  /\ Value(text.from) = e
               /\ Value(text.times).times =
                     [says |-> "expected", matched |-> x.count, low |-> x.min, high |-> x.max]
               /\ x.count < x.min
<1> DEFINE x == expectations[e]
           r == UnfulfilledExpectation(ExpectationReport(e))
           text == Stringify(r).expectation
           printed == PrintControlState(ControlReport(e))
<1>1. x.count \in Nat /\ x.min \in Nat /\ x.max \in Nat /\ x.count <= x.max /\ x.min <= x.max
  BY Core!ExpectationFields, CoreConstants DEF Core!IInv
<1>2. x.count < x.min /\ x.count # x.max /\ ~ (x.min <= x.count)
  BY <1>1 DEF Core!IsSatisfied
<1>3. r.kind = "unfulfilled_expectation" /\ r.expectation = ExpectationReport(e)
  BY Zenon, UnfulfilledFields
<1>4. text = PrintExpectationReport(ExpectationReport(e))
  <2> HIDE DEF r
  <2>1. Stringify(r) = StringifyUnfulfilledExpectation(r)
    BY <1>3 DEF Stringify
  <2>2. StringifyUnfulfilledExpectation(r).expectation = PrintExpectationReport(r.expectation)
    BY Zenon DEF StringifyUnfulfilledExpectation
  <2> QED BY Zenon, <1>3, <2>1, <2>2
<1>5. /\ PrintExpectationReport(ExpectationReport(e)).from = ExpectationReport(e).sourceLocation
      /\ PrintExpectationReport(ExpectationReport(e)).times =
            ExpectationReport(e).timesDescription
  BY Zenon DEF PrintExpectationReport
<1>6. ExpectationReport(e).timesDescription = {printed}
  BY Zenon DEF ExpectationReport
<1>7. printed.times =
        [says |-> "expected", matched |-> x.count, low |-> x.min, high |-> x.max]
  <2>1. printed.times = PrintTimesState(x.count, x.min, x.max)
    BY ControlReportTimes
  <2>2. PrintTimesState(x.count, x.min, x.max) =
          [says |-> "expected", matched |-> x.count, low |-> x.min, high |-> x.max]
    BY <1>2, TimesTexts
  <2> HIDE DEF printed
  <2> QED BY Zenon, <2>1, <2>2
<1> HIDE DEF text, printed
<1>8. Value(text.from) = e
  BY Zenon, <1>4, <1>5, WhoseReport
<1>9. Value(text.times) = printed
  BY Zenon, <1>4, <1>5, <1>6, ValueOfOne
<1> QED BY Zenon, <1>2, <1>7, <1>8, <1>9 DEF text

LEMMA TextStep ==
    ASSUME Core!IInv, TypeInv, Next
    PROVE  MessagesTellTheTruth'
<1> DEFINE Rejected == TurnedDown' =>
             \A i \in DOMAIN Last(sent').matches :
                MatchTextIsTrue(Stringify(Last(sent)).matches[i])'
           Unfulfilled == \A i \in DOMAIN sent' :
             sent'[i].kind = "unfulfilled_expectation" =>
                ExpectationTextIsTrue(Stringify(sent[i]).expectation)'
<1>0. Core!TypeOK
  BY DEF Core!IInv
<1>1. ASSUME NEW o \in Overloads, NEW args \in Inputs, CallRejected(o, args)
      PROVE  Rejected
  <2> DEFINE info == Info(o, args)
             r == Rejection(info)
  <2>1. /\ UNCHANGED <<sequence, held, expectations, asserted, built, reporter>>
        /\ Last(sent') = r
        /\ TheCall' = [overload |-> o, args |-> args]
    BY <1>0, <1>1, RejectedStep
  <2>2. TheInfo' = info
    <3>1. TheCall'.overload = o /\ TheCall'.args = args
      BY Zenon, <2>1
    <3> QED BY Zenon, <3>1 DEF TheInfo
  <2>3. \A e, s : IsHeldUp(e, s)' <=> IsHeldUp(e, s)
    BY <2>1 DEF IsHeldUp, Core!Attached, Core!Created
  <2>4. \A e : Policies(e)' = Policies(e)
    BY <2>1 DEF Policies
  <2>5. ASSUME NEW i \in DOMAIN r.matches
        PROVE  \E m : m = Stringify(r).matches[i] /\ MatchTextIsTrue(m)'
    <3>0. PICK m : m = Stringify(r).matches[i]
      OBVIOUS
    <3>1. PICK e \in Core!Created : m = PrintMatchReport(MatchReport(e, info))
      BY <3>0, RejectionTexts
    <3> DEFINE failing == {p \in Policies(e) : ~ Matches(p, info)}
    <3>2. LET x == expectations[e]
          IN  /\ Value(m.from) = e
              /\ Range(m.failed) = UNION {Describe(p) : p \in failing}
              /\ Range(m.passed) = UNION {Describe(p) : p \in Policies(e) \ failing}
              /\ m.result = "none" <=> m.failed # << >>
              /\ m.reason # {} =>
                   LET reason == Value(m.reason)
                   IN  /\ reason.times.says = "saturated" <=> x.count = x.max
                       /\ reason.times.matched = x.count
                       /\ reason.times.says # "saturated" =>
                            /\ reason.notCurrent # {}
                            /\ reason.notCurrent = {s \in DOMAIN x.ids : IsHeldUp(e, s)}
      BY <3>1, MatchTexts
    <3>3. expectations'[e] = expectations[e]
      BY <2>1
    <3> HIDE DEF info, r
    <3>4. MatchTextIsTrue(m)'
      BY Zenon, <2>2, <2>3, <2>4, <3>2, <3>3 DEF MatchTextIsTrue
    <3> QED BY Zenon, <3>0, <3>4
  <2>6. ASSUME NEW i \in DOMAIN Last(sent').matches
        PROVE  MatchTextIsTrue(Stringify(Last(sent)).matches[i])'
    <3> HIDE DEF r
    <3>1. PICK m : m = Stringify(r).matches[i] /\ MatchTextIsTrue(m)'
      BY Zenon, <2>1, <2>5
    <3>2. m = Stringify(Last(sent')).matches[i]
      BY Zenon, <2>1, <3>1
    <3> QED BY Zenon, <3>1, <3>2 DEF MatchTextIsTrue
  <2> QED BY Zenon, <2>6
<1>2. ASSUME NEW e \in Core!Created, DestroyExpectation(e)
      PROVE  Unfulfilled
  <2> DEFINE r == UnfulfilledExpectation(ExpectationReport(e))
             x == expectations[e]
  <2>1. /\ expectations' = [expectations EXCEPT ![e].alive = FALSE]
        /\ sent' = << >> \/ (sent' = <<r>> /\ ~ Core!IsSatisfied(x))
    <3>1. expectations' = [expectations EXCEPT ![e].alive = FALSE]
      BY <1>2 DEF DestroyExpectation, Core!DestroyExpectation
    <3>2. sent' = << >> \/ (sent' = <<r>> /\ ~ Core!IsSatisfied(x))
      BY Zenon, <1>2 DEF DestroyExpectation
    <3> QED BY Zenon, <3>1, <3>2
  <2>2. /\ expectations'[e].count = x.count
        /\ expectations'[e].min = x.min
        /\ expectations'[e].max = x.max
    <3>1. x \in Core!ExpectationRecord /\ DOMAIN expectations = Core!Created
      BY <1>0, Core!ExpectationFields, CoreConstants DEF Core!TypeOK, Core!Created
    <3>2. \A b : /\ [x EXCEPT !.alive = b].count = x.count
                 /\ [x EXCEPT !.alive = b].min = x.min
                 /\ [x EXCEPT !.alive = b].max = x.max
      BY <3>1 DEF Core!ExpectationRecord
    <3>3. PICK b : expectations' = [expectations EXCEPT ![e].alive = b]
      BY Zenon, <2>1
    <3>4. expectations'[e] = [x EXCEPT !.alive = b]
      BY <3>1, <3>3
    <3> HIDE DEF x
    <3> QED BY Zenon, <3>2, <3>4
  <2>3. ASSUME NEW i \in DOMAIN sent'
        PROVE  ExpectationTextIsTrue(Stringify(sent[i]).expectation)'
    <3>1. sent'[i] = r /\ ~ Core!IsSatisfied(x)
      <4> HIDE DEF r, x
      <4> QED BY <2>1
    <3>2. PICK text : text = Stringify(r).expectation
      OBVIOUS
    <3>3. /\ Value(text.from) = e
          /\ Value(text.times).times =
                [says |-> "expected", matched |-> x.count, low |-> x.min, high |-> x.max]
          /\ x.count < x.min
      BY <3>1, <3>2, UnfulfilledTexts
    <3> HIDE DEF r, x
    <3>4. text = Stringify(sent'[i]).expectation
      BY Zenon, <3>1, <3>2
    <3> QED BY Zenon, <2>2, <3>3, <3>4 DEF ExpectationTextIsTrue
  <2> QED BY <2>3
\* No call reports an unfulfilled expectation.
<1>3. ASSUME NEW info, NEW r, r.kind # "unfulfilled_expectation",
             sent' = Append(Unhandled(info), r) \/ sent' = Unhandled(info)
      PROVE  Unfulfilled
  <2> DEFINE n == Cardinality(Threw(info))
  <2>1. /\ n \in Nat
        /\ Len(Unhandled(info)) = n
        /\ Unhandled(info) \in Seq(Range(Unhandled(info)))
        /\ \A i \in 1 .. n : Unhandled(info)[i].kind = "unhandled_exception"
    BY <1>0, UnhandledReports
  <2> HIDE DEF n
  <2>2. CASE sent' = Unhandled(info)
    <3>1. DOMAIN sent' = 1 .. n
      BY <2>1, <2>2
    <3>2. \A i \in DOMAIN sent' : sent'[i].kind = "unhandled_exception"
      BY Zenon, <2>1, <2>2, <3>1
    <3> QED BY <3>2
  <2>3. CASE sent' = Append(Unhandled(info), r)
    <3>1. /\ DOMAIN sent' = 1 .. n + 1
          /\ \A i \in 1 .. n : sent'[i] = Unhandled(info)[i]
          /\ Len(sent') = n + 1 /\ Last(sent') = r
      BY <1>0, <2>3, ReportedLast DEF n
    <3>2. sent'[n + 1] = r
      BY <3>1 DEF Last
    <3>3. \A i \in DOMAIN sent' : i \in 1 .. n \/ i = n + 1
      BY <2>1, <3>1
    <3>4. ASSUME NEW i \in DOMAIN sent'
          PROVE  sent'[i].kind # "unfulfilled_expectation"
      <4>1. CASE i \in 1 .. n
        <5>1. sent'[i].kind = "unhandled_exception"
          BY Zenon, <2>1, <3>1, <4>1
        <5> QED BY <5>1
      <4>2. CASE i = n + 1
        BY Zenon, <1>3, <3>2, <4>2
      <4> QED BY <3>3, <4>1, <4>2
    <3> QED BY <3>4
  <2> QED BY <1>3, <2>2, <2>3
<1>4. ASSUME NEW o \in Overloads, NEW args \in Inputs,
             CallMatched(o, args) \/ CallRejected(o, args) \/ CallAborted(o, args)
      PROVE  Unfulfilled
  <2> DEFINE info == Info(o, args)
  <2>1. ASSUME CallMatched(o, args)
        PROVE  \E r : /\ r.kind # "unfulfilled_expectation"
                      /\ sent' = Append(Unhandled(info), r)
    <3>1. PICK best : sent' = Append(Unhandled(info),
                        FullMatch(MakeCallReport(info), MatchReport(best, info)))
      BY <1>0, <2>1, MatchedStep
    <3> QED BY <3>1, ReportFields
  <2>2. ASSUME CallRejected(o, args)
        PROVE  \E r : /\ r.kind # "unfulfilled_expectation"
                      /\ sent' = Append(Unhandled(info), r)
    <3>1. /\ sent' = Append(Unhandled(info), Rejection(info))
          /\ Last(sent') = Rejection(info)
          /\ TurnedDown'
      BY <1>0, <2>2, RejectedStep
    <3> QED BY <3>1 DEF TurnedDown
  <2>3. ASSUME CallAborted(o, args)  PROVE sent' = Unhandled(info)
    BY <2>3 DEF CallAborted
  <2>4. PICK other : other.kind # "unfulfilled_expectation"
    BY ReportFields
  <2> HIDE DEF info, Unfulfilled
  <2> QED BY <1>3, <1>4, <2>1, <2>2, <2>3, <2>4
<1>5. ASSUME \/ \E r \in Recipes : Expect(r)
             \/ \E r \in Installed : InstallReporter(r)
      PROVE  Unfulfilled
  <2>1. sent' = << >>
    BY <1>5 DEF Expect, InstallReporter
  <2> QED BY <2>1
<1>6. Unfulfilled
  <2> HIDE DEF Unfulfilled
  <2> QED BY <1>2, <1>4, <1>5 DEF Next
<1>7. Rejected
  <2>1. ASSUME ~ TurnedDown'  PROVE Rejected
    BY <2>1
  <2> HIDE DEF Rejected
  <2> QED BY <1>0, <1>1, <2>1, MatchedStep, AbortedStep, OtherSteps DEF Next
<1> QED BY Zenon, <1>6, <1>7 DEF MessagesTellTheTruth

\* What the texts of the reports say of counts, limits, sequences and
\* requirements is so, with any expectations and in any state.
THEOREM MessagesAreTrue == Spec => []MessagesTellTheTruth
<1>1. Init => MessagesTellTheTruth
  <2> SUFFICES ASSUME Init  PROVE MessagesTellTheTruth
    OBVIOUS
  <2>1. sent = << >> /\ DOMAIN sent = {}
    BY DEF Init
  <2> QED BY <2>1 DEF MessagesTellTheTruth, TurnedDown
<1>2. MessagesTellTheTruth /\ UNCHANGED vars => MessagesTellTheTruth'
  <2> SUFFICES ASSUME MessagesTellTheTruth, UNCHANGED vars  PROVE MessagesTellTheTruth'
    OBVIOUS
  <2>1. sent' = sent /\ expectations' = expectations
    BY DEF vars
  <2>2. TheInfo' = TheInfo /\ (TurnedDown' <=> TurnedDown)
    BY DEF vars, TheInfo, TheCall, TurnedDown
  <2>3. /\ \A e : Policies(e)' = Policies(e)
        /\ \A e, s : IsHeldUp(e, s)' <=> IsHeldUp(e, s)
    BY DEF vars, Policies, IsHeldUp, Core!Attached, Core!Created
  <2>4. ASSUME NEW i \in DOMAIN Last(sent').matches, TurnedDown'
        PROVE  MatchTextIsTrue(Stringify(Last(sent)).matches[i])'
    <3>1. MatchTextIsTrue(Stringify(Last(sent)).matches[i])
      BY Zenon, <2>1, <2>2, <2>4 DEF MessagesTellTheTruth
    <3> QED BY Zenon, <2>1, <2>2, <2>3, <3>1 DEF MatchTextIsTrue
  <2>5. ASSUME NEW i \in DOMAIN sent', sent'[i].kind = "unfulfilled_expectation"
        PROVE  ExpectationTextIsTrue(Stringify(sent[i]).expectation)'
    <3>1. ExpectationTextIsTrue(Stringify(sent[i]).expectation)
      BY Zenon, <2>1, <2>5 DEF MessagesTellTheTruth
    <3> QED BY Zenon, <2>1, <3>1 DEF ExpectationTextIsTrue
  <2> QED BY Zenon, <2>4, <2>5 DEF MessagesTellTheTruth
<1>3. Core!IInv /\ TypeInv /\ MessagesTellTheTruth /\ [Next]_vars => MessagesTellTheTruth'
  BY <1>2, TextStep
<1> QED BY <1>1, <1>3, Typing, PTL DEF Spec

-----------------------------------------------------------------------------
(* Side effects *)

\* Of the sets that lack a property one lacks no element that matters.
LEMMA SmallestSetExists ==
    ASSUME NEW S, IsFiniteSet(S), NEW B \in SUBSET SUBSET S, B # {}
    PROVE  \E s \in B : IsFiniteSet(s) /\ \A x \in s : s \ {x} \notin B
<1> DEFINE sizes == {Cardinality(s) : s \in B}
<1>1. ASSUME NEW s \in B
      PROVE  IsFiniteSet(s) /\ Cardinality(s) \in Nat
  BY FS_Subset, FS_CardinalityType
<1>2. sizes \in SUBSET Nat /\ sizes # {}
  BY <1>1
<1>3. PICK n \in sizes : \A m \in sizes : n <= m
  BY <1>2, SmallestExists
<1>4. PICK s \in B : n = Cardinality(s)
  OBVIOUS
<1>5. ASSUME NEW x \in s, s \ {x} \in B  PROVE FALSE
  <2>1. Cardinality(s \ {x}) = Cardinality(s) - 1
    BY <1>1, FS_RemoveElement
  <2>2. Cardinality(s \ {x}) \in sizes
    BY <1>5
  <2>3. n <= Cardinality(s \ {x}) /\ Cardinality(s) \in Nat
    BY <1>1, <1>3, <2>2
  <2> QED BY <1>4, <2>1, <2>3
<1> QED BY <1>1, <1>5

\* sum has for each set of policies what they add to the argument at index.
SumsUp(sum, policies, index) ==
    /\ sum[{}] = 0
    /\ \A s \in SUBSET DOMAIN policies :
          /\ sum[s] \in Int
          /\ \A i \in s : sum[s] = AddsTo(policies[i], index) + sum[s \ {i}]

\* The sum of what side effects add does not depend on their order.
LEMMA Summing ==
    ASSUME NEW policies, NEW index, IsFiniteSet(DOMAIN policies),
           \A i \in DOMAIN policies : AddsTo(policies[i], index) \in Int
    PROVE  \E sum : /\ SumsUp(sum, policies, index)
                    /\ AddedTo(policies, index) = sum[DOMAIN policies]
<1> DEFINE S == DOMAIN policies
           A(i) == AddsTo(policies[i], index)
           First(s) == CHOOSE x \in s : TRUE
           Body(g, s) == IF s = {} THEN 0 ELSE A(First(s)) + g[s \ {First(s)}]
           Chain(g, n) == \A s \in SUBSET S : Cardinality(s) <= n => g[s] = Body(g, s)
           Missing == {n \in 0 .. Cardinality(S) : ~ \E g : Chain(g, n)}
<1>1. \A s \in SUBSET S : IsFiniteSet(s) /\ Cardinality(s) \in Nat /\ Cardinality(s) <= Cardinality(S)
  BY FS_Subset, FS_CardinalityType
<1>2. \A s \in SUBSET S : s # {} => First(s) \in s /\ s \ {First(s)} \in SUBSET S
  OBVIOUS
<1>3. \A s \in SUBSET S : s # {} => Cardinality(s \ {First(s)}) = Cardinality(s) - 1
  <2> HIDE DEF First
  <2> QED BY <1>1, <1>2, FS_RemoveElement
<1>4. \A s \in SUBSET S : Cardinality(s) <= 0 => s = {}
  BY <1>1, FS_EmptySet
<1> HIDE DEF First, A
<1>5. Missing = {}
  <2> SUFFICES ASSUME Missing # {}  PROVE FALSE
    OBVIOUS
  <2>1. Missing \in SUBSET Nat
    OBVIOUS
  <2>2. PICK n \in Missing : \A m \in Missing : n <= m
    BY <2>1, SmallestExists
  <2>3. n \in 0 .. Cardinality(S) /\ ~ \E g : Chain(g, n)
    OBVIOUS
  <2>4. n # 0
    <3> DEFINE g == [s \in SUBSET S |-> 0]
    <3>1. \A s \in SUBSET S : g[s] = 0
      OBVIOUS
    <3> HIDE DEF g
    <3>2. Chain(g, 0)
      BY Zenon, <1>4, <3>1
    <3> QED BY <2>3, <3>2
  <2>5. n - 1 \in 0 .. Cardinality(S) /\ ~ (n <= n - 1)
    BY <1>1, <2>3, <2>4
  <2>6. PICK g : Chain(g, n - 1)
    BY <2>2, <2>5
  <2> DEFINE h == [s \in SUBSET S |-> IF Cardinality(s) <= n - 1 THEN g[s] ELSE Body(g, s)]
  <2>7. \A s \in SUBSET S : h[s] = IF Cardinality(s) <= n - 1 THEN g[s] ELSE Body(g, s)
    BY Zenon
  <2> HIDE DEF h
  <2>8. ASSUME NEW s \in SUBSET S, Cardinality(s) <= n  PROVE h[s] = Body(h, s)
    <3>1. h[s] = Body(g, s)
      BY Zenon, <2>6, <2>7
    <3>2. CASE s = {}
      BY Zenon, <3>1, <3>2
    <3>3. CASE s # {}
      <4>1. Cardinality(s \ {First(s)}) <= n - 1
        <5>1. Cardinality(s \ {First(s)}) = Cardinality(s) - 1 /\ Cardinality(s) \in Nat
          BY Zenon, <1>1, <1>3, <3>3
        <5>2. n \in Int
          BY <2>1, <2>2
        <5> QED BY <2>8, <5>1, <5>2
      <4>2. s \ {First(s)} \in SUBSET S
        BY Zenon, <1>2, <3>3
      <4>3. h[s \ {First(s)}] = g[s \ {First(s)}]
        BY Zenon, <2>7, <4>1, <4>2
      <4> QED BY Zenon, <3>1, <4>3
    <3> QED BY <3>2, <3>3
  <2> QED BY <2>3, <2>8
<1>6. PICK g : Chain(g, Cardinality(S))
  <2>1. Cardinality(S) \in 0 .. Cardinality(S)
    BY <1>1
  <2> QED BY <1>5, <2>1
<1> DEFINE Sums(f) == f = [s \in SUBSET S |-> Body(f, s)]
           f0 == [s \in SUBSET S |-> g[s]]
           sum == CHOOSE f : Sums(f)
<1>7. Sums(f0)
  <2>1. \A s \in SUBSET S : f0[s] = g[s]
    BY Zenon
  <2>2. \A s \in SUBSET S : g[s] = Body(g, s)
    BY Zenon, <1>1, <1>6
  <2> HIDE DEF f0
  <2>3. \A s \in SUBSET S : Body(g, s) = Body(f0, s)
    BY Zenon, <1>2, <2>1
  <2>4. \A s \in SUBSET S : g[s] = Body(f0, s)
    BY Zenon, <2>2, <2>3
  <2> HIDE DEF Body
  <2> QED BY <2>4 DEF f0
<1>8. AddedTo(policies, index) = sum[S]
  BY Zenon DEF AddedTo, MapThenSumSet, MapThenFoldSet, A, First
<1>9. Sums(sum)
  <2> HIDE DEF Sums
  <2> QED BY Zenon, <1>7
<1> HIDE DEF sum
<1>10. \A s \in SUBSET S : sum[s] = Body(sum, s)
  <2> HIDE DEF Body
  <2> QED BY Zenon, <1>9
<1>11. sum[{}] = 0
  BY Zenon, <1>10
<1>12. \A s \in SUBSET S : s # {} => sum[s] = A(First(s)) + sum[s \ {First(s)}]
  BY Zenon, <1>10
<1>13. \A x \in S : A(x) \in Int
  BY DEF A
<1> HIDE DEF S
<1>14. IsFiniteSet(S)
  BY DEF S
<1>15. ASSUME NEW s \in SUBSET S  PROVE sum[s] \in Int
  <2> DEFINE B == {t \in SUBSET S : sum[t] \notin Int}
  <2> SUFFICES ASSUME B # {}  PROVE FALSE
    OBVIOUS
  <2>1. PICK t \in B : \A x \in t : t \ {x} \notin B
    BY <1>14, SmallestSetExists
  <2>2. t # {}
    BY <1>11
  <2>3. First(t) \in t /\ t \ {First(t)} \in SUBSET S
    BY <1>2, <2>2
  <2>4. sum[t \ {First(t)}] \in Int /\ A(First(t)) \in Int
    BY <1>13, <2>1, <2>3
  <2>5. sum[t] = A(First(t)) + sum[t \ {First(t)}]
    BY <1>12, <2>2
  <2> QED BY <2>4, <2>5
<1>16. ASSUME NEW s \in SUBSET S, NEW x \in s  PROVE sum[s] = A(x) + sum[s \ {x}]
  <2> DEFINE B == {t \in SUBSET S : \E y \in t : sum[t] # A(y) + sum[t \ {y}]}
  <2> SUFFICES ASSUME B # {}  PROVE FALSE
    OBVIOUS
  <2>1. PICK t \in B : \A y \in t : t \ {y} \notin B
    BY <1>14, SmallestSetExists
  <2>2. PICK y \in t : sum[t] # A(y) + sum[t \ {y}]
    OBVIOUS
  <2> DEFINE c == First(t)
  <2>3. c \in t /\ sum[t] = A(c) + sum[t \ {c}]
    BY <1>2, <1>12
  <2> HIDE DEF c
  <2>4. c # y
    BY <2>2, <2>3
  <2> DEFINE u == t \ {c}
             v == t \ {y}
             w == t \ {c, y}
  <2>5. /\ u \in SUBSET S /\ v \in SUBSET S /\ w \in SUBSET S
        /\ y \in u /\ c \in v /\ u \ {y} = w /\ v \ {c} = w
        /\ u \notin B /\ v \notin B
        /\ c \in S /\ y \in S
    BY <2>1, <2>3, <2>4
  <2>6. sum[u] = A(y) + sum[w] /\ sum[v] = A(c) + sum[w]
    <3> HIDE DEF u, v, w
    <3> QED BY <2>5
  <2>7. sum[w] \in Int /\ A(y) \in Int /\ A(c) \in Int
    BY <1>13, <1>15, <2>5
  <2>8. sum[t] = A(c) + sum[u] /\ sum[t] # A(y) + sum[v]
    BY <2>2, <2>3
  <2> HIDE DEF u, v, w, B
  <2> QED BY <2>6, <2>7, <2>8
<1> QED BY Zenon, <1>8, <1>11, <1>15, <1>16 DEF A, S, SumsUp

\* What is left of the arguments after each policy.
LEMMA Consuming ==
    ASSUME NEW policies, NEW args, Len(policies) \in Nat
    PROVE  \E left :
              /\ left[0] = args
              /\ \A n \in 1 .. Len(policies) : left[n] = PolicyConsume(policies[n], left[n - 1])
              /\ PoliciesConsume(policies, args) = left[Len(policies)]
<1> DEFINE N == Len(policies)
           Body(g, n) == IF n = 0 THEN args ELSE PolicyConsume(policies[n], g[n - 1])
           Chain(g, n) == \A k \in 0 .. n : g[k] = Body(g, k)
           Missing == {n \in 0 .. N : ~ \E g : Chain(g, n)}
<1>1. Missing = {}
  <2> SUFFICES ASSUME Missing # {}  PROVE FALSE
    OBVIOUS
  <2>1. Missing \in SUBSET Nat
    OBVIOUS
  <2>2. PICK n \in Missing : \A m \in Missing : n <= m
    BY <2>1, SmallestExists
  <2>3. n \in 0 .. N /\ ~ \E g : Chain(g, n)
    OBVIOUS
  <2>4. n # 0
    <3> DEFINE g == [k \in 0 .. 0 |-> args]
    <3>1. \A k \in 0 .. 0 : g[k] = args /\ k = 0
      OBVIOUS
    <3> HIDE DEF g
    <3>2. Chain(g, 0)
      BY Zenon, <3>1
    <3> QED BY <2>3, <3>2
  <2>5. n - 1 \in 0 .. N /\ ~ (n <= n - 1)
    BY <2>3, <2>4
  <2>6. PICK g : Chain(g, n - 1)
    BY <2>2, <2>5
  <2> DEFINE h == [k \in 0 .. n |-> IF k = n THEN Body(g, n) ELSE g[k]]
  <2>7. /\ h[n] = Body(g, n)
        /\ \A k \in 0 .. n - 1 : h[k] = g[k]
    <3>1. n \in 0 .. n /\ \A k \in 0 .. n - 1 : k \in 0 .. n /\ k # n
      BY <2>3
    <3> HIDE DEF Body
    <3> QED BY Zenon, <3>1
  <2> HIDE DEF h
  <2>8. ASSUME NEW k \in 0 .. n  PROVE h[k] = Body(h, k)
    <3>1. k # n => k \in 0 .. n - 1
      BY <2>3
    <3>2. k # 0 => k - 1 \in 0 .. n - 1
      BY <2>3
    <3>3. h[k] = Body(g, k)
      BY Zenon, <2>6, <2>7, <3>1
    <3> QED BY Zenon, <2>7, <3>2, <3>3
  <2> QED BY <2>3, <2>8
<1>2. PICK g : Chain(g, N)
  <2>1. N \in 0 .. N
    OBVIOUS
  <2> QED BY <1>1, <2>1
<1> DEFINE Leaving(f) == f = [n \in 0 .. N |-> Body(f, n)]
           f0 == [n \in 0 .. N |-> g[n]]
           left == CHOOSE f : Leaving(f)
<1>3. Leaving(f0)
  <2>1. \A n \in 0 .. N : f0[n] = g[n]
    BY Zenon
  <2>2. \A n \in 0 .. N : n # 0 => n - 1 \in 0 .. N
    OBVIOUS
  <2> HIDE DEF f0
  <2>3. \A n \in 0 .. N : g[n] = Body(f0, n)
    BY Zenon, <1>2, <2>1, <2>2
  <2> HIDE DEF Body
  <2> QED BY <2>3 DEF f0
<1>4. PoliciesConsume(policies, args) = left[N]
  BY Zenon DEF PoliciesConsume
<1>5. Leaving(left)
  <2> HIDE DEF Leaving
  <2> QED BY Zenon, <1>3
<1> HIDE DEF left
<1>6. \A n \in 0 .. N : left[n] = Body(left, n)
  <2> HIDE DEF Body
  <2> QED BY Zenon, <1>5
<1>7. 0 \in 0 .. N /\ \A n \in 1 .. N : n \in 0 .. N /\ n # 0
  OBVIOUS
<1> QED BY Zenon, <1>4, <1>6, <1>7

\* One policy adds to the arguments what AddsTo says.
LEMMA ConsumingOne ==
    ASSUME NEW m \in Nat, NEW policy, IsPolicyFor(policy, m), NEW args \in [1 .. m -> Int]
    PROVE  /\ PolicyConsume(policy, args) \in [1 .. m -> Int]
           /\ \A index \in 0 .. m - 1 :
                 /\ AddsTo(policy, index) \in Int
                 /\ PolicyConsume(policy, args)[index + 1]
                      = args[index + 1] + AddsTo(policy, index)
<1> DEFINE acts == policy.kind = "side effect" /\ policy.action.param # 0
           selected == policy.indices[policy.action.param]
           adds == policy.action.adds
           consumed == PolicyConsume(policy, args)
<1>1. ASSUME acts  PROVE selected \in 0 .. m - 1 /\ adds \in Int
  <2>1. /\ policy.indices \in Seq(0 .. m - 1) /\ adds \in Int
        /\ policy.action.param \in 0 .. Len(policy.indices)
        /\ policy.action.param # 0
    BY Zenon, <1>1 DEF IsPolicyFor
  <2>2. \A indices, k :
           indices \in Seq(0 .. m - 1) /\ k \in 0 .. Len(indices) /\ k # 0
               => indices[k] \in 0 .. m - 1
    OBVIOUS
  <2> QED BY Zenon, <2>1, <2>2
<1>2. consumed = IF ~ acts THEN args
                 ELSE [args EXCEPT ![selected + 1] = args[selected + 1] + adds]
  BY Zenon DEF PolicyConsume
<1>3. \A index : AddsTo(policy, index) = IF acts /\ selected = index THEN adds ELSE 0
  BY Zenon DEF AddsTo
<1> HIDE DEF acts, selected, adds, consumed
<1>4. CASE ~ acts
  BY <1>2, <1>3, <1>4 DEF consumed
<1>5. CASE acts
  <2>1. consumed = [args EXCEPT ![selected + 1] = args[selected + 1] + adds]
    BY <1>2, <1>5
  <2>2. selected \in 0 .. m - 1 /\ adds \in Int
    BY <1>1, <1>5
  <2>3. \A index : AddsTo(policy, index) = IF selected = index THEN adds ELSE 0
    BY <1>3, <1>5
  <2>4. consumed \in [1 .. m -> Int]
    BY <2>1, <2>2
  <2>5. ASSUME NEW index \in 0 .. m - 1
        PROVE  /\ AddsTo(policy, index) \in Int
               /\ consumed[index + 1] = args[index + 1] + AddsTo(policy, index)
    <3>1. index + 1 \in 1 .. m /\ (index + 1 = selected + 1 <=> index = selected)
      BY <2>2
    <3>2. consumed[index + 1] = IF index = selected THEN args[index + 1] + adds
                                ELSE args[index + 1]
      BY <2>1, <3>1
    <3>3. args[index + 1] \in Int
      BY <3>1
    <3> QED BY <2>2, <2>3, <3>2, <3>3
  <2> QED BY <2>4, <2>5 DEF consumed
<1> QED BY <1>4, <1>5

\* All policies together add to each argument the sum of it.
LEMMA ConsumingAll ==
    ASSUME NEW m \in Nat, NEW policies, Len(policies) \in Nat,
           DOMAIN policies = 1 .. Len(policies),
           \A i \in DOMAIN policies : IsPolicyFor(policies[i], m),
           NEW args \in [1 .. m -> Int], NEW index \in 0 .. m - 1
    PROVE  PoliciesConsume(policies, args)[index + 1]
               = args[index + 1] + AddedTo(policies, index)
<1> DEFINE N == Len(policies)
           A(i) == AddsTo(policies[i], index)
<1>1. PICK left : /\ left[0] = args
                  /\ \A n \in 1 .. N : left[n] = PolicyConsume(policies[n], left[n - 1])
                  /\ PoliciesConsume(policies, args) = left[N]
  BY Consuming
<1>2. \A i \in 1 .. N : A(i) \in Int
  BY ConsumingOne
<1>3. IsFiniteSet(DOMAIN policies)
  BY FS_Interval
<1>4. PICK sum : /\ AddedTo(policies, index) = sum[1 .. N]
                 /\ sum[{}] = 0
                 /\ \A s \in SUBSET (1 .. N) :
                      /\ sum[s] \in Int
                      /\ \A x \in s : sum[s] = A(x) + sum[s \ {x}]
  <2>1. \A i \in DOMAIN policies : AddsTo(policies[i], index) \in Int
    BY <1>2
  <2>2. PICK sum : /\ SumsUp(sum, policies, index)
                   /\ AddedTo(policies, index) = sum[DOMAIN policies]
    BY <1>3, <2>1, Summing
  <2>3. \A s \in SUBSET (1 .. N) :
           /\ sum[s] \in Int
           /\ \A x \in s : sum[s] = A(x) + sum[s \ {x}]
    BY Zenon, <2>2 DEF SumsUp
  <2>4. sum[{}] = 0 /\ AddedTo(policies, index) = sum[1 .. N]
    BY Zenon, <2>2 DEF SumsUp
  <2> QED BY Zenon, <2>3, <2>4
<1> DEFINE Holds(n) == /\ left[n] \in [1 .. m -> Int]
                       /\ left[n][index + 1] = args[index + 1] + sum[1 .. n]
           Bad == {n \in 0 .. N : ~ Holds(n)}
<1>5. index + 1 \in 1 .. m /\ args[index + 1] \in Int
  OBVIOUS
<1>6. Holds(0)
  <2>1. 1 .. 0 = {}
    OBVIOUS
  <2>2. sum[1 .. 0] = 0
    BY Zenon, <1>4, <2>1
  <2> QED BY <1>1, <1>5, <2>2
<1>7. ASSUME NEW n \in 1 .. N, Holds(n - 1)  PROVE Holds(n)
  <2>1. IsPolicyFor(policies[n], m) /\ left[n] = PolicyConsume(policies[n], left[n - 1])
    BY <1>1
  <2>2. left[n - 1] \in [1 .. m -> Int]
    BY <1>7
  <2>3. /\ left[n] \in [1 .. m -> Int]
        /\ left[n][index + 1] = left[n - 1][index + 1] + A(n)
    <3>1. /\ PolicyConsume(policies[n], left[n - 1]) \in [1 .. m -> Int]
          /\ PolicyConsume(policies[n], left[n - 1])[index + 1]
               = left[n - 1][index + 1] + A(n)
      <4>1. \A p, b :
               IsPolicyFor(p, m) /\ b \in [1 .. m -> Int] =>
                  /\ PolicyConsume(p, b) \in [1 .. m -> Int]
                  /\ PolicyConsume(p, b)[index + 1] = b[index + 1] + AddsTo(p, index)
        BY ConsumingOne
      <4> QED BY Zenon, <2>1, <2>2, <4>1
    <3> QED BY Zenon, <2>1, <3>1
  <2>4. n \in 1 .. n /\ 1 .. n \in SUBSET (1 .. N) /\ (1 .. n) \ {n} = 1 .. n - 1
        /\ 1 .. n - 1 \in SUBSET (1 .. N)
    OBVIOUS
  <2>5. sum[1 .. n] = A(n) + sum[1 .. n - 1] /\ sum[1 .. n - 1] \in Int
    <3>1. sum[1 .. n] = A(n) + sum[(1 .. n) \ {n}] /\ sum[1 .. n - 1] \in Int
      BY Zenon, <1>4, <2>4
    <3> QED BY Zenon, <2>4, <3>1
  <2>6. left[n - 1][index + 1] = args[index + 1] + sum[1 .. n - 1]
    BY <1>7
  <2>7. A(n) \in Int
    BY <1>2
  <2> HIDE DEF A
  <2> QED BY <1>5, <2>3, <2>5, <2>6, <2>7
<1> HIDE DEF Holds
<1>8. Bad = {}
  <2> SUFFICES ASSUME Bad # {}  PROVE FALSE
    OBVIOUS
  <2>1. Bad \in SUBSET Nat
    OBVIOUS
  <2>2. PICK n \in Bad : \A k \in Bad : n <= k
    BY <2>1, SmallestExists
  <2>3. n \in 1 .. N /\ n - 1 \in 0 .. N /\ ~ (n <= n - 1)
    BY <1>6
  <2>4. Holds(n - 1)
    BY <2>2, <2>3
  <2> QED BY <1>7, <2>2, <2>3, <2>4
<1>9. Holds(N)
  BY <1>8
<1> QED BY Zenon, <1>1, <1>4, <1>9 DEF Holds

\* What an expectation is built of fits the parameters of the mock.
LEMMA PartsFitCalls ==
    ASSUME NEW r \in Recipes
    PROVE  /\ \A p \in PoliciesOf(r) : IsPolicyFor(p, Len(r.args))
           /\ \A f \in FinalizersOf(r) : IsFinalizerFor(f, Len(r.args))
<1>1. \A j \in DOMAIN r.parts :
         IsPart(r.parts[j], Len(r.args), MaxTimes, LazySequences \cup GreedySequences)
  BY RecipesCompile
<1>2. ASSUME NEW p \in PoliciesOf(r)  PROVE IsPolicyFor(p, Len(r.args))
  <2>1. CASE p \in PartPolicies(r)
    BY <1>1, <2>1 DEF PartPolicies, IsPart
  <2>2. CASE p \in ArgPolicies(r)
    <3>1. \A matcher, indices, projections :
             ArgsRequirement(matcher, indices, projections).kind = "args"
      BY Zenon DEF ArgsRequirement
    <3>2. p.kind = "args"
      BY Zenon, <2>2, <3>1 DEF ArgPolicies, MakeArgPolicy
    <3> QED BY <3>2 DEF IsPolicyFor, PolicyKinds
  <2>3. CASE p \in {Category(r.overload.category), Constness(r.overload.constness)}
    <3>1. \A m : Category(m).kind = "category" /\ Constness(m).kind = "constness"
      BY Zenon DEF Category, Constness
    <3>2. p.kind \in {"category", "constness"}
      BY Zenon, <2>3, <3>1
    <3> QED BY <3>2 DEF IsPolicyFor, PolicyKinds
  <2> QED BY <2>1, <2>2, <2>3 DEF PoliciesOf
<1>3. ASSUME NEW f \in FinalizersOf(r)  PROVE IsFinalizerFor(f, Len(r.args))
  <2>1. CASE f = InitFinalize
    <3>1. f.kind = "init"
      BY Zenon, <2>1 DEF InitFinalize
    <3> QED BY <3>1 DEF IsFinalizerFor
  <2>2. CASE \E i \in DOMAIN r.parts : r.parts[i].part = "finalizer" /\ f = r.parts[i].finalizer
    BY <1>1, <2>2 DEF IsPart
  <2> QED BY <2>1, <2>2 DEF FinalizersOf
<1> QED BY <1>2, <1>3

\* The arguments of a call fit every expectation.
LEMMA BuiltFitsCalls ==
    ASSUME Core!TypeOK, TypeInv, NEW e \in Core!Created, NEW args \in Inputs
    PROVE  \E m \in Nat :
              /\ args \in [1 .. m -> Int]
              /\ \A i \in DOMAIN built[e].policies : IsPolicyFor(built[e].policies[i], m)
              /\ IsFinalizerFor(built[e].finalizer, m)
<1>1. e \in 1 .. Len(built) /\ built \in Seq(Compiled)
  BY DEF Core!Created, TypeInv, TypeOK
<1>2. built[e] \in Compiled
  BY <1>1
<1>3. PICK r \in Recipes :
        built[e] = [policies |-> Build(r.args, r.overload, r.parts, Identity).policies,
                    finalizer |-> Build(r.args, r.overload, r.parts, Identity).finalizer]
  BY <1>2 DEF Compiled
<1>4. /\ built[e].policies = Build(r.args, r.overload, r.parts, Identity).policies
      /\ built[e].finalizer = Build(r.args, r.overload, r.parts, Identity).finalizer
  BY <1>3
<1>5. /\ built[e].policies \in Seq(PoliciesOf(r))
      /\ built[e].finalizer \in FinalizersOf(r)
  BY <1>4, BuildFits DEF BuildersOf
<1>6. \A i \in DOMAIN built[e].policies : built[e].policies[i] \in PoliciesOf(r)
  BY <1>5
<1>7. args \in Seq(Int) /\ Len(r.args) = Len(args)
  BY CallsFitRecipes
<1>8. Len(args) \in Nat /\ args \in [1 .. Len(args) -> Int]
  BY <1>7
<1>9. /\ \A i \in DOMAIN built[e].policies : IsPolicyFor(built[e].policies[i], Len(args))
      /\ IsFinalizerFor(built[e].finalizer, Len(args))
  BY <1>5, <1>6, <1>7, PartsFitCalls
<1> QED BY <1>8, <1>9

\* What a call returns.
LEMMA AnswerValue ==
    ASSUME NEW e, NEW o, NEW args, Answer(e, o, args).ended = "returned"
    PROVE  /\ Answer(e, o, args).value =
                 FinalizeCall(built[e].finalizer, PoliciesConsume(built[e].policies, args))
           /\ ~ FinalizeThrows(built[e].finalizer)
<1> DEFINE effectThrows == \E p \in Policies(e) : ConsumeThrows(p)
           a == Answer(e, o, args)
           value == FinalizeCall(built[e].finalizer, PoliciesConsume(built[e].policies, args))
<1>1. \/ a = Ended("terminated", {}, o, args)
      \/ a = Ended(Leaves(o), {}, o, args)
      \/ a = Ended("returned", value, o, args) /\ ~ FinalizeThrows(built[e].finalizer)
  BY Zenon DEF Answer
<1>2. Leaves(o) # "returned"
  BY DEF Leaves
<1> HIDE DEF a, value
<1>3. /\ a = Ended("terminated", {}, o, args) => a.ended = "terminated"
      /\ a = Ended(Leaves(o), {}, o, args) => a.ended = Leaves(o)
      /\ a = Ended("returned", value, o, args) => a.value = value
  <2>1. ASSUME a = Ended("terminated", {}, o, args)  PROVE a.ended = "terminated"
    BY <2>1, EndedFields
  <2>2. ASSUME a = Ended(Leaves(o), {}, o, args)  PROVE a.ended = Leaves(o)
    BY <2>2, EndedFields
  <2>3. ASSUME a = Ended("returned", value, o, args)  PROVE a.value = value
    BY <2>3, EndedFields
  <2> QED BY Zenon, <2>1, <2>2, <2>3
<1>4. a.ended = "returned"
  BY DEF a
<1>5. a.value = value /\ ~ FinalizeThrows(built[e].finalizer)
  <2>1. "terminated" # "returned"
    OBVIOUS
  <2> QED BY Zenon, <1>1, <1>2, <1>3, <1>4, <2>1
<1> QED BY <1>5 DEF a, value

\* What the property wants to be returned.
AllSeen(finalizer, policies, args) ==
    CASE finalizer.kind = "init" -> {}
      [] finalizer.kind = "returns" -> {finalizer.value}
      [] finalizer.kind = "returns_arg" ->
            {args[finalizer.index + 1] + AddedTo(policies, finalizer.index)}

\* What a finalizer makes of what the policies leave.
LEMMA FinalizedValue ==
    ASSUME NEW m \in Nat, NEW policies, NEW finalizer, NEW args \in [1 .. m -> Int],
           Len(policies) \in Nat, DOMAIN policies = 1 .. Len(policies),
           \A i \in DOMAIN policies : IsPolicyFor(policies[i], m),
           IsFinalizerFor(finalizer, m), ~ FinalizeThrows(finalizer)
    PROVE  FinalizeCall(finalizer, PoliciesConsume(policies, args))
               = AllSeen(finalizer, policies, args)
<1> DEFINE left == PoliciesConsume(policies, args)
<1>1. CASE finalizer.kind = "init"
  BY Zenon, <1>1 DEF FinalizeCall, AllSeen
<1>2. CASE finalizer.kind = "returns"
  BY Zenon, <1>2 DEF FinalizeCall, AllSeen
<1>3. CASE finalizer.kind = "returns_arg"
  <2>1. finalizer.index \in 0 .. m - 1
    BY <1>3 DEF IsFinalizerFor
  <2>2. left[finalizer.index + 1] = args[finalizer.index + 1] + AddedTo(policies, finalizer.index)
    BY <2>1, ConsumingAll
  <2> HIDE DEF left
  <2>3. FinalizeCall(finalizer, left) = {left[finalizer.index + 1]}
    BY Zenon, <1>3 DEF FinalizeCall
  <2> QED BY Zenon, <1>3, <2>2, <2>3 DEF left, AllSeen
<1>4. finalizer.kind \in {"init", "returns", "returns_arg"}
  BY DEF IsFinalizerFor, FinalizeThrows
<1> QED BY <1>1, <1>2, <1>3, <1>4

LEMMA SideEffectStep ==
    ASSUME Core!IInv, TypeInv, Next
    PROVE  ResultSeesSideEffects'
<1>0. Core!TypeOK
  BY DEF Core!IInv
<1>1. ASSUME NEW o \in Overloads, NEW args \in Inputs, CallMatched(o, args),
             outcome'.ended = "returned"
      PROVE  ResultSeesSideEffects'
  <2> DEFINE info == Info(o, args)
  <2>1. PICK best \in Accepting(info) :
          /\ UNCHANGED <<built, reporter>>
          /\ outcome' = Answer(best, o, args)
          /\ TheAnswering' = best
          /\ TheCall' = [overload |-> o, args |-> args]
    BY <1>0, <1>1, MatchedStep
  <2> DEFINE policies == built[best].policies
             finalizer == built[best].finalizer
  <2>2. best \in Core!Created
    BY DEF Accepting, Core!Alive
  <2>3. PICK m \in Nat :
          /\ args \in [1 .. m -> Int]
          /\ \A i \in DOMAIN policies : IsPolicyFor(policies[i], m)
          /\ IsFinalizerFor(finalizer, m)
    BY <1>0, <2>2, BuiltFitsCalls
  <2>4. Len(policies) \in Nat /\ DOMAIN policies = 1 .. Len(policies)
    BY <1>0, <2>2, PoliciesAreTyped
  <2>5. Answer(best, o, args).ended = "returned"
    BY Zenon, <1>1, <2>1
  <2>6. /\ Answer(best, o, args).value = FinalizeCall(finalizer, PoliciesConsume(policies, args))
        /\ ~ FinalizeThrows(finalizer)
    BY <2>5, AnswerValue
  <2>7. outcome'.value = FinalizeCall(finalizer, PoliciesConsume(policies, args))
    BY Zenon, <2>1, <2>6
  <2>8. TheCall'.args = args
    BY <2>1
  <2>9. built'[TheAnswering'] = built[best]
    BY Zenon, <2>1
  <2> HIDE DEF policies, finalizer
  <2>10. FinalizeCall(finalizer, PoliciesConsume(policies, args))
             = AllSeen(finalizer, policies, args)
    BY <2>3, <2>4, <2>6, FinalizedValue
  <2> QED BY Zenon, <2>7, <2>8, <2>9, <2>10 DEF ResultSeesSideEffects, policies, finalizer, AllSeen
<1>2. ASSUME outcome'.ended # "returned"  PROVE ResultSeesSideEffects'
  BY <1>2 DEF ResultSeesSideEffects
<1>3. ASSUME NEW o \in Overloads, NEW args \in Inputs,
             CallRejected(o, args) \/ CallAborted(o, args)
      PROVE  outcome'.ended # "returned"
  <2>1. ASSUME CallRejected(o, args)  PROVE outcome'.ended = Leaves(o)
    BY <1>0, <2>1, RejectedStep
  <2>2. ASSUME CallAborted(o, args)  PROVE outcome'.ended = "terminated"
    BY <1>0, <2>2, AbortedStep
  <2> QED BY <1>3, <2>1, <2>2 DEF Leaves
<1>4. ASSUME \/ \E r \in Recipes : Expect(r)
             \/ \E e \in Core!Created : DestroyExpectation(e)
             \/ \E r \in Installed : InstallReporter(r)
      PROVE  outcome'.ended # "returned"
  BY <1>4, OtherSteps
<1> QED BY <1>1, <1>2, <1>3, <1>4 DEF Next

\* What a call returns has seen every side effect on it, in any number and
\* of any expectation, and in whatever order they were written.
THEOREM ResultsSeeSideEffects == Spec => []ResultSeesSideEffects
<1>1. Init => ResultSeesSideEffects
  BY IdleFields DEF Init, ResultSeesSideEffects
<1>2. ResultSeesSideEffects /\ UNCHANGED vars => ResultSeesSideEffects'
  BY Zenon DEF vars, ResultSeesSideEffects, TheAnswering, TheCall
<1>3. Core!IInv /\ TypeInv /\ ResultSeesSideEffects /\ [Next]_vars => ResultSeesSideEffects'
  BY <1>2, SideEffectStep
<1> QED BY <1>1, <1>3, Typing, PTL DEF Spec
=============================================================================
