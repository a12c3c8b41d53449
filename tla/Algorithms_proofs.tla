------------------------- MODULE Algorithms_proofs -------------------------
(***************************************************************************)
(* What the algorithms make of their inputs, for any number of expecta-    *)
(* tions, sequences and overloads, any numbers, ranges and strings of any  *)
(* length, values of any depth and any skip.  Each theorem follows from a  *)
(* lemma on the operators of one algorithm and from SampleInput, which     *)
(* says what it is given.                                                  *)
(***************************************************************************)
EXTENDS Algorithms, BestMatch_proofs, SequenceTheorems, TLAPS

-----------------------------------------------------------------------------
(* Which match is picked *)

\* Lists of expectations, as the sequences each of them is in.
AttachedLists == Seq(SUBSET SequenceNames)

\* An older expectation has the smaller id in every sequence they share.
LEMMA IdsIncrease ==
    ASSUME NEW attached \in AttachedLists, NEW e \in DOMAIN attached,
           NEW f \in DOMAIN attached, f < e, NEW s \in attached[f]
    PROVE  /\ IdOf(attached, e, s) \in Nat /\ IdOf(attached, f, s) \in Nat
           /\ IdOf(attached, f, s) < IdOf(attached, e, s)
<1> DEFINE E == {g \in 1 .. e - 1 : s \in attached[g]}
           F == {g \in 1 .. f - 1 : s \in attached[g]}
<1>1. e \in Nat /\ f \in Nat /\ f \in 1 .. e - 1
  BY DEF AttachedLists
<1>2. IsFiniteSet(E) /\ IsFiniteSet(F)
  <2>1. IsFiniteSet(1 .. e - 1) /\ IsFiniteSet(1 .. f - 1)
    BY <1>1, FS_Interval
  <2> QED BY <2>1, FS_Subset
<1>3. f \in E /\ f \notin F /\ F \subseteq E
  BY <1>1
<1>4. IsFiniteSet(F \cup {f}) /\ Cardinality(F \cup {f}) = Cardinality(F) + 1
  BY <1>2, <1>3, FS_AddElement
<1>5. Cardinality(F \cup {f}) <= Cardinality(E)
  BY <1>2, <1>3, FS_Subset
<1>6. Cardinality(E) \in Nat /\ Cardinality(F) \in Nat
  BY <1>2, FS_CardinalityType
<1>7. Cardinality(F) < Cardinality(E)
  BY <1>4, <1>5, <1>6
<1> HIDE DEF E, F
<1>8. IdOf(attached, e, s) = Cardinality(E) /\ IdOf(attached, f, s) = Cardinality(F)
  BY Zenon DEF IdOf, E, F
<1> QED BY <1>6, <1>7, <1>8

\* All entries are at a distance from the cursor that grows with the id:
\* lazy sequences prefer the older match, the others the newer one.
LEMMA RatingsCompare ==
    ASSUME NEW attached \in AttachedLists, NEW e \in DOMAIN attached,
           NEW f \in DOMAIN attached, f < e
    PROVE  StrategiesOrder(Rating(attached, e), Rating(attached, f), LazySequences)
<1> DEFINE lhs == Rating(attached, e)
           rhs == Rating(attached, f)
<1>1. DOMAIN lhs = attached[e] /\ DOMAIN rhs = attached[f]
  BY Zenon DEF Rating
<1>2. /\ \A s \in attached[e] :
            lhs[s] = IF s \in LazySequences THEN LazyPriority(IdOf(attached, e, s), 0)
                     ELSE GreedyPriority(IdOf(attached, e, s), 0)
      /\ \A s \in attached[f] :
            rhs[s] = IF s \in LazySequences THEN LazyPriority(IdOf(attached, f, s), 0)
                     ELSE GreedyPriority(IdOf(attached, f, s), 0)
  BY Zenon DEF Rating
<1> HIDE DEF lhs, rhs
<1>3. ASSUME NEW s \in attached[e] \cap attached[f]
      PROVE  lhs[s] < rhs[s] <=> s \in LazySequences
  <2>1. /\ IdOf(attached, e, s) \in Nat /\ IdOf(attached, f, s) \in Nat
        /\ IdOf(attached, f, s) < IdOf(attached, e, s)
    BY IdsIncrease
  <2>2. CASE s \in LazySequences
    <3>1. /\ lhs[s] = LazyPriority(IdOf(attached, e, s), 0)
          /\ rhs[s] = LazyPriority(IdOf(attached, f, s), 0)
      BY <1>2, <2>2
    <3> QED BY <2>1, <2>2, <3>1 DEF LazyPriority, IntMax
  <2>3. CASE s \notin LazySequences
    <3>1. /\ lhs[s] = GreedyPriority(IdOf(attached, e, s), 0)
          /\ rhs[s] = GreedyPriority(IdOf(attached, f, s), 0)
      BY <1>2, <2>3
    <3> QED BY <2>1, <2>3, <3>1 DEF GreedyPriority
  <2> QED BY <2>2, <2>3
<1>4. \A s \in DOMAIN lhs \cap DOMAIN rhs : lhs[s] < rhs[s] <=> s \in LazySequences
  BY <1>1, <1>3
<1> QED BY Zenon, <1>4 DEF StrategiesOrder, lhs, rhs

\* However many expectations match and however many sequences they are in,
\* the pick follows the strategies.
LEMMA BestFollows ==
    ASSUME NEW attached \in AttachedLists,
           NEW matches \in SUBSET DOMAIN attached, matches # {}
    PROVE  FollowsStrategy(attached, LazySequences, matches, Best(attached, matches))
<1> DEFINE rating == [e \in matches |-> Rating(attached, e)]
<1>1. matches \in SUBSET Int /\ IsFiniteSet(matches)
  <2>1. IsFiniteSet(DOMAIN attached) /\ DOMAIN attached \subseteq Int
    <3>1. Len(attached) \in Nat /\ DOMAIN attached = 1 .. Len(attached)
      BY DEF AttachedLists
    <3> QED BY <3>1, FS_Interval
  <2> QED BY <2>1, FS_Subset
<1>2. \A e \in matches : rating[e] = Rating(attached, e)
  BY Zenon
<1>3. ASSUME NEW e \in matches  PROVE AreRatingsOf(rating[e], attached[e])
  <2>1. attached[e] \subseteq SequenceNames /\ IsFiniteSet(SequenceNames)
    <3>1. IsFiniteSet(SequenceNames)
      BY SequencesAssumption, FS_Union DEF SequenceNames
    <3> QED BY <3>1 DEF AttachedLists
  <2>2. IsFiniteSet(attached[e])
    BY <2>1, FS_Subset
  <2> QED BY Zenon, <1>2, <2>2 DEF AreRatingsOf, Rating
<1>4. ASSUME NEW e \in matches, NEW f \in matches, f < e
      PROVE  StrategiesOrder(rating[e], rating[f], LazySequences)
  <2>1. StrategiesOrder(Rating(attached, e), Rating(attached, f), LazySequences)
    BY <1>4, RatingsCompare
  <2> QED BY Zenon, <1>2, <2>1
<1>5. FollowsStrategy(attached, LazySequences, matches,
                      PickBestMatch(NewestFirst(matches), rating))
  <2> HIDE DEF rating
  <2> QED BY <1>1, <1>3, <1>4, PickFollowsStrategy
<1> QED BY Zenon, <1>5 DEF Best

-----------------------------------------------------------------------------
(* The inputs of the algorithms *)

BoundedLists == BoundedSeq(SUBSET SequenceNames, MaxAttached)

AreOverloads(overloads) ==
    overloads \in Seq(Range(overloads)) /\ \A o \in Range(overloads) : IsOverload(o)

\* What MockParameters writes: n parameters, each of a type of its own.
LEMMA ParametersAreOverloads ==
    ASSUME NEW n \in Nat, NEW more, more \in {<< >>, <<{NoSpecs}>>}
    PROVE  AreOverloads(<<[ret |-> "r", params |-> [i \in 1 .. n |-> <<i>>], more |-> more]>>)
<1>1. PICK o : o = [ret |-> "r", params |-> [i \in 1 .. n |-> <<i>>], more |-> more]
  BY Zenon
<1>2. PICK params : params = [i \in 1 .. n |-> <<i>>]
  BY Zenon
<1>3. o.params = params /\ o.more = more
  BY Zenon, <1>1, <1>2
<1>4. params \in Seq(Range(params)) /\ \A p \in Range(params) : p \in Seq(Range(p))
  <2>1. params \in [1 .. n -> Range(params)]
    BY <1>2 DEF Range
  <2>2. \A m \in Nat : \A A : \A q \in [1 .. m -> A] : q \in Seq(A) /\ Len(q) = m
    OBVIOUS
  <2>3. ASSUME NEW p \in Range(params)
        PROVE  p \in Seq(Range(p))
    <3>1. PICK i \in 1 .. n : p = <<i>>
      BY <1>2 DEF Range
    <3> QED BY <3>1 DEF Range
  <2> QED BY Zenon, <2>1, <2>2, <2>3
<1>5. more # << >> =>
         Len(more) \in 1 .. 2 /\ DOMAIN more = 1 .. Len(more) /\ more[1] \in SUBSET Specs
  <2> SUFFICES ASSUME more = <<{NoSpecs}>>
               PROVE  Len(more) \in 1 .. 2 /\ DOMAIN more = 1 .. Len(more)
                      /\ more[1] \in SUBSET Specs
    OBVIOUS
  <2>1. PICK default : default = NoSpecs
    BY Zenon
  <2>2. default \in Specs
    BY <2>1 DEF NoSpecs, Specs, RefQualifiers
  <2>3. more = <<{default}>>
    BY Zenon, <2>1
  <2> QED BY <2>2, <2>3
<1>6. IsOverload(o)
  BY Zenon, <1>3, <1>4, <1>5 DEF IsOverload
<1>7. AreOverloads(<<o>>)
  BY <1>6 DEF AreOverloads, Range
<1> QED BY Zenon, <1>1, <1>7

\* What each algorithm is given.
SampleInput ==
    /\ Is("pick") => sample.attached \in BoundedLists
    /\ Is("value") =>
          \E m \in ValueMatchers, n \in 0 .. 3 : sample.matcher = Inverted(m, n)
    /\ Is("range") =>
          \E m \in RangeMatchers, n \in 0 .. 2 : sample.matcher = Inverted(m, n)
    /\ Is("approx") => /\ sample.value \in Floats /\ sample.epsilon \in Floats
                       /\ ApproxConstructible(sample.value, sample.epsilon)
    /\ Is("trace") => /\ sample.config \in Configuration
                      /\ sample.isInterface \in BOOLEAN
                      /\ sample.skip \in SkipCounts
    /\ Is("string") => sample.target \in Texts /\ sample.pattern \in Texts
    /\ Is("macro") => AreOverloads(sample.overloads)
    /\ Is("print") => sample.value \in Printables

LEMMA SamplesAreInputs == Spec => []SampleInput
<1>1. Init => SampleInput
  <2> SUFFICES ASSUME Init  PROVE SampleInput
    OBVIOUS
  <2>1. sample.algorithm = "none"
    BY Zenon DEF Init, None
  <2> QED BY <2>1 DEF SampleInput, Is
<1>2. SampleInput /\ [Next]_sample => SampleInput'
  <2> SUFFICES ASSUME SampleInput, [Next]_sample  PROVE SampleInput'
    OBVIOUS
  <2>1. CASE PickMatch
    <3>1. PICK attached \in BoundedLists :
             sample' = [algorithm |-> "pick", attached |-> attached]
      BY Zenon, <2>1 DEF PickMatch, BoundedLists
    <3>2. sample'.algorithm = "pick" /\ sample'.attached \in BoundedLists
      BY Zenon, <3>1
    <3> QED BY <3>2 DEF SampleInput, Is
  <2>2. CASE MatchValue
    <3>1. PICK m \in ValueMatchers, n \in 0 .. 3 :
             sample' = [algorithm |-> "value", matcher |-> Inverted(m, n)]
      BY Zenon, <2>2 DEF MatchValue
    <3>2. sample'.algorithm = "value" /\ sample'.matcher = Inverted(m, n)
      BY Zenon, <3>1
    <3> QED BY <3>1, <3>2 DEF SampleInput, Is
  <2>3. CASE MatchRange
    <3>1. PICK m \in RangeMatchers, n \in 0 .. 2 :
             sample' = [algorithm |-> "range", matcher |-> Inverted(m, n)]
      BY Zenon, <2>3 DEF MatchRange
    <3>2. sample'.algorithm = "range" /\ sample'.matcher = Inverted(m, n)
      BY Zenon, <3>1
    <3> QED BY <3>1, <3>2 DEF SampleInput, Is
  <2>4. CASE MatchApproximation
    <3>1. PICK value \in Floats, epsilon \in Floats :
             ApproxConstructible(value, epsilon) /\ sample' = [algorithm |-> "approx", value |-> value, epsilon |-> epsilon]
      BY Zenon, <2>4 DEF MatchApproximation
    <3>2. sample'.algorithm = "approx" /\ sample'.value = value /\ sample'.epsilon = epsilon
      BY Zenon, <3>1
    <3> QED BY <3>1, <3>2 DEF SampleInput, Is
  <2>5. CASE MatchString
    <3>1. PICK target \in Texts, pattern \in Texts,
                 fold \in [Extended -> Extended \cup DOMAIN UpperCase] :
             sample' = [algorithm |-> "string", target |-> target, pattern |-> pattern,
                         fold |-> fold]
      BY Zenon, <2>5 DEF MatchString
    <3>2. sample'.algorithm = "string" /\ sample'.target = target /\ sample'.pattern = pattern
      BY Zenon, <3>1
    <3> QED BY <3>1, <3>2 DEF SampleInput, Is
  <2>6. CASE TraceCall
    <3>1. PICK config \in Configuration, isInterface \in BOOLEAN, skip \in SkipCounts :
             sample' = [algorithm |-> "trace", config |-> config,
                              isInterface |-> isInterface, skip |-> skip]
      BY Zenon, <2>6 DEF TraceCall
    <3>2. sample'.algorithm = "trace" /\ sample'.config = config /\ sample'.isInterface = isInterface /\ sample'.skip = skip
      BY Zenon, <3>1
    <3> QED BY <3>1, <3>2 DEF SampleInput, Is
  <2>7. CASE MockParameters
    <3>1. PICK n \in ParameterCounts, more \in {<< >>, <<{NoSpecs}>>} :
             sample' = [algorithm |-> "macro",
                         overloads |-> <<[ret |-> "r", params |-> [i \in 1 .. n |-> <<i>>],
                                          more |-> more]>>]
      BY Zenon, <2>7 DEF MockParameters
    <3>2. PICK overloads :
             overloads = <<[ret |-> "r", params |-> [i \in 1 .. n |-> <<i>>], more |-> more]>>
      BY Zenon
    <3>3. sample'.algorithm = "macro" /\ sample'.overloads = overloads
      BY Zenon, <3>1, <3>2
    <3>4. n \in Nat
      BY MacrosAssumption
    <3>5. AreOverloads(<<[ret |-> "r", params |-> [i \in 1 .. n |-> <<i>>],
                         more |-> more]>>)
      BY <3>1, <3>4, ParametersAreOverloads
    <3>6. AreOverloads(overloads)
      BY Zenon, <3>2, <3>5
    <3> QED BY <3>3, <3>6 DEF SampleInput, Is
  <2>8. CASE MockOverloads
    <3>1. PICK overloads \in OverloadLists :
             sample' = [algorithm |-> "macro", overloads |-> overloads]
      BY Zenon, <2>8 DEF MockOverloads
    <3>2. sample'.algorithm = "macro" /\ sample'.overloads = overloads
      BY Zenon, <3>1
    <3>3. AreOverloads(overloads)
      BY Zenon, MacrosAssumption DEF AreOverloads
    <3> QED BY <3>2, <3>3 DEF SampleInput, Is
  <2>9. CASE PrintAValue
    <3>1. PICK v \in Printables :
             sample' = [algorithm |-> "print", value |-> v]
      BY Zenon, <2>9 DEF PrintAValue
    <3>2. sample'.algorithm = "print" /\ sample'.value \in Printables
      BY Zenon, <3>1
    <3> QED BY <3>2 DEF SampleInput, Is
  <2>10. CASE Finish
    <3>1. sample'.algorithm = "none"
      BY Zenon, <2>10 DEF Finish, None
    <3> QED BY <3>1 DEF SampleInput, Is
  <2>11. CASE UNCHANGED sample
    BY Zenon, <2>11 DEF SampleInput, Is
  <2> QED BY Zenon, <2>1, <2>2, <2>3, <2>4, <2>5, <2>6, <2>7, <2>8, <2>9, <2>10, <2>11 DEF Next
<1> QED BY <1>1, <1>2, PTL DEF Spec

-----------------------------------------------------------------------------
(* Picking a match *)

LEMMA BoundedAreLists ==
    ASSUME NEW S, NEW n, NEW list \in BoundedSeq(S, n)
    PROVE  list \in Seq(S)
<1>1. BoundedSeq(S, n) = UNION {[1 .. m -> S] : m \in 0 .. n}
  BY Zenon DEF BoundedSeq, SeqOf
<1>2. PICK m \in 0 .. n : list \in [1 .. m -> S]
  BY <1>1
<1> QED BY <1>2

\* pick_best_match folds a comparison that is not transitive, and still what
\* it picks is what the strategies of the sequences promise: for any number
\* of expectations, of sequences and of matches.
THEOREM PicksFollowStrategies == Spec => []BestFollowsStrategy
<1>1. SampleInput => BestFollowsStrategy
  <2> SUFFICES ASSUME SampleInput, Is("pick"),
                      NEW matches \in (SUBSET DOMAIN sample.attached) \ {{}}
               PROVE  FollowsStrategy(sample.attached, LazySequences, matches,
                                      Best(sample.attached, matches))
    BY DEF BestFollowsStrategy
  <2>1. sample.attached \in BoundedLists
    BY DEF SampleInput
  <2>2. sample.attached \in AttachedLists
    BY <2>1, BoundedAreLists DEF BoundedLists, AttachedLists
  <2> QED BY <2>2, BestFollows
<1> QED BY <1>1, SamplesAreInputs, PTL

-----------------------------------------------------------------------------
(* Approximations *)

\* What a floating point number holds.
LEMMA FloatFields ==
    /\ \A n : Finite(n).class = "finite" /\ Finite(n).value = n
    /\ NotANumber.class = "nan" /\ NotANumber.value = 0
    /\ PlusInfinity.class = "infinite" /\ PlusInfinity.value = 1
    /\ MinusInfinity.class = "infinite" /\ MinusInfinity.value = -1
<1>1. \A n : Finite(n).class = "finite" /\ Finite(n).value = n
  BY Zenon DEF Finite
<1>2. /\ NotANumber.class = "nan" /\ NotANumber.value = 0
      /\ PlusInfinity.class = "infinite" /\ PlusInfinity.value = 1
      /\ MinusInfinity.class = "infinite" /\ MinusInfinity.value = -1
  BY Zenon DEF NotANumber, PlusInfinity, MinusInfinity
<1> QED BY <1>1, <1>2

\* Which of them is which.
LEMMA FloatClasses ==
    /\ \A n : ~ IsNaN(Finite(n)) /\ ~ IsInf(Finite(n))
    /\ IsNaN(NotANumber) /\ ~ IsInf(NotANumber)
    /\ ~ IsNaN(PlusInfinity) /\ IsInf(PlusInfinity)
    /\ ~ IsNaN(MinusInfinity) /\ IsInf(MinusInfinity)
<1>1. "finite" # "nan" /\ "finite" # "infinite" /\ "nan" # "infinite"
  OBVIOUS
<1> QED BY Zenon, <1>1, FloatFields DEF IsNaN, IsInf

Magnitude(n) == IF n < 0 THEN - n ELSE n

\* On finite numbers the arithmetic is the arithmetic of numbers.
LEMMA FiniteArithmetic ==
    ASSUME NEW a \in Int, NEW b \in Int
    PROVE  /\ Less(Finite(a), Finite(b)) <=> a < b
           /\ Equal(Finite(a), Finite(b)) <=> a = b
           /\ LessEqual(Finite(a), Finite(b)) <=> a <= b
           /\ Abs(Finite(a)) = Finite(Magnitude(a))
           /\ Minus(Finite(a), Finite(b)) = Finite(a - b)
           /\ Scale(b, Finite(a)) = Finite(b * a)
           /\ StdMax(Finite(a), Finite(b)) = Finite(IF a < b THEN b ELSE a)
<1>1. Less(Finite(a), Finite(b)) <=> a < b
  BY Zenon, FloatFields, FloatClasses DEF Less
<1>2. Equal(Finite(a), Finite(b)) <=> a = b
  <2>1. Finite(a).value = a /\ Finite(b).value = b
    BY FloatFields
  <2>2. Finite(a) = Finite(b) <=> a = b
    BY <2>1
  <2> QED BY Zenon, <2>2, FloatClasses DEF Equal
<1>3. LessEqual(Finite(a), Finite(b)) <=> a <= b
  BY <1>1, <1>2 DEF LessEqual
<1>4. Negate(Finite(a)) = Finite(- a)
  <2>1. Negate(Finite(a)) = [Finite(a) EXCEPT !.value = - a]
    BY Zenon, FloatFields DEF Negate
  <2>2. [[class |-> "finite", value |-> a] EXCEPT !.value = - a]
           = [class |-> "finite", value |-> - a]
    OBVIOUS
  <2> QED BY Zenon, <2>1, <2>2 DEF Finite
<1>5. Abs(Finite(a)) = Finite(Magnitude(a))
  BY Zenon, <1>4, FloatFields DEF Abs, Magnitude
<1>6. Minus(Finite(a), Finite(b)) = Finite(a - b)
  BY Zenon, FloatFields, FloatClasses DEF Minus
<1>7. Scale(b, Finite(a)) = Finite(b * a)
  BY Zenon, FloatFields DEF Scale
<1>8. StdMax(Finite(a), Finite(b)) = Finite(IF a < b THEN b ELSE a)
  BY Zenon, <1>1 DEF StdMax
<1> QED BY Zenon, <1>1, <1>2, <1>3, <1>5, <1>6, <1>7, <1>8

LEMMA ScalingIsMonotonic ==
    ASSUME NEW e \in Int, e > 0, NEW a \in Int, NEW b \in Int, a <= b
    PROVE  e * a <= e * b
<1>1. e * (b - a) >= 0
  OBVIOUS
<1>2. e * (b - a) = e * b - e * a
  OBVIOUS
<1>3. e * a \in Int /\ e * b \in Int
  OBVIOUS
<1> DEFINE ea == e * a
           eb == e * b
           ed == e * (b - a)
<1>4. ea \in Int /\ eb \in Int /\ ed >= 0 /\ ed = eb - ea
  BY <1>1, <1>2, <1>3
<1> HIDE DEF ea, eb, ed
<1>5. ea <= eb
  BY <1>4
<1> QED BY Zenon, <1>5 DEF ea, eb

Larger(a, b) == IF Magnitude(a) < Magnitude(b) THEN Magnitude(b) ELSE Magnitude(a)

\* The approximations, as inequalities between integers.
LEMMA ApproximateNumbers ==
    ASSUME NEW x \in Int, NEW v \in Int, NEW e \in Int
    PROVE  /\ ApproxAbsMatches(Finite(x), Finite(v), Finite(e)) <=> Magnitude(x - v) <= e
           /\ ApproxRelMatches(Finite(x), Finite(v), Finite(e)) <=>
                2 * Magnitude(x - v) <= e * Larger(x, v)
<1>1. /\ x - v \in Int /\ Magnitude(x - v) \in Int
      /\ Magnitude(x) \in Int /\ Magnitude(v) \in Int
      /\ Larger(x, v) \in Int
  BY DEF Magnitude, Larger
<1>2. Abs(Minus(Finite(x), Finite(v))) = Finite(Magnitude(x - v))
  <2>1. Minus(Finite(x), Finite(v)) = Finite(x - v)
    BY FiniteArithmetic
  <2>2. Abs(Finite(x - v)) = Finite(Magnitude(x - v))
    BY <1>1, FiniteArithmetic
  <2> QED BY Zenon, <2>1, <2>2
<1>3. Scale(2, Finite(Magnitude(x - v))) = Finite(2 * Magnitude(x - v))
  BY <1>1, FiniteArithmetic
<1>4. StdMax(Abs(Finite(x)), Abs(Finite(v))) = Finite(Larger(x, v))
  <2>1. Abs(Finite(x)) = Finite(Magnitude(x)) /\ Abs(Finite(v)) = Finite(Magnitude(v))
    BY FiniteArithmetic
  <2>2. StdMax(Finite(Magnitude(x)), Finite(Magnitude(v)))
           = Finite(IF Magnitude(x) < Magnitude(v) THEN Magnitude(v) ELSE Magnitude(x))
    BY <1>1, FiniteArithmetic
  <2> QED BY Zenon, <2>1, <2>2 DEF Larger
<1>5. Scale(e, Finite(Larger(x, v))) = Finite(e * Larger(x, v))
  BY <1>1, FiniteArithmetic
<1>6. LessEqual(Finite(Magnitude(x - v)), Finite(e)) <=> Magnitude(x - v) <= e
  BY <1>1, FiniteArithmetic
<1>7. LessEqual(Finite(2 * Magnitude(x - v)), Finite(e * Larger(x, v)))
         <=> 2 * Magnitude(x - v) <= e * Larger(x, v)
  <2>1. 2 * Magnitude(x - v) \in Int /\ e * Larger(x, v) \in Int
    BY <1>1
  <2> QED BY <2>1, FiniteArithmetic
<1>8. ~ IsInf(Finite(x)) /\ Finite(e).value = e
  BY FloatClasses, FloatFields
<1>9. ApproxAbsMatches(Finite(x), Finite(v), Finite(e)) <=> Magnitude(x - v) <= e
  BY Zenon, <1>2, <1>6 DEF ApproxAbsMatches
<1>10. ApproxRelMatches(Finite(x), Finite(v), Finite(e)) <=>
         2 * Magnitude(x - v) <= e * Larger(x, v)
  BY Zenon, <1>2, <1>3, <1>4, <1>5, <1>7, <1>8 DEF ApproxRelMatches
<1> QED BY Zenon, <1>9, <1>10

\* The larger magnitude is the one that scales the epsilon furthest.
LEMMA WithinTheLarger ==
    ASSUME NEW x \in Int, NEW v \in Int, NEW e \in Int, e > 0
    PROVE  2 * Magnitude(x - v) <= e * Larger(x, v) <=>
             \E n \in {x, - x, v, - v} : 2 * (x - v) >= - e * n /\ 2 * (x - v) <= e * n
<1> DEFINE M == Larger(x, v)
           d == 2 * (x - v)
<1>1. d \in Int /\ 2 * Magnitude(x - v) = Magnitude(d) /\ M \in Int
  BY DEF Magnitude, Larger
<1>2. M \in {x, - x, v, - v} /\ \A n \in {x, - x, v, - v} : n \in Int /\ n <= M
  BY DEF Magnitude, Larger
<1> HIDE DEF M, d
<1>3. ASSUME NEW n \in Int
      PROVE  e * n \in Int /\ - e * n = - (e * n)
  OBVIOUS
<1>4. ASSUME Magnitude(d) <= e * M
      PROVE  d >= - e * M /\ d <= e * M
  <2>1. e * M \in Int /\ - e * M = - (e * M)
    BY <1>1, <1>3
  <2> DEFINE p == e * M
  <2> HIDE DEF p
  <2>2. p \in Int /\ - e * M = - p /\ Magnitude(d) <= p
    BY Zenon, <1>4, <2>1 DEF p
  <2>3. d >= - p /\ d <= p
    BY <1>1, <2>2 DEF Magnitude
  <2> QED BY Zenon, <2>2, <2>3 DEF p
<1>5. ASSUME NEW n \in {x, - x, v, - v}, d >= - e * n, d <= e * n
      PROVE  Magnitude(d) <= e * M
  <2>1. n \in Int /\ n <= M
    BY <1>2
  <2>2. e * n <= e * M
    BY <1>1, <2>1, ScalingIsMonotonic
  <2>3. e * n \in Int /\ e * M \in Int /\ - e * n = - (e * n)
    BY <1>1, <1>3, <2>1
  <2> DEFINE p == e * n
             q == e * M
  <2> HIDE DEF p, q
  <2>4. p \in Int /\ q \in Int /\ p <= q /\ d >= - p /\ d <= p
    BY Zenon, <1>5, <2>2, <2>3 DEF p, q
  <2>5. Magnitude(d) <= q
    BY <1>1, <2>4 DEF Magnitude
  <2> QED BY Zenon, <2>5 DEF q
<1>6. Magnitude(d) <= e * M <=> \E n \in {x, - x, v, - v} : d >= - e * n /\ d <= e * n
  BY Zenon, <1>2, <1>4, <1>5
<1> QED BY Zenon, <1>1, <1>6 DEF M, d

\* No infinity is near a number, and no number that is none.
LEMMA OthersAreFar ==
    ASSUME NEW x \in {NotANumber, PlusInfinity, MinusInfinity},
           NEW v \in Int, NEW e \in Int
    PROVE  /\ ~ ApproxAbsMatches(x, Finite(v), Finite(e))
           /\ ~ ApproxRelMatches(x, Finite(v), Finite(e))
<1>1. /\ Finite(v).value = v /\ ~ IsNaN(Finite(v)) /\ ~ IsInf(Finite(v))
      /\ Finite(e).value = e /\ ~ IsNaN(Finite(e)) /\ ~ IsInf(Finite(e))
  BY Zenon, FloatFields, FloatClasses
<1>2. CASE x = NotANumber
  <2>1. Minus(x, Finite(v)) = NotANumber
    <3>1. x.class # "finite"
      BY <1>2, FloatFields
    <3> QED BY Zenon, <1>2, <3>1, FloatClasses DEF Minus
  <2>2. Abs(NotANumber) = NotANumber
    <3>1. ~ (0 < 0)
      OBVIOUS
    <3> QED BY Zenon, <3>1, FloatFields DEF Abs
  <2>3. Scale(2, NotANumber) = NotANumber
    <3>1. "nan" # "finite"
      OBVIOUS
    <3> QED BY Zenon, <3>1, FloatFields DEF Scale
  <2>4. \A y : ~ LessEqual(NotANumber, y)
    BY Zenon, FloatClasses DEF LessEqual, Less, Equal
  <2> QED BY Zenon, <2>1, <2>2, <2>3, <2>4 DEF ApproxAbsMatches, ApproxRelMatches
<1>3. CASE x = PlusInfinity \/ x = MinusInfinity
  <2>1. IsInf(x) /\ ~ IsNaN(x)
    BY Zenon, <1>3, FloatClasses
  <2>2. Minus(x, Finite(v)) = x
    <3>1. x # Finite(v)
      BY Zenon, <1>1, <2>1
    <3>2. x.class # "finite"
      BY <1>3, FloatFields
    <3> QED BY Zenon, <1>1, <2>1, <3>1, <3>2 DEF Minus
  <2>3. Abs(x) = PlusInfinity
    <3>1. CASE x = PlusInfinity
      <4>1. ~ (1 < 0)
        OBVIOUS
      <4> QED BY Zenon, <3>1, <4>1, FloatFields DEF Abs
    <3>2. CASE x = MinusInfinity
      <4>1. \A n \in Int : n + 1 = 0 => n < 0 /\ - n = 1
        OBVIOUS
      <4>2. x.value < 0 /\ - x.value = 1
        <5>1. -1 \in Int /\ -1 + 1 = 0
          OBVIOUS
        <5> QED BY Zenon, <3>2, <4>1, <5>1, FloatFields
      <4>3. Abs(x) = [x EXCEPT !.value = 1]
        BY Zenon, <4>2 DEF Abs, Negate
      <4>4. [[class |-> "infinite", value |-> -1] EXCEPT !.value = 1]
               = [class |-> "infinite", value |-> 1]
        OBVIOUS
      <4> QED BY Zenon, <3>2, <4>3, <4>4 DEF MinusInfinity, PlusInfinity
    <3> QED BY <1>3, <3>1, <3>2
  <2>4. ~ LessEqual(PlusInfinity, Finite(e))
    <3>1. ~ (1 < 0)
      OBVIOUS
    <3>2. ~ Less(PlusInfinity, Finite(e))
      BY Zenon, <1>1, <3>1, FloatFields, FloatClasses DEF Less
    <3>3. PlusInfinity # Finite(e)
      BY Zenon, <1>1, FloatClasses
    <3> QED BY Zenon, <3>2, <3>3 DEF LessEqual, Equal
  <2> QED BY Zenon, <2>1, <2>2, <2>3, <2>4 DEF ApproxAbsMatches, ApproxRelMatches
<1> QED BY <1>2, <1>3

\* approx_abs and approx_rel accept no infinity and no NaN, and of the
\* numbers exactly those in the documented distance, the value itself among
\* them; and one number is near another when the other is near the one.
THEOREM ApproximationsHold == Spec => []ApproximationsAreExact
<1>1. SampleInput => ApproximationsAreExact
  <2> SUFFICES ASSUME SampleInput, Is("approx")  PROVE ApproximationsAreExact
    BY DEF ApproximationsAreExact
  <2>1. /\ sample.value \in Floats /\ sample.epsilon \in Floats
        /\ ApproxConstructible(sample.value, sample.epsilon)
    BY DEF SampleInput
  <2>2. ASSUME NEW y \in Floats, y.class = "finite"
        PROVE  \E n \in Numerals : y = Finite(n)
    BY <2>2, FloatFields DEF Floats
  <2>3. PICK v \in Numerals : sample.value = Finite(v)
    BY <2>1, <2>2 DEF ApproxConstructible
  <2>4. PICK e \in Numerals : sample.epsilon = Finite(e) /\ e > 0
    <3>1. PICK e \in Numerals : sample.epsilon = Finite(e)
      BY <2>1, <2>2 DEF ApproxConstructible
    <3>2. e > 0
      BY Zenon, <2>1, <3>1, FloatFields DEF ApproxConstructible
    <3> QED BY <3>1, <3>2
  <2>5. v \in Int /\ e \in Int
    BY NumbersAssumption
  <2>6. /\ sample.value.value = v /\ sample.epsilon.value = e
    BY Zenon, <2>3, <2>4, FloatFields
  <2>7. ASSUME NEW x \in Floats \ FiniteFloats
        PROVE  /\ ~ ApproxAbsMatches(x, sample.value, sample.epsilon)
               /\ ~ ApproxRelMatches(x, sample.value, sample.epsilon)
    <3>1. x \in {NotANumber, PlusInfinity, MinusInfinity}
      BY DEF Floats, FiniteFloats
    <3>2. /\ ~ ApproxAbsMatches(x, Finite(v), Finite(e))
          /\ ~ ApproxRelMatches(x, Finite(v), Finite(e))
      BY <2>5, <3>1, OthersAreFar
    <3> QED BY Zenon, <2>3, <2>4, <3>2
  <2>8. ASSUME NEW x \in Int
        PROVE  /\ ApproxAbsMatches(Finite(x), Finite(v), Finite(e))
                    <=> x >= v - e /\ x <= v + e
               /\ ApproxRelMatches(Finite(x), Finite(v), Finite(e))
                    <=> \E n \in {x, - x, v, - v} :
                           2 * (x - v) >= - e * n /\ 2 * (x - v) <= e * n
               /\ ApproxRelMatches(Finite(x), Finite(v), Finite(e))
                    = ApproxRelMatches(Finite(v), Finite(x), Finite(e))
    <3>1. Magnitude(x - v) <= e <=> x >= v - e /\ x <= v + e
      BY <2>5 DEF Magnitude
    <3>2. Magnitude(x - v) = Magnitude(v - x) /\ Larger(x, v) = Larger(v, x)
      BY <2>5 DEF Magnitude, Larger
    <3>3. /\ ApproxAbsMatches(Finite(x), Finite(v), Finite(e)) <=> Magnitude(x - v) <= e
          /\ ApproxRelMatches(Finite(x), Finite(v), Finite(e)) <=>
               2 * Magnitude(x - v) <= e * Larger(x, v)
      BY <2>5, ApproximateNumbers
    <3>4. ApproxRelMatches(Finite(v), Finite(x), Finite(e)) <=>
               2 * Magnitude(v - x) <= e * Larger(v, x)
      BY <2>5, ApproximateNumbers
    <3>5. 2 * Magnitude(x - v) <= e * Larger(x, v) <=>
            \E n \in {x, - x, v, - v} : 2 * (x - v) >= - e * n /\ 2 * (x - v) <= e * n
      BY <2>4, <2>5, WithinTheLarger
    <3>6. ApproxRelMatches(Finite(x), Finite(v), Finite(e))
             <=> ApproxRelMatches(Finite(v), Finite(x), Finite(e))
      BY Zenon, <3>2, <3>3, <3>4
    <3>7. ApproxRelMatches(Finite(x), Finite(v), Finite(e))
             = ApproxRelMatches(Finite(v), Finite(x), Finite(e))
      BY Zenon, <3>6 DEF ApproxRelMatches, LessEqual
    <3> QED BY Zenon, <3>1, <3>3, <3>5, <3>7
  <2>9. ApproxAbsMatches(Finite(v), Finite(v), Finite(e))
    BY <2>4, <2>5, <2>8
  <2>10. ApproxRelMatches(Finite(v), Finite(v), Finite(e))
    <3>1. v - v = 0 /\ Magnitude(0) = 0 /\ Larger(v, v) \in Int /\ 0 <= Larger(v, v)
      BY <2>5 DEF Magnitude, Larger
    <3>2. e * 0 <= e * Larger(v, v)
      BY <2>4, <2>5, <3>1, ScalingIsMonotonic
    <3>3. e * 0 = 0 /\ 2 * 0 = 0
      BY <2>5
    <3>4. ApproxRelMatches(Finite(v), Finite(v), Finite(e)) <=>
            2 * Magnitude(v - v) <= e * Larger(v, v)
      BY <2>5, ApproximateNumbers
    <3> QED BY Zenon, <3>1, <3>2, <3>3, <3>4
  <2>11. ASSUME NEW x \in FiniteFloats
         PROVE  \E n \in Int : x = Finite(n) /\ x.value = n
    <3>1. PICK n \in Numerals : x = Finite(n)
      BY DEF FiniteFloats
    <3>2. n \in Int /\ x.value = n
      BY <3>1, NumbersAssumption, FloatFields
    <3> QED BY <3>1, <3>2
  <2>12. ASSUME NEW x \in FiniteFloats
         PROVE  /\ ApproxAbsMatches(x, sample.value, sample.epsilon)
                     <=> /\ x.value >= sample.value.value - sample.epsilon.value
                         /\ x.value <= sample.value.value + sample.epsilon.value
                /\ ApproxRelMatches(x, sample.value, sample.epsilon)
                     <=> \E n \in {x.value, - x.value, sample.value.value, - sample.value.value} :
                            /\ 2 * (x.value - sample.value.value) >= - sample.epsilon.value * n
                            /\ 2 * (x.value - sample.value.value) <= sample.epsilon.value * n
                /\ ApproxRelMatches(x, sample.value, sample.epsilon)
                     = ApproxRelMatches(sample.value, x, sample.epsilon)
    <3>1. PICK n \in Int : x = Finite(n) /\ x.value = n
      BY <2>11
    <3> QED BY Zenon, <2>3, <2>4, <2>6, <2>8, <3>1
  <2> QED BY Zenon, <2>3, <2>4, <2>7, <2>9, <2>10, <2>12 DEF ApproximationsAreExact
<1> QED BY <1>1, SamplesAreInputs, PTL

-----------------------------------------------------------------------------
(* Stacktraces *)

\* What is left of a stack, frame by frame.
LEMMA SkippedFrames ==
    ASSUME NEW S, NEW stack \in Seq(S), NEW n \in Nat
    PROVE  /\ Skip(stack, n) = [i \in 1 .. Len(stack) - n |-> stack[n + i]]
           /\ Skip(stack, n) \in Seq(S)
<1>1. Len(stack) \in Nat /\ \A i \in 1 .. Len(stack) - n : n + i \in 1 .. Len(stack)
  OBVIOUS
<1>2. Skip(stack, n) = [i \in 1 .. Len(stack) - n |-> stack[n + i]]
  BY <1>1 DEF Skip
<1>3. Skip(stack, n) \in Seq(S)
  BY <1>1 DEF Skip
<1> QED BY <1>2, <1>3

\* Skipping the frames in front of the others and n of the others.
LEMMA SkipsPrefix ==
    ASSUME NEW S, NEW front \in Seq(S), NEW stack \in Seq(S), NEW n \in Nat
    PROVE  Skip(front \o stack, Len(front) + n) = Skip(stack, n)
<1> DEFINE whole == front \o stack
<1>1. /\ whole \in Seq(S)
      /\ Len(whole) = Len(front) + Len(stack)
      /\ \A i \in 1 .. Len(stack) : whole[Len(front) + i] = stack[i]
  OBVIOUS
<1> HIDE DEF whole
<1>2. Len(front) \in Nat /\ Len(stack) \in Nat /\ Len(front) + n \in Nat
  OBVIOUS
<1>3. Skip(whole, Len(front) + n)
         = [i \in 1 .. Len(whole) - (Len(front) + n) |-> whole[Len(front) + n + i]]
  <2>1. \A k \in Nat : Skip(whole, k) = [i \in 1 .. Len(whole) - k |-> whole[k + i]]
    BY <1>1, SkippedFrames
  <2> QED BY Zenon, <1>2, <2>1
<1>4. Skip(stack, n) = [i \in 1 .. Len(stack) - n |-> stack[n + i]]
  BY SkippedFrames
<1>5. Len(whole) - (Len(front) + n) = Len(stack) - n
  BY <1>1, <1>2
<1>6. \A i \in 1 .. Len(stack) - n : whole[Len(front) + n + i] = stack[n + i]
  <2> TAKE i \in 1 .. Len(stack) - n
  <2>1. n + i \in 1 .. Len(stack) /\ Len(front) + n + i = Len(front) + (n + i)
    BY <1>2
  <2> QED BY <1>1, <2>1
<1> QED BY <1>3, <1>4, <1>5, <1>6 DEF whole

\* The frames of the library are those the skips are made for.
LEMMA LibraryFrames ==
    ASSUME NEW config, NEW isInterface \in BOOLEAN, NEW skip \in Nat,
           NEW T, NEW callers \in Seq(T)
    PROVE  LET trace == CallStacktrace(config, isInterface, skip, callers)
           IN  trace.frames = IF Backend(config) = "NullBackend" THEN << >>
                              ELSE Skip(callers, IF isInterface THEN 0 ELSE skip)
<1> DEFINE own == IF isInterface THEN InterfaceFrames ELSE << >>
           inner == CurrentFrames \o MockFrames \o own
           skipped == MockStacktraceSkip(isInterface, skip) + 1 + 1 + 1
           outer == IF isInterface THEN 0 ELSE skip
           C(i) == CurrentFrames[i]
           M(i) == MockFrames[i]
           I(i) == InterfaceFrames[i]
           S == {C(1), C(2), C(3), M(1), M(2), I(1), I(2), I(3)} \cup T
<1>1. /\ CurrentFrames \in Seq(S) /\ Len(CurrentFrames) = 3
      /\ MockFrames \in Seq(S) /\ Len(MockFrames) = 2
      /\ InterfaceFrames \in Seq(S) /\ Len(InterfaceFrames) = 3
  <2>1. \A R : \A a, b \in R : <<a, b>> \in Seq(R) /\ Len(<<a, b>>) = 2
    OBVIOUS
  <2>2. \A R : \A a, b, c \in R : <<a, b, c>> \in Seq(R) /\ Len(<<a, b, c>>) = 3
    OBVIOUS
  <2>3. /\ CurrentFrames = <<C(1), C(2), C(3)>>
        /\ MockFrames = <<M(1), M(2)>>
        /\ InterfaceFrames = <<I(1), I(2), I(3)>>
    BY DEF CurrentFrames, MockFrames, InterfaceFrames
  <2>4. /\ C(1) \in S /\ C(2) \in S /\ C(3) \in S /\ M(1) \in S /\ M(2) \in S
        /\ I(1) \in S /\ I(2) \in S /\ I(3) \in S
    OBVIOUS
  <2> HIDE DEF S, C, M, I
  <2> QED BY Zenon, <2>1, <2>2, <2>3, <2>4
<1>2. callers \in Seq(S)
  <2>1. T \subseteq S
    OBVIOUS
  <2> HIDE DEF S
  <2> QED BY <2>1
<1> HIDE DEF S
<1>3. inner \in Seq(S) /\ Len(inner) = IF isInterface THEN 8 ELSE 5
  <2>1. << >> \in Seq(S) /\ Len(<< >>) = 0
    OBVIOUS
  <2>2. IF isInterface THEN own = InterfaceFrames ELSE own = << >>
    BY Zenon
  <2> HIDE DEF own
  <2>3. own \in Seq(S) /\ Len(own) = IF isInterface THEN 3 ELSE 0
    <3>1. CASE isInterface
      BY Zenon, <1>1, <2>2, <3>1
    <3>2. CASE ~ isInterface
      BY Zenon, <2>1, <2>2, <3>2
    <3> QED BY <3>1, <3>2
  <2>4. \A a, b, c \in Seq(S) :
           a \o b \o c \in Seq(S) /\ Len(a \o b \o c) = Len(a) + Len(b) + Len(c)
    OBVIOUS
  <2>5. /\ inner \in Seq(S)
        /\ Len(inner) = Len(CurrentFrames) + Len(MockFrames) + Len(own)
    BY Zenon, <1>1, <2>3, <2>4
  <2> HIDE DEF inner
  <2> QED BY <1>1, <2>3, <2>5
<1>4. Stack(isInterface, callers) = inner \o callers
  BY Zenon DEF Stack
<1> HIDE DEF inner
<1>5. skipped = Len(inner) + outer /\ outer \in Nat
  BY <1>3 DEF MockStacktraceSkip, InterfaceMockStacktraceSkip
<1>6. Skip(inner \o callers, Len(inner) + outer) = Skip(callers, outer)
  <2>1. \A front, stack \in Seq(S) : \A n \in Nat :
           Skip(front \o stack, Len(front) + n) = Skip(stack, n)
    BY SkipsPrefix
  <2> HIDE DEF outer
  <2> QED BY Zenon, <1>2, <1>3, <1>5, <2>1
<1>7. CallStacktrace(config, isInterface, skip, callers).frames =
        IF Backend(config) = "NullBackend" THEN << >>
        ELSE Skip(Stack(isInterface, callers), skipped)
  BY Zenon DEF CallStacktrace, Current, TraitsCurrent
<1> QED BY Zenon, <1>4, <1>5, <1>6, <1>7

\* The report of a call names the function that made it, and with a skip the
\* one that many calls further out; without a backend it has the source
\* location, and no entry is asked for.  So it is for any skip.
THEOREM TracesStartAtCaller == Spec => []TraceStartsAtCaller
<1>1. SampleInput => TraceStartsAtCaller
  <2> SUFFICES ASSUME SampleInput, Is("trace")  PROVE TraceStartsAtCaller
    BY DEF TraceStartsAtCaller
  <2>1. sample.isInterface \in BOOLEAN /\ sample.skip \in Nat
    BY NumbersAssumption DEF SampleInput
  <2> DEFINE callers == <<"test", "fixture", "main", "start">>
             T == {"test", "fixture", "main", "start"}
             trace == CallStacktrace(sample.config, sample.isInterface, sample.skip, callers)
             outer == IF sample.isInterface THEN 0 ELSE sample.skip
             report == [from |-> "location", fromLoc |-> "location",
                        stacktrace |-> trace.frames,
                        fromConstness |-> "any", fromCategory |-> "any",
                        returnType |-> "void", argDetails |-> << >>]
             printed == PrintCallReport(report)
             null == Backend(sample.config) = "NullBackend"
  <2>2. callers \in Seq(T) /\ Len(callers) = 4 /\ "throws" \notin T /\ "empty" # "throws"
    OBVIOUS
  <2> HIDE DEF callers, T
  <2>3. trace.frames = IF null THEN << >> ELSE Skip(callers, outer)
    BY <2>1, <2>2, LibraryFrames
  <2>4. printed.from = IF trace.frames # << >> THEN Head(trace.frames) ELSE "location"
    BY Zenon DEF PrintCallReport
  <2> HIDE DEF trace, printed, null
  <2>5. outer \in Nat
    BY <2>1
  <2> HIDE DEF outer
  <2>6. /\ Skip(callers, outer) \in Seq(T)
        /\ DOMAIN Skip(callers, outer) = 1 .. 4 - outer
        /\ \A i \in 1 .. 4 - outer : Skip(callers, outer)[i] = callers[outer + i]
    <3>1. /\ Skip(callers, outer) = [i \in 1 .. Len(callers) - outer |-> callers[outer + i]]
          /\ Skip(callers, outer) \in Seq(T)
      BY <2>2, <2>5, SkippedFrames
    <3> QED BY <2>2, <3>1
  <2>7. trace.frames \in Seq(T)
    <3>1. << >> \in Seq(T)
      OBVIOUS
    <3> QED BY Zenon, <2>3, <2>6, <3>1
  <2>8. ASSUME trace.frames # << >>
        PROVE  Head(trace.frames) = callers[outer + 1]
    <3>1. trace.frames = Skip(callers, outer)
      BY Zenon, <2>3, <2>8
    <3>2. Head(trace.frames) = trace.frames[1] /\ 1 \in DOMAIN trace.frames
      BY <2>7, <2>8
    <3>3. Skip(callers, outer)[1] = callers[outer + 1]
      BY Zenon, <2>6, <3>1, <3>2
    <3> QED BY Zenon, <3>1, <3>2, <3>3
  <2>9. SameStacktrace(trace, trace)
    BY Zenon DEF SameStacktrace
  <2>10. "throws" \notin Range(PrintStacktrace(trace))
    <3>1. Len(trace.frames) \in Nat /\ DOMAIN trace.frames = 1 .. Len(trace.frames)
      BY <2>7
    <3>2. ASSUME NEW i \in 1 .. Size(trace)  PROVE Entry(trace, i) # "throws"
      <4>1. i \in DOMAIN trace.frames
        BY Zenon, <3>1, <3>2 DEF Size
      <4>2. trace.frames[i] \in T
        BY <2>7, <4>1
      <4> QED BY Zenon, <2>2, <4>1, <4>2 DEF Entry
    <3>3. CASE IsEmpty(trace)
      <4>1. PrintStacktrace(trace) = <<"empty">>
        BY Zenon, <3>3 DEF PrintStacktrace
      <4>2. Range(<<"empty">>) = {"empty"}
        BY DEF Range
      <4> QED BY <2>2, <4>1, <4>2
    <3>4. CASE ~ IsEmpty(trace)
      <4>1. PrintStacktrace(trace) = [i \in 1 .. Size(trace) |-> Entry(trace, i)]
        BY Zenon, <3>4 DEF PrintStacktrace
      <4> QED BY Zenon, <3>2, <4>1 DEF Range
    <3> QED BY <3>3, <3>4
  <2> QED BY Zenon, <2>3, <2>4, <2>8, <2>9, <2>10
      DEF TraceStartsAtCaller, IsEmpty, callers, trace, printed, null, outer
<1> QED BY <1>1, SamplesAreInputs, PTL

-----------------------------------------------------------------------------
(* Matchers and their descriptions *)

Holds(m, fn, inverted, format, arg) ==
    m.fn = fn /\ m.inverted = inverted /\ m.format = format /\ m.arg = arg

\* What a matcher holds before and after operator!.
LEMMA MatcherFields ==
    ASSUME NEW fn, NEW format, NEW invertedFormat, NEW arg, NEW m,
           m = PredicateMatcher(fn, format, invertedFormat, arg)
    PROVE  /\ Holds(m, fn, FALSE, format, arg)
           /\ Holds(MakeInverted(m), fn, TRUE, invertedFormat, arg)
           /\ MakeInverted(MakeInverted(m)) = m
<1> DEFINE Matcher(b, f, g) ==
             [fn |-> fn, inverted |-> b, format |-> f, invertedFormat |-> g, arg |-> arg]
<1>1. ASSUME NEW b \in BOOLEAN, NEW c \in BOOLEAN, c = ~ b, NEW f, NEW g
      PROVE  MakeInverted(Matcher(b, f, g)) = Matcher(c, g, f)
  <2> DEFINE r == Matcher(b, f, g)
  <2>1. r.inverted = b /\ r.format = f /\ r.invertedFormat = g
    BY Zenon
  <2>2. MakeInverted(r) = [r EXCEPT !.inverted = c, !.format = g, !.invertedFormat = f]
    <3> HIDE DEF r
    <3> QED BY Zenon, <1>1, <2>1 DEF MakeInverted
  <2> QED BY Zenon, <2>2
<1> DEFINE inv == MakeInverted(m)
           again == MakeInverted(inv)
<1>2. m = Matcher(FALSE, format, invertedFormat)
  BY Zenon DEF PredicateMatcher
<1>3. inv = Matcher(TRUE, invertedFormat, format)
  <2>1. MakeInverted(Matcher(FALSE, format, invertedFormat))
           = Matcher(TRUE, invertedFormat, format)
    <3> HIDE DEF Matcher
    <3> QED BY <1>1
  <2> QED BY Zenon, <1>2, <2>1
<1>4. again = m
  <2>1. MakeInverted(Matcher(TRUE, invertedFormat, format))
           = Matcher(FALSE, format, invertedFormat)
    <3> HIDE DEF Matcher
    <3> QED BY <1>1
  <2> QED BY Zenon, <1>2, <1>3, <2>1
<1>5. Holds(m, fn, FALSE, format, arg)
  BY Zenon DEF PredicateMatcher, Holds
<1> HIDE DEF inv
<1>6. Holds(inv, fn, TRUE, invertedFormat, arg)
  BY Zenon, <1>3 DEF Holds
<1> QED BY Zenon, <1>4, <1>5, <1>6 DEF inv

\* However often a matcher is inverted, it is the matcher or its inverse.
LEMMA InvertedMatchers ==
    ASSUME NEW fn, NEW format, NEW invertedFormat, NEW arg, NEW n \in Nat, NEW m,
           m = PredicateMatcher(fn, format, invertedFormat, arg)
    PROVE  \/ Holds(Inverted(m, n), fn, FALSE, format, arg)
           \/ Holds(Inverted(m, n), fn, TRUE, invertedFormat, arg)
<1> DEFINE Turned(b, k) == IF k = 0 THEN m ELSE MakeInverted(b[k - 1])
           Step(b) == b = [k \in 0 .. n |-> Turned(b, k)]
           inverted == CHOOSE b : Step(b)
           Bad == {k \in 0 .. n : inverted[k] \notin {m, MakeInverted(m)}}
<1>1. /\ Holds(m, fn, FALSE, format, arg)
      /\ Holds(MakeInverted(m), fn, TRUE, invertedFormat, arg)
      /\ MakeInverted(MakeInverted(m)) = m
  BY MatcherFields
<1>2. \E b : Step(b)
  <2> DEFINE b == [k \in 0 .. n |-> IF k % 2 = 0 THEN m ELSE MakeInverted(m)]
  <2>1. ASSUME NEW k \in 0 .. n  PROVE b[k] = Turned(b, k)
    <3>1. CASE k = 0
      BY <3>1
    <3>2. CASE k # 0
      <4>1. k - 1 \in 0 .. n /\ (k % 2 = 0 <=> (k - 1) % 2 # 0)
        BY <3>2
      <4> QED BY Zenon, <1>1, <3>2, <4>1
    <3> QED BY <3>1, <3>2
  <2>2. Step(b)
    BY Zenon, <2>1
  <2> QED BY Zenon, <2>2
<1>3. Step(inverted)
  <2> HIDE DEF Step
  <2> QED BY Zenon, <1>2
<1>4. Inverted(m, n) = inverted[n]
  BY Zenon DEF Inverted
<1> HIDE DEF inverted
<1>5. \A k \in 0 .. n : inverted[k] = Turned(inverted, k)
  <2> HIDE DEF Turned
  <2> QED BY Zenon, <1>3
<1>6. Bad = {}
  <2> SUFFICES ASSUME Bad # {}  PROVE FALSE
    OBVIOUS
  <2>1. Bad \in SUBSET Nat
    OBVIOUS
  <2>2. PICK k \in Bad : \A j \in Bad : k <= j
    BY <2>1, SmallestExists
  <2>3. k \in 0 .. n /\ inverted[k] \notin {m, MakeInverted(m)}
    OBVIOUS
  <2>4. k # 0
    BY Zenon, <1>5, <2>3
  <2>5. k - 1 \in 0 .. n /\ ~ (k <= k - 1)
    BY <2>3, <2>4
  <2>6. inverted[k - 1] \in {m, MakeInverted(m)}
    BY Zenon, <2>2, <2>5
  <2> QED BY Zenon, <1>1, <1>5, <2>3, <2>4, <2>6
<1>7. Inverted(m, n) \in {m, MakeInverted(m)}
  <2>1. n \in 0 .. n
    OBVIOUS
  <2> QED BY Zenon, <1>4, <1>6, <2>1
<1> QED BY Zenon, <1>1, <1>7

\* Only a NaN is neither less than, equal to nor greater than a number.
LEMMA Comparisons ==
    ASSUME NEW x \in Floats, NEW v \in FiniteFloats
    PROVE  IF IsNaN(x)
           THEN /\ ~ Less(x, v) /\ ~ LessEqual(x, v)
                /\ ~ Less(v, x) /\ ~ LessEqual(v, x)
           ELSE /\ ~ Less(x, v) <=> LessEqual(v, x)
                /\ ~ Less(v, x) <=> LessEqual(x, v)
<1>1. PICK b \in Int : v = Finite(b)
  BY NumbersAssumption DEF FiniteFloats
<1>2. ~ IsNaN(v) /\ ~ IsInf(v) /\ v.class = "finite"
  BY Zenon, <1>1, FloatClasses, FloatFields
<1>3. ASSUME NEW a \in Int, x = Finite(a)
      PROVE  /\ ~ IsNaN(x)
             /\ ~ Less(x, v) <=> LessEqual(v, x)
             /\ ~ Less(v, x) <=> LessEqual(x, v)
  <2>1. /\ Less(Finite(a), Finite(b)) <=> a < b
        /\ LessEqual(Finite(a), Finite(b)) <=> a <= b
    BY FiniteArithmetic
  <2>2. /\ Less(Finite(b), Finite(a)) <=> b < a
        /\ LessEqual(Finite(b), Finite(a)) <=> b <= a
    BY FiniteArithmetic
  <2>3. (~ (a < b) <=> b <= a) /\ (~ (b < a) <=> a <= b)
    OBVIOUS
  <2> QED BY Zenon, <1>1, <1>3, <2>1, <2>2, <2>3, FloatClasses
<1>4. CASE x = NotANumber
  BY Zenon, <1>2, <1>4, FloatClasses DEF Less, LessEqual, Equal
<1>5. ASSUME x = PlusInfinity \/ x = MinusInfinity
      PROVE  /\ ~ IsNaN(x)
             /\ ~ Less(x, v) <=> LessEqual(v, x)
             /\ ~ Less(v, x) <=> LessEqual(x, v)
  <2>1. ~ IsNaN(x) /\ IsInf(x) /\ x # v
    BY Zenon, <1>2, <1>5, FloatClasses
  <2>2. Less(x, v) <=> x.value < 0
    BY Zenon, <1>2, <2>1 DEF Less
  <2>3. Less(v, x) <=> 0 < x.value
    BY Zenon, <1>2, <2>1 DEF Less
  <2>4. (LessEqual(x, v) <=> Less(x, v)) /\ (LessEqual(v, x) <=> Less(v, x))
    BY Zenon, <2>1 DEF LessEqual, Equal
  <2>5. x.value < 0 <=> ~ (0 < x.value)
    <3>1. -1 < 0 /\ ~ (0 < -1) /\ 0 < 1 /\ ~ (1 < 0)
      OBVIOUS
    <3> QED BY Zenon, <1>5, <3>1, FloatFields
  <2> QED BY Zenon, <2>1, <2>2, <2>3, <2>4, <2>5
<1>6. x = NotANumber \/ x = PlusInfinity \/ x = MinusInfinity \/ \E a \in Int : x = Finite(a)
  BY NumbersAssumption DEF Floats
<1> QED BY Zenon, <1>3, <1>4, <1>5, <1>6, FloatClasses

Orderings == {"< {}", "<= {}", "> {}", ">= {}"}

\* What a description made of the parts of a matcher says of a number is
\* what the matcher does with it, except of a NaN under an ordering.
DescribesValue(r, d, x) ==
    IF IsNaN(x) /\ r.format \in Orderings
    THEN ValueMatches(r, x) = r.inverted
    ELSE ValueMatches(r, x) = ValueMeaning(d, x)

\* A text and its inverse, one true when the predicate holds, the other when
\* it does not.
LEMMA OneOfTwoTexts ==
    ASSUME NEW r, NEW d, NEW x, NEW p \in BOOLEAN, NEW q \in BOOLEAN,
           ValuePredicate(r, x) = p,
           IF IsNaN(x) /\ r.format \in Orderings THEN p = FALSE ELSE q = ~ p,
           \/ r.inverted = FALSE /\ ValueMeaning(d, x) = p
           \/ r.inverted = TRUE /\ ValueMeaning(d, x) = q
    PROVE  DescribesValue(r, d, x)
<1> DEFINE P == ValuePredicate(r, x)
           M == ValueMeaning(d, x)
           I == r.inverted
           E == IsNaN(x) /\ r.format \in Orderings
<1> HIDE DEF P, M, I, E
<1>1. /\ P = p /\ IF E THEN p = FALSE ELSE q = ~ p
      /\ (I = FALSE /\ M = p) \/ (I = TRUE /\ M = q)
  BY Zenon DEF P, M, I, E
<1>2. (E => (P # I) = I) /\ (~ E => (P # I) = M)
  BY <1>1
<1> QED BY Zenon, <1>2 DEF DescribesValue, ValueMatches, P, M, I, E

LEMMA ValuesDescribed ==
    ASSUME NEW m \in ValueMatchers, NEW n \in Nat, NEW x \in Floats,
           NEW r, r = Inverted(m, n),
           NEW d, d.format = r.format, d.arg = r.arg
    PROVE  DescribesValue(r, d, x) /\ r.fn \notin {"all_of", "any_of"}
<1>1. ASSUME NEW v \in FiniteFloats, m = Eq(v)
      PROVE  DescribesValue(r, d, x) /\ r.fn \notin {"all_of", "any_of"}
  <2> DEFINE p == Equal(x, v)
             q == ~ Equal(x, v)
  <2>1. \/ Holds(r, "equal_to", FALSE, "== {}", v)
        \/ Holds(r, "equal_to", TRUE, "!= {}", v)
    BY <1>1, InvertedMatchers DEF Eq
  <2>2. ValuePredicate(r, x) = p
    BY Zenon, <2>1 DEF Holds, ValuePredicate
  <2>3. \/ r.inverted = FALSE /\ ValueMeaning(d, x) = p
        \/ r.inverted = TRUE /\ ValueMeaning(d, x) = q
    BY Zenon, <2>1 DEF Holds, ValueMeaning
  <2>4. p \in BOOLEAN /\ q \in BOOLEAN
    BY DEF Equal, Less, LessEqual, IsNaN
  <2>5. IF IsNaN(x) /\ r.format \in Orderings THEN p = FALSE ELSE q = ~ p
    <3>1. r.format \notin Orderings
      BY Zenon, <2>1 DEF Holds, Orderings
    <3>2. q <=> ~ p
      OBVIOUS
    <3> HIDE DEF p, q
    <3> QED BY <2>4, <3>1, <3>2
  <2>6. r.fn \notin {"all_of", "any_of"}
    BY Zenon, <2>1 DEF Holds
  <2> HIDE DEF p, q
  <2> QED BY <2>2, <2>3, <2>4, <2>5, <2>6, OneOfTwoTexts
<1>2. ASSUME NEW v \in FiniteFloats, m = Ne(v)
      PROVE  DescribesValue(r, d, x) /\ r.fn \notin {"all_of", "any_of"}
  <2> DEFINE p == ~ Equal(x, v)
             q == Equal(x, v)
  <2>1. \/ Holds(r, "not_equal_to", FALSE, "!= {}", v)
        \/ Holds(r, "not_equal_to", TRUE, "== {}", v)
    BY <1>2, InvertedMatchers DEF Ne
  <2>2. ValuePredicate(r, x) = p
    BY Zenon, <2>1 DEF Holds, ValuePredicate
  <2>3. \/ r.inverted = FALSE /\ ValueMeaning(d, x) = p
        \/ r.inverted = TRUE /\ ValueMeaning(d, x) = q
    BY Zenon, <2>1 DEF Holds, ValueMeaning
  <2>4. p \in BOOLEAN /\ q \in BOOLEAN
    BY DEF Equal, Less, LessEqual, IsNaN
  <2>5. IF IsNaN(x) /\ r.format \in Orderings THEN p = FALSE ELSE q = ~ p
    <3>1. r.format \notin Orderings
      BY Zenon, <2>1 DEF Holds, Orderings
    <3>2. q <=> ~ p
      OBVIOUS
    <3> HIDE DEF p, q
    <3> QED BY <2>4, <3>1, <3>2
  <2>6. r.fn \notin {"all_of", "any_of"}
    BY Zenon, <2>1 DEF Holds
  <2> HIDE DEF p, q
  <2> QED BY <2>2, <2>3, <2>4, <2>5, <2>6, OneOfTwoTexts
<1>3. ASSUME NEW v \in FiniteFloats, m = Lt(v)
      PROVE  DescribesValue(r, d, x) /\ r.fn \notin {"all_of", "any_of"}
  <2> DEFINE p == Less(x, v)
             q == LessEqual(v, x)
  <2>1. \/ Holds(r, "less", FALSE, "< {}", v)
        \/ Holds(r, "less", TRUE, ">= {}", v)
    BY <1>3, InvertedMatchers DEF Lt
  <2>2. ValuePredicate(r, x) = p
    BY Zenon, <2>1 DEF Holds, ValuePredicate
  <2>3. \/ r.inverted = FALSE /\ ValueMeaning(d, x) = p
        \/ r.inverted = TRUE /\ ValueMeaning(d, x) = q
    BY Zenon, <2>1 DEF Holds, ValueMeaning
  <2>4. p \in BOOLEAN /\ q \in BOOLEAN
    BY DEF Equal, Less, LessEqual, IsNaN
  <2>5. IF IsNaN(x) /\ r.format \in Orderings THEN p = FALSE ELSE q = ~ p
    <3>1. r.format \in Orderings
      BY Zenon, <2>1 DEF Holds, Orderings
    <3>2. IF IsNaN(x) THEN ~ p ELSE q <=> ~ p
      BY Zenon, Comparisons
    <3> HIDE DEF p, q
    <3> QED BY <2>4, <3>1, <3>2
  <2>6. r.fn \notin {"all_of", "any_of"}
    BY Zenon, <2>1 DEF Holds
  <2> HIDE DEF p, q
  <2> QED BY <2>2, <2>3, <2>4, <2>5, <2>6, OneOfTwoTexts
<1>4. ASSUME NEW v \in FiniteFloats, m = Le(v)
      PROVE  DescribesValue(r, d, x) /\ r.fn \notin {"all_of", "any_of"}
  <2> DEFINE p == LessEqual(x, v)
             q == Less(v, x)
  <2>1. \/ Holds(r, "less_equal", FALSE, "<= {}", v)
        \/ Holds(r, "less_equal", TRUE, "> {}", v)
    BY <1>4, InvertedMatchers DEF Le
  <2>2. ValuePredicate(r, x) = p
    BY Zenon, <2>1 DEF Holds, ValuePredicate
  <2>3. \/ r.inverted = FALSE /\ ValueMeaning(d, x) = p
        \/ r.inverted = TRUE /\ ValueMeaning(d, x) = q
    BY Zenon, <2>1 DEF Holds, ValueMeaning
  <2>4. p \in BOOLEAN /\ q \in BOOLEAN
    BY DEF Equal, Less, LessEqual, IsNaN
  <2>5. IF IsNaN(x) /\ r.format \in Orderings THEN p = FALSE ELSE q = ~ p
    <3>1. r.format \in Orderings
      BY Zenon, <2>1 DEF Holds, Orderings
    <3>2. IF IsNaN(x) THEN ~ p ELSE q <=> ~ p
      BY Zenon, Comparisons
    <3> HIDE DEF p, q
    <3> QED BY <2>4, <3>1, <3>2
  <2>6. r.fn \notin {"all_of", "any_of"}
    BY Zenon, <2>1 DEF Holds
  <2> HIDE DEF p, q
  <2> QED BY <2>2, <2>3, <2>4, <2>5, <2>6, OneOfTwoTexts
<1>5. ASSUME NEW v \in FiniteFloats, m = Gt(v)
      PROVE  DescribesValue(r, d, x) /\ r.fn \notin {"all_of", "any_of"}
  <2> DEFINE p == Less(v, x)
             q == LessEqual(x, v)
  <2>1. \/ Holds(r, "greater", FALSE, "> {}", v)
        \/ Holds(r, "greater", TRUE, "<= {}", v)
    BY <1>5, InvertedMatchers DEF Gt
  <2>2. ValuePredicate(r, x) = p
    BY Zenon, <2>1 DEF Holds, ValuePredicate
  <2>3. \/ r.inverted = FALSE /\ ValueMeaning(d, x) = p
        \/ r.inverted = TRUE /\ ValueMeaning(d, x) = q
    BY Zenon, <2>1 DEF Holds, ValueMeaning
  <2>4. p \in BOOLEAN /\ q \in BOOLEAN
    BY DEF Equal, Less, LessEqual, IsNaN
  <2>5. IF IsNaN(x) /\ r.format \in Orderings THEN p = FALSE ELSE q = ~ p
    <3>1. r.format \in Orderings
      BY Zenon, <2>1 DEF Holds, Orderings
    <3>2. IF IsNaN(x) THEN ~ p ELSE q <=> ~ p
      BY Zenon, Comparisons
    <3> HIDE DEF p, q
    <3> QED BY <2>4, <3>1, <3>2
  <2>6. r.fn \notin {"all_of", "any_of"}
    BY Zenon, <2>1 DEF Holds
  <2> HIDE DEF p, q
  <2> QED BY <2>2, <2>3, <2>4, <2>5, <2>6, OneOfTwoTexts
<1>6. ASSUME NEW v \in FiniteFloats, m = Ge(v)
      PROVE  DescribesValue(r, d, x) /\ r.fn \notin {"all_of", "any_of"}
  <2> DEFINE p == LessEqual(v, x)
             q == Less(x, v)
  <2>1. \/ Holds(r, "greater_equal", FALSE, ">= {}", v)
        \/ Holds(r, "greater_equal", TRUE, "< {}", v)
    BY <1>6, InvertedMatchers DEF Ge
  <2>2. ValuePredicate(r, x) = p
    BY Zenon, <2>1 DEF Holds, ValuePredicate
  <2>3. \/ r.inverted = FALSE /\ ValueMeaning(d, x) = p
        \/ r.inverted = TRUE /\ ValueMeaning(d, x) = q
    BY Zenon, <2>1 DEF Holds, ValueMeaning
  <2>4. p \in BOOLEAN /\ q \in BOOLEAN
    BY DEF Equal, Less, LessEqual, IsNaN
  <2>5. IF IsNaN(x) /\ r.format \in Orderings THEN p = FALSE ELSE q = ~ p
    <3>1. r.format \in Orderings
      BY Zenon, <2>1 DEF Holds, Orderings
    <3>2. IF IsNaN(x) THEN ~ p ELSE q <=> ~ p
      BY Zenon, Comparisons
    <3> HIDE DEF p, q
    <3> QED BY <2>4, <3>1, <3>2
  <2>6. r.fn \notin {"all_of", "any_of"}
    BY Zenon, <2>1 DEF Holds
  <2> HIDE DEF p, q
  <2> QED BY <2>2, <2>3, <2>4, <2>5, <2>6, OneOfTwoTexts
<1>7. CASE m = NaN
  <2> DEFINE p == IsNaN(x)
             q == ~ IsNaN(x)
  <2>1. \/ Holds(r, "isnan", FALSE, "is not a number (NaN)", Nothing)
        \/ Holds(r, "isnan", TRUE, "is a number", Nothing)
    BY <1>7, InvertedMatchers DEF NaN
  <2>2. ValuePredicate(r, x) = p
    BY Zenon, <2>1 DEF Holds, ValuePredicate
  <2>3. \/ r.inverted = FALSE /\ ValueMeaning(d, x) = p
        \/ r.inverted = TRUE /\ ValueMeaning(d, x) = q
    BY Zenon, <2>1 DEF Holds, ValueMeaning
  <2>4. p \in BOOLEAN /\ q \in BOOLEAN
    BY DEF Equal, Less, LessEqual, IsNaN
  <2>5. IF IsNaN(x) /\ r.format \in Orderings THEN p = FALSE ELSE q = ~ p
    <3>1. r.format \notin Orderings
      BY Zenon, <2>1 DEF Holds, Orderings
    <3>2. q <=> ~ p
      OBVIOUS
    <3> HIDE DEF p, q
    <3> QED BY <2>4, <3>1, <3>2
  <2>6. r.fn \notin {"all_of", "any_of"}
    BY Zenon, <2>1 DEF Holds
  <2> HIDE DEF p, q
  <2> QED BY <2>2, <2>3, <2>4, <2>5, <2>6, OneOfTwoTexts
<1>8. CASE m = Predicate
  <2> DEFINE p == x.class = "finite" /\ x.value % 2 = 0
             q == ~ (x.class = "finite" /\ x.value % 2 = 0)
  <2>1. \/ Holds(r, "test", FALSE, "passes predicate", Nothing)
        \/ Holds(r, "test", TRUE, "fails predicate", Nothing)
    BY <1>8, InvertedMatchers DEF Predicate
  <2>2. ValuePredicate(r, x) = p
    BY Zenon, <2>1 DEF Holds, ValuePredicate
  <2>3. \/ r.inverted = FALSE /\ ValueMeaning(d, x) = p
        \/ r.inverted = TRUE /\ ValueMeaning(d, x) = q
    BY Zenon, <2>1 DEF Holds, ValueMeaning
  <2>4. p \in BOOLEAN /\ q \in BOOLEAN
    BY DEF Equal, Less, LessEqual, IsNaN
  <2>5. IF IsNaN(x) /\ r.format \in Orderings THEN p = FALSE ELSE q = ~ p
    <3>1. r.format \notin Orderings
      BY Zenon, <2>1 DEF Holds, Orderings
    <3>2. q <=> ~ p
      OBVIOUS
    <3> HIDE DEF p, q
    <3> QED BY <2>4, <3>1, <3>2
  <2>6. r.fn \notin {"all_of", "any_of"}
    BY Zenon, <2>1 DEF Holds
  <2> HIDE DEF p, q
  <2> QED BY <2>2, <2>3, <2>4, <2>5, <2>6, OneOfTwoTexts
<1> QED BY Zenon, <1>1, <1>2, <1>3, <1>4, <1>5, <1>6, <1>7, <1>8 DEF ValueMatchers

\* Ranges of numbers are compared number by number.
LEMMA FiniteEquality ==
    ASSUME NEW x \in FiniteFloats, NEW y \in FiniteFloats
    PROVE  /\ Equal(x, y) <=> x = y
           /\ ~ Less(x, y) <=> LessEqual(y, x)
           /\ LessEqual(x, y) <=> x.value <= y.value
           /\ ~ IsNaN(x) /\ x.value \in Int /\ x \in Floats
<1>1. PICK a \in Int : x = Finite(a) /\ x \in Floats
  BY NumbersAssumption DEF FiniteFloats, Floats
<1>2. PICK b \in Int : y = Finite(b)
  BY NumbersAssumption DEF FiniteFloats
<1>3. /\ ~ IsNaN(x) /\ x.value = a /\ y.value = b
  BY Zenon, <1>1, <1>2, FloatClasses, FloatFields
<1>4. ~ Less(x, y) <=> LessEqual(y, x)
  BY Zenon, <1>1, <1>3, Comparisons
<1>5. LessEqual(Finite(a), Finite(b)) <=> a <= b
  BY FiniteArithmetic
<1> QED BY Zenon, <1>1, <1>2, <1>3, <1>4, <1>5 DEF Equal

LEMMA SameRanges ==
    ASSUME NEW t \in Seq(FiniteFloats), NEW a \in Seq(FiniteFloats)
    PROVE  Len(t) = Len(a) /\ (\A i \in DOMAIN t : Equal(t[i], a[i])) <=> t = a
<1>1. ASSUME Len(t) = Len(a), \A i \in DOMAIN t : Equal(t[i], a[i])
      PROVE  t = a
  <2>1. \A i \in 1 .. Len(t) : t[i] = a[i]
    <3> TAKE i \in 1 .. Len(t)
    <3>1. i \in DOMAIN t /\ t[i] \in FiniteFloats /\ a[i] \in FiniteFloats
      BY <1>1
    <3> QED BY <1>1, <3>1, FiniteEquality
  <2> QED BY <1>1, <2>1
<1>2. ASSUME t = a, NEW i \in DOMAIN t  PROVE Equal(t[i], a[i])
  <2>1. t[i] \in FiniteFloats /\ t[i] = a[i]
    BY <1>2
  <2> QED BY <2>1, FiniteEquality
<1> QED BY <1>1, <1>2

\* No element is less than the one before it when the range is sorted.
LEMMA SortedRanges ==
    ASSUME NEW t \in Seq(FiniteFloats)
    PROVE  LET sorted == \A i, j \in DOMAIN t : i < j => LessEqual(t[i], t[j])
           IN  /\ (\A i \in 2 .. Len(t) : ~ Less(t[i], t[i - 1])) <=> sorted
               /\ (\E i, j \in DOMAIN t : i < j /\ Less(t[j], t[i])) <=> ~ sorted
<1> DEFINE N == Len(t)
           V(i) == t[i].value
<1>1. N \in Nat /\ DOMAIN t = 1 .. N
  OBVIOUS
<1>2. ASSUME NEW i \in 1 .. N, NEW j \in 1 .. N
      PROVE  /\ V(i) \in Int /\ V(j) \in Int
             /\ LessEqual(t[i], t[j]) <=> V(i) <= V(j)
             /\ Less(t[j], t[i]) <=> ~ (V(i) <= V(j))
  <2>1. t[i] \in FiniteFloats /\ t[j] \in FiniteFloats
    OBVIOUS
  <2>2. /\ t[i].value \in Int /\ t[j].value \in Int
        /\ LessEqual(t[i], t[j]) <=> t[i].value <= t[j].value
        /\ ~ Less(t[j], t[i]) <=> LessEqual(t[i], t[j])
    BY <2>1, FiniteEquality
  <2> QED BY Zenon, <2>2
<1> HIDE DEF N, V
<1>3. ASSUME \A i \in 2 .. N : ~ Less(t[i], t[i - 1]),
             NEW i \in 1 .. N, NEW j \in 1 .. N, i < j
      PROVE  V(i) <= V(j)
  <2> DEFINE Bad == {k \in i + 1 .. N : ~ (V(i) <= V(k))}
  <2>1. Bad = {}
    <3> SUFFICES ASSUME Bad # {}  PROVE FALSE
      OBVIOUS
    <3>1. Bad \in SUBSET Nat
      BY <1>1
    <3>2. PICK k \in Bad : \A m \in Bad : k <= m
      BY <3>1, SmallestExists
    <3>3. k \in i + 1 .. N /\ ~ (V(i) <= V(k))
      OBVIOUS
    <3>4. k \in 2 .. N /\ k \in 1 .. N /\ k - 1 \in 1 .. N /\ ~ (k <= k - 1)
      BY <1>1, <3>3
    <3>5. V(k - 1) <= V(k)
      BY <1>2, <1>3, <3>4
    <3>6. V(i) <= V(k - 1)
      <4>1. CASE k - 1 = i
        BY <1>2, <4>1
      <4>2. CASE k - 1 # i
        <5>1. k - 1 \in i + 1 .. N
          BY <1>1, <3>3, <4>2
        <5> QED BY <3>2, <3>4, <5>1
      <4> QED BY <4>1, <4>2
    <3>7. V(i) \in Int /\ V(k - 1) \in Int /\ V(k) \in Int
      BY <1>2, <3>4
    <3> QED BY <3>3, <3>5, <3>6, <3>7
  <2>2. j \in i + 1 .. N
    BY <1>1, <1>3
  <2> HIDE DEF V
  <2> QED BY <2>1, <2>2
<1> DEFINE sorted == \A i, j \in 1 .. N : i < j => LessEqual(t[i], t[j])
<1>4. (\A i \in 2 .. N : ~ Less(t[i], t[i - 1])) <=> sorted
  <2>1. ASSUME \A i \in 2 .. N : ~ Less(t[i], t[i - 1])  PROVE sorted
    BY <1>2, <1>3, <2>1
  <2>2. ASSUME sorted, NEW i \in 2 .. N  PROVE ~ Less(t[i], t[i - 1])
    <3>1. i \in 1 .. N /\ i - 1 \in 1 .. N /\ i - 1 < i
      BY <1>1
    <3> QED BY <1>2, <2>2, <3>1
  <2> QED BY <2>1, <2>2
<1>5. (\E i, j \in 1 .. N : i < j /\ Less(t[j], t[i])) <=> ~ sorted
  BY Zenon, <1>2
<1> QED BY Zenon, <1>1, <1>4, <1>5 DEF N

\* Where the values of a set are in a range.
Places(t, V) == {i \in DOMAIN t : t[i] \in V}

\* Ranges that have each value of a set equally often have equally many
\* elements in the set: by the smallest set of which that is not so.
LEMMA EquallyManyPlaces ==
    ASSUME NEW t \in Seq(FiniteFloats), NEW a \in Seq(FiniteFloats), NEW W, IsFiniteSet(W),
           \A v \in W : Cardinality(Places(t, {v})) = Cardinality(Places(a, {v}))
    PROVE  Cardinality(Places(t, W)) = Cardinality(Places(a, W))
<1> DEFINE Bad == {n \in Nat : \E V \in SUBSET W :
                      /\ IsFiniteSet(V) /\ Cardinality(V) = n
                      /\ Cardinality(Places(t, V)) # Cardinality(Places(a, V))}
<1>1. ASSUME NEW s \in Seq(FiniteFloats), NEW V, NEW v \in V
      PROVE  /\ Cardinality(Places(s, V))
                  = Cardinality(Places(s, V \ {v})) + Cardinality(Places(s, {v}))
             /\ Cardinality(Places(s, V)) \in Nat
  <2>1. Len(s) \in Nat /\ DOMAIN s = 1 .. Len(s)
    OBVIOUS
  <2>2. IsFiniteSet(DOMAIN s)
    BY <2>1, FS_Interval
  <2>3. /\ IsFiniteSet(Places(s, V \ {v})) /\ IsFiniteSet(Places(s, {v}))
        /\ IsFiniteSet(Places(s, V))
    BY <2>2, FS_Subset DEF Places
  <2>4. /\ Places(s, V \ {v}) \cup Places(s, {v}) = Places(s, V)
        /\ Places(s, V \ {v}) \cap Places(s, {v}) = {}
    BY DEF Places
  <2>5. /\ Cardinality(Places(s, V \ {v}) \cup Places(s, {v})) =
             Cardinality(Places(s, V \ {v})) + Cardinality(Places(s, {v}))
               - Cardinality(Places(s, V \ {v}) \cap Places(s, {v}))
    BY <2>3, FS_Union
  <2>6. /\ Cardinality(Places(s, V \ {v})) \in Nat /\ Cardinality(Places(s, {v})) \in Nat
        /\ Cardinality(Places(s, V)) \in Nat
    BY <2>3, FS_CardinalityType
  <2>7. Cardinality(Places(s, V))
           = Cardinality(Places(s, V \ {v})) + Cardinality(Places(s, {v})) - 0
    <3>1. Cardinality({}) = 0
      BY FS_EmptySet
    <3> QED BY Zenon, <2>4, <2>5, <3>1
  <2> QED BY <2>6, <2>7
<1>2. Bad = {}
  <2> SUFFICES ASSUME Bad # {}  PROVE FALSE
    OBVIOUS
  <2>1. Bad \in SUBSET Nat
    OBVIOUS
  <2>2. PICK n \in Bad : \A k \in Bad : n <= k
    BY <2>1, SmallestExists
  <2>3. PICK V \in SUBSET W : /\ IsFiniteSet(V) /\ Cardinality(V) = n
                              /\ Cardinality(Places(t, V)) # Cardinality(Places(a, V))
    BY <2>2
  <2>4. V # {}
    <3>1. Places(t, {}) = {} /\ Places(a, {}) = {}
      BY DEF Places
    <3> QED BY Zenon, <2>3, <3>1
  <2>5. PICK v \in V : TRUE
    BY <2>4
  <2>6. IsFiniteSet(V \ {v}) /\ Cardinality(V \ {v}) = n - 1 /\ n \in Nat /\ n - 1 \in Nat
    <3>1. IsFiniteSet(V \ {v}) /\ Cardinality(V \ {v}) = Cardinality(V) - 1
      BY <2>3, FS_RemoveElement
    <3>2. Cardinality(V \ {v}) \in Nat
      BY <3>1, FS_CardinalityType
    <3> QED BY <2>1, <2>3, <3>1, <3>2
  <2>7. n - 1 \notin Bad
    BY <2>2, <2>6
  <2>8. V \ {v} \in SUBSET W /\ v \in W
    BY <2>5
  <2>9. Cardinality(Places(t, V \ {v})) = Cardinality(Places(a, V \ {v}))
    BY Zenon, <2>6, <2>7, <2>8
  <2>10. Cardinality(Places(t, {v})) = Cardinality(Places(a, {v}))
    BY <2>8
  <2>11. /\ Cardinality(Places(t, V))
              = Cardinality(Places(t, V \ {v})) + Cardinality(Places(t, {v}))
         /\ Cardinality(Places(a, V))
              = Cardinality(Places(a, V \ {v})) + Cardinality(Places(a, {v}))
    BY <1>1
  <2> QED BY Zenon, <2>3, <2>9, <2>10, <2>11
<1>3. Cardinality(W) \in Nat /\ W \in SUBSET W
  BY FS_CardinalityType
<1> QED BY Zenon, <1>2, <1>3

\* As many elements, and each that is there as often in the other range,
\* which is what is_permutation compares: the same bag of numbers.
LEMMA SameNumbers ==
    ASSUME NEW t \in Seq(FiniteFloats), NEW a \in Seq(FiniteFloats)
    PROVE  /\ Len(t) = Len(a)
           /\ \A x \in Range(t) : Occurrences(t, x) = Occurrences(a, x)
           <=> Numbers(t) = Numbers(a)
<1> DEFINE T == Range(t)
<1>1. /\ Len(t) \in Nat /\ DOMAIN t = 1 .. Len(t)
      /\ Len(a) \in Nat /\ DOMAIN a = 1 .. Len(a)
      /\ IsFiniteSet(DOMAIN t) /\ Cardinality(DOMAIN t) = Len(t)
      /\ IsFiniteSet(DOMAIN a) /\ Cardinality(DOMAIN a) = Len(a)
  <2>1. /\ Len(t) \in Nat /\ DOMAIN t = 1 .. Len(t)
        /\ Len(a) \in Nat /\ DOMAIN a = 1 .. Len(a)
    OBVIOUS
  <2>2. ASSUME NEW n \in Nat
        PROVE  IsFiniteSet(1 .. n) /\ Cardinality(1 .. n) = n
    BY FS_Interval
  <2> QED BY <2>1, <2>2
<1>2. IsFiniteSet(T) /\ T \subseteq FiniteFloats /\ Range(a) \subseteq FiniteFloats
  <2>1. t \in Surjection(DOMAIN t, T)
    BY DEF Surjection, Range
  <2>2. IsFiniteSet(T)
    BY <1>1, <2>1, FS_Surjection
  <2> QED BY <2>2 DEF Range
<1>3. ASSUME NEW s \in Seq(FiniteFloats), NEW x \in FiniteFloats
      PROVE  /\ Occurrences(s, x) = Cardinality(Places(s, {x}))
             /\ {i \in DOMAIN s : s[i] = x} = Places(s, {x})
  <2>1. \A i \in DOMAIN s : Equal(s[i], x) <=> s[i] \in {x}
    <3> TAKE i \in DOMAIN s
    <3>1. s[i] \in FiniteFloats
      OBVIOUS
    <3> QED BY <3>1, FiniteEquality
  <2> QED BY Zenon, <2>1 DEF Occurrences, Places
<1>4. /\ Numbers(t) = [x \in T |-> Cardinality(Places(t, {x}))]
      /\ Numbers(a) = [x \in Range(a) |-> Cardinality(Places(a, {x}))]
  BY Zenon, <1>2, <1>3 DEF Numbers, ToBag, Places
<1>5. ASSUME Len(t) = Len(a),
             \A x \in T : Occurrences(t, x) = Occurrences(a, x)
      PROVE  Numbers(t) = Numbers(a)
  <2>1. \A x \in T : Cardinality(Places(t, {x})) = Cardinality(Places(a, {x}))
    BY Zenon, <1>2, <1>3, <1>5
  <2>2. Cardinality(Places(t, T)) = Cardinality(Places(a, T))
    BY <1>2, <2>1, EquallyManyPlaces
  <2>3. Places(t, T) = DOMAIN t
    BY Zenon DEF Places, Range
  <2>4. Places(a, T) = DOMAIN a
    <3>1. Places(a, T) \in SUBSET DOMAIN a
      BY DEF Places
    <3>2. Cardinality(DOMAIN a) = Cardinality(Places(a, T))
      BY Zenon, <1>1, <1>5, <2>2, <2>3
    <3> QED BY <1>1, <3>1, <3>2, FS_Subset
  <2>5. Range(a) \subseteq T
    BY Zenon, <2>4 DEF Places, Range
  <2>6. T \subseteq Range(a)
    <3> SUFFICES ASSUME NEW x \in T, x \notin Range(a)  PROVE FALSE
      OBVIOUS
    <3>1. Places(a, {x}) = {}
      BY Zenon, <2>6 DEF Places, Range
    <3>2. Places(t, {x}) # {} /\ IsFiniteSet(Places(t, {x}))
      <4>1. PICK i \in DOMAIN t : t[i] = x
        BY Zenon DEF Range
      <4>2. i \in Places(t, {x}) /\ Places(t, {x}) \in SUBSET DOMAIN t
        BY <4>1 DEF Places
      <4> QED BY <1>1, <4>2, FS_Subset
    <3>3. Cardinality(Places(t, {x})) # 0 /\ Cardinality({}) = 0
      BY <3>2, FS_EmptySet
    <3> QED BY Zenon, <2>1, <3>1, <3>3
  <2>7. T = Range(a)
    BY Zenon, <2>5, <2>6
  <2> HIDE DEF T
  <2> QED BY Zenon, <1>4, <2>1, <2>7
<1>6. ASSUME Numbers(t) = Numbers(a)
      PROVE  /\ Len(t) = Len(a)
             /\ \A x \in T : Occurrences(t, x) = Occurrences(a, x)
  <2>1. T = Range(a)
    <3>1. DOMAIN Numbers(t) = T /\ DOMAIN Numbers(a) = Range(a)
      BY Zenon, <1>4
    <3> QED BY Zenon, <1>6, <3>1
  <2>2. \A x \in T : Cardinality(Places(t, {x})) = Cardinality(Places(a, {x}))
    <3> TAKE x \in T
    <3>1. Numbers(t)[x] = Cardinality(Places(t, {x}))
      BY Zenon, <1>4
    <3>2. Numbers(a)[x] = Cardinality(Places(a, {x}))
      BY Zenon, <1>4, <2>1
    <3> QED BY Zenon, <1>6, <3>1, <3>2
  <2>3. Cardinality(Places(t, T)) = Cardinality(Places(a, T))
    BY <1>2, <2>2, EquallyManyPlaces
  <2>4. Places(t, T) = DOMAIN t /\ Places(a, T) = DOMAIN a
    BY Zenon, <2>1 DEF Places, Range
  <2> QED BY Zenon, <1>1, <1>2, <1>3, <2>2, <2>3, <2>4
<1> QED BY Zenon, <1>5, <1>6

\* A text and its inverse, as for the matchers of values.
LEMMA OneOfTwoRangeTexts ==
    ASSUME NEW r, NEW x, NEW p \in BOOLEAN, NEW true \in BOOLEAN, NEW false \in BOOLEAN,
           RangePredicate(r, x) = p, true = p, false = ~ p,
           \/ r.inverted = FALSE /\ RangeMeaning(Describe(r), x) = true
           \/ r.inverted = TRUE /\ RangeMeaning(Describe(r), x) = false
    PROVE  RangeMatches(r, x) = RangeMeaning(Describe(r), x)
<1> DEFINE P == RangePredicate(r, x)
           M == RangeMeaning(Describe(r), x)
           I == r.inverted
<1> HIDE DEF P, M, I
<1>1. P = p /\ true = p /\ false = ~ p /\ ((I = FALSE /\ M = true) \/ (I = TRUE /\ M = false))
  BY Zenon DEF P, M, I
<1>2. (P # I) = M
  BY <1>1
<1> QED BY Zenon, <1>2 DEF RangeMatches, P, M, I

\* What a description says of a range is what the matcher does with it.
LEMMA RangesDescribed ==
    ASSUME NEW m \in RangeMatchers, NEW n \in Nat, NEW x \in Ranges,
           NEW r, r = Inverted(m, n)
    PROVE  RangeMatches(r, x) = RangeMeaning(Describe(r), x)
<1> DEFINE d == Describe(r)
<1>1. x \in Seq(FiniteFloats) /\ \A range \in Ranges : range \in Seq(FiniteFloats)
  BY BoundedAreLists DEF Ranges
<1>2. d.format = r.format /\ (r.fn \notin {"all_of", "any_of"} => d.arg = r.arg)
  BY Zenon DEF Describe
<1>3. r.fn \in {"all_of", "any_of"} => d.arg.format = r.arg.format /\ d.arg.arg = r.arg.arg
  BY Zenon DEF Describe
<1> HIDE DEF d
<1>4. Len(x) \in Nat /\ DOMAIN x = 1 .. Len(x) /\ Cardinality(DOMAIN x) = Len(x)
  <2>1. Len(x) \in Nat /\ DOMAIN x = 1 .. Len(x)
    BY <1>1
  <2>2. ASSUME NEW k \in Nat  PROVE Cardinality(1 .. k) = k
    BY FS_Interval
  <2> QED BY <2>1, <2>2
<1>5. ASSUME NEW range \in Ranges, m = RangeEq(range)
      PROVE  RangeMatches(r, x) = RangeMeaning(Describe(r), x)
  <2> DEFINE p == Len(x) = Len(range) /\ \A i \in DOMAIN x : Equal(x[i], range[i])
             true == x = range
             false == x # range
  <2>1. \/ Holds(r, "equal", FALSE, "elements are {}", range)
        \/ Holds(r, "equal", TRUE, "elements are not {}", range)
    BY <1>5, InvertedMatchers DEF RangeEq
  <2>2. r.fn = "equal" /\ r.arg = range /\ d.arg = range
    BY Zenon, <1>2, <2>1 DEF Holds
  <2>3. RangePredicate(r, x) = p
    BY Zenon, <2>2 DEF RangePredicate
  <2>4. \/ r.inverted = FALSE /\ RangeMeaning(d, x) = true
        \/ r.inverted = TRUE /\ RangeMeaning(d, x) = false
    BY Zenon, <1>2, <2>1, <2>2 DEF Holds, RangeMeaning
  <2>6. (true <=> p) /\ (false <=> ~ p)
    <3>1. p <=> true
      BY <1>1, SameRanges
    <3> QED BY Zenon, <3>1
  <2>7. p \in BOOLEAN /\ true \in BOOLEAN /\ false \in BOOLEAN
    OBVIOUS
  <2> HIDE DEF p, true, false
  <2>8. true = p /\ false = ~ p
    BY <2>6, <2>7
  <2> QED BY <2>3, <2>4, <2>7, <2>8, OneOfTwoRangeTexts DEF d
<1>6. ASSUME NEW range \in Ranges, m = UnorderedEq(range)
      PROVE  RangeMatches(r, x) = RangeMeaning(Describe(r), x)
  <2> DEFINE p == /\ Len(x) = Len(range)
                  /\ \A y \in Range(x) : Occurrences(x, y) = Occurrences(range, y)
             true == Numbers(x) = Numbers(range)
             false == Numbers(x) # Numbers(range)
  <2>1. \/ Holds(r, "is_permutation", FALSE, "is a permutation of {}", range)
        \/ Holds(r, "is_permutation", TRUE, "is not a permutation of {}", range)
    BY <1>6, InvertedMatchers DEF UnorderedEq
  <2>2. r.fn = "is_permutation" /\ r.arg = range /\ d.arg = range
    BY Zenon, <1>2, <2>1 DEF Holds
  <2>3. RangePredicate(r, x) = p
    BY Zenon, <2>2 DEF RangePredicate
  <2>4. \/ r.inverted = FALSE /\ RangeMeaning(d, x) = true
        \/ r.inverted = TRUE /\ RangeMeaning(d, x) = false
    BY Zenon, <1>2, <2>1, <2>2 DEF Holds, RangeMeaning
  <2>6. (true <=> p) /\ (false <=> ~ p)
    <3>1. p <=> true
      BY <1>1, SameNumbers
    <3> QED BY Zenon, <3>1
  <2>7. p \in BOOLEAN /\ true \in BOOLEAN /\ false \in BOOLEAN
    OBVIOUS
  <2> HIDE DEF p, true, false
  <2>8. true = p /\ false = ~ p
    BY <2>6, <2>7
  <2> QED BY <2>3, <2>4, <2>7, <2>8, OneOfTwoRangeTexts DEF d
<1>7. CASE m = IsSortedRange
  <2> DEFINE p == \A i \in 2 .. Len(x) : ~ Less(x[i], x[i - 1])
             true == \A i, j \in DOMAIN x : i < j => LessEqual(x[i], x[j])
             false == \E i, j \in DOMAIN x : i < j /\ Less(x[j], x[i])
  <2>1. \/ Holds(r, "is_sorted", FALSE, "is a sorted range", Nothing)
        \/ Holds(r, "is_sorted", TRUE, "is an unsorted range", Nothing)
    BY <1>7, InvertedMatchers DEF IsSortedRange
  <2>2. r.fn = "is_sorted" /\ r.arg = Nothing /\ d.arg = Nothing
    BY Zenon, <1>2, <2>1 DEF Holds
  <2>3. RangePredicate(r, x) = p
    BY Zenon, <2>2 DEF RangePredicate
  <2>4. \/ r.inverted = FALSE /\ RangeMeaning(d, x) = true
        \/ r.inverted = TRUE /\ RangeMeaning(d, x) = false
    BY Zenon, <1>2, <2>1, <2>2 DEF Holds, RangeMeaning
  <2>6. (true <=> p) /\ (false <=> ~ p)
    BY <1>1, SortedRanges
  <2>7. p \in BOOLEAN /\ true \in BOOLEAN /\ false \in BOOLEAN
    OBVIOUS
  <2> HIDE DEF p, true, false
  <2>8. true = p /\ false = ~ p
    BY <2>6, <2>7
  <2> QED BY <2>3, <2>4, <2>7, <2>8, OneOfTwoRangeTexts DEF d
<1>8. CASE m = IsEmptyRange
  <2> DEFINE p == x = << >>
             true == DOMAIN x = {}
             false == DOMAIN x # {}
  <2>1. \/ Holds(r, "empty", FALSE, "is an empty range", Nothing)
        \/ Holds(r, "empty", TRUE, "is not an empty range", Nothing)
    BY <1>8, InvertedMatchers DEF IsEmptyRange
  <2>2. r.fn = "empty" /\ r.arg = Nothing /\ d.arg = Nothing
    BY Zenon, <1>2, <2>1 DEF Holds
  <2>3. RangePredicate(r, x) = p
    BY Zenon, <2>2 DEF RangePredicate
  <2>4. \/ r.inverted = FALSE /\ RangeMeaning(d, x) = true
        \/ r.inverted = TRUE /\ RangeMeaning(d, x) = false
    BY Zenon, <1>2, <2>1, <2>2 DEF Holds, RangeMeaning
  <2>6. (true <=> p) /\ (false <=> ~ p)
    BY <1>1
  <2>7. p \in BOOLEAN /\ true \in BOOLEAN /\ false \in BOOLEAN
    OBVIOUS
  <2> HIDE DEF p, true, false
  <2>8. true = p /\ false = ~ p
    BY <2>6, <2>7
  <2> QED BY <2>3, <2>4, <2>7, <2>8, OneOfTwoRangeTexts DEF d
<1>9. ASSUME NEW size, m = HasSize(size)
      PROVE  RangeMatches(r, x) = RangeMeaning(Describe(r), x)
  <2> DEFINE p == Len(x) = size
             true == Cardinality(DOMAIN x) = size
             false == Cardinality(DOMAIN x) # size
  <2>1. \/ Holds(r, "size", FALSE, "has size of {}", size)
        \/ Holds(r, "size", TRUE, "has different size than {}", size)
    BY <1>9, InvertedMatchers DEF HasSize
  <2>2. r.fn = "size" /\ r.arg = size /\ d.arg = size
    BY Zenon, <1>2, <2>1 DEF Holds
  <2>3. RangePredicate(r, x) = p
    BY Zenon, <2>2 DEF RangePredicate
  <2>4. \/ r.inverted = FALSE /\ RangeMeaning(d, x) = true
        \/ r.inverted = TRUE /\ RangeMeaning(d, x) = false
    BY Zenon, <1>2, <2>1, <2>2 DEF Holds, RangeMeaning
  <2>6. (true <=> p) /\ (false <=> ~ p)
    BY Zenon, <1>4
  <2>7. p \in BOOLEAN /\ true \in BOOLEAN /\ false \in BOOLEAN
    OBVIOUS
  <2> HIDE DEF p, true, false
  <2>8. true = p /\ false = ~ p
    BY <2>6, <2>7
  <2> QED BY <2>3, <2>4, <2>7, <2>8, OneOfTwoRangeTexts DEF d
<1>10. ASSUME NEW element \in ValueMatchers, NEW k \in 0 .. 1, NEW inner,
             inner = Inverted(element, k), m = EachElement(inner)
      PROVE  RangeMatches(r, x) = RangeMeaning(Describe(r), x)
  <2> DEFINE p == \A i \in DOMAIN x : ValueMatches(inner, x[i])
             true == \A y \in Range(x) : ValueMeaning(d.arg, y)
             false == \E y \in Range(x) : ~ ValueMeaning(d.arg, y)
  <2>1. \/ Holds(r, "all_of", FALSE, "each el in range: el {}", inner)
        \/ Holds(r, "all_of", TRUE, "not each el in range: el {}", inner)
    BY <1>10, InvertedMatchers DEF EachElement
  <2>2. r.fn = "all_of" /\ r.arg = inner
    BY Zenon, <1>2, <2>1 DEF Holds
  <2>3. RangePredicate(r, x) = p
    BY Zenon, <2>2 DEF RangePredicate
  <2>4. \/ r.inverted = FALSE /\ RangeMeaning(d, x) = true
        \/ r.inverted = TRUE /\ RangeMeaning(d, x) = false
    BY Zenon, <1>2, <2>1, <2>2 DEF Holds, RangeMeaning
  <2>5. ASSUME NEW y \in FiniteFloats
        PROVE  ValueMatches(inner, y) <=> ValueMeaning(d.arg, y)
    <3>1. d.arg.format = inner.format /\ d.arg.arg = inner.arg
      BY Zenon, <1>3, <2>2
    <3>2. y \in Floats /\ ~ IsNaN(y) /\ k \in Nat
      BY FiniteEquality
    <3>3. DescribesValue(inner, d.arg, y)
      BY <1>10, <3>1, <3>2, ValuesDescribed
    <3> QED BY Zenon, <3>2, <3>3 DEF DescribesValue
  <2>6. (true <=> p) /\ (false <=> ~ p)
    <3>1. \A i \in DOMAIN x : x[i] \in FiniteFloats
      BY <1>1
    <3> QED BY Zenon, <2>5, <3>1 DEF Range
  <2>7. p \in BOOLEAN /\ true \in BOOLEAN /\ false \in BOOLEAN
    OBVIOUS
  <2> HIDE DEF p, true, false
  <2>8. true = p /\ false = ~ p
    BY <2>6, <2>7
  <2> QED BY <2>3, <2>4, <2>7, <2>8, OneOfTwoRangeTexts DEF d
<1>11. ASSUME NEW element \in ValueMatchers, NEW k \in 0 .. 1, NEW inner,
             inner = Inverted(element, k), m = AnyElement(inner)
      PROVE  RangeMatches(r, x) = RangeMeaning(Describe(r), x)
  <2> DEFINE p == \E i \in DOMAIN x : ValueMatches(inner, x[i])
             true == \E y \in Range(x) : ValueMeaning(d.arg, y)
             false == \A y \in Range(x) : ~ ValueMeaning(d.arg, y)
  <2>1. \/ Holds(r, "any_of", FALSE, "any el in range: el {}", inner)
        \/ Holds(r, "any_of", TRUE, "none el in range: el {}", inner)
    BY <1>11, InvertedMatchers DEF AnyElement
  <2>2. r.fn = "any_of" /\ r.arg = inner
    BY Zenon, <1>2, <2>1 DEF Holds
  <2>3. RangePredicate(r, x) = p
    BY Zenon, <2>2 DEF RangePredicate
  <2>4. \/ r.inverted = FALSE /\ RangeMeaning(d, x) = true
        \/ r.inverted = TRUE /\ RangeMeaning(d, x) = false
    BY Zenon, <1>2, <2>1, <2>2 DEF Holds, RangeMeaning
  <2>5. ASSUME NEW y \in FiniteFloats
        PROVE  ValueMatches(inner, y) <=> ValueMeaning(d.arg, y)
    <3>1. d.arg.format = inner.format /\ d.arg.arg = inner.arg
      BY Zenon, <1>3, <2>2
    <3>2. y \in Floats /\ ~ IsNaN(y) /\ k \in Nat
      BY FiniteEquality
    <3>3. DescribesValue(inner, d.arg, y)
      BY <1>11, <3>1, <3>2, ValuesDescribed
    <3> QED BY Zenon, <3>2, <3>3 DEF DescribesValue
  <2>6. (true <=> p) /\ (false <=> ~ p)
    <3>1. \A i \in DOMAIN x : x[i] \in FiniteFloats
      BY <1>1
    <3> QED BY Zenon, <2>5, <3>1 DEF Range
  <2>7. p \in BOOLEAN /\ true \in BOOLEAN /\ false \in BOOLEAN
    OBVIOUS
  <2> HIDE DEF p, true, false
  <2>8. true = p /\ false = ~ p
    BY <2>6, <2>7
  <2> QED BY <2>3, <2>4, <2>7, <2>8, OneOfTwoRangeTexts DEF d
<1>12. \/ \E range \in Ranges : m = RangeEq(range) \/ m = UnorderedEq(range)
       \/ m = IsSortedRange \/ m = IsEmptyRange
       \/ \E size : m = HasSize(size)
       \/ \E element \in ValueMatchers, k \in 0 .. 1 :
             \/ m = EachElement(Inverted(element, k))
             \/ m = AnyElement(Inverted(element, k))
  BY DEF RangeMatchers
<1> QED BY Zenon, <1>5, <1>6, <1>7, <1>8, <1>9, <1>10, <1>11, <1>12

\* A target matches exactly when what the description of the matcher says is
\* true of it, however often the matcher is inverted and for any numbers and
\* ranges; a NaN under an inverted ordering is the exception.
THEOREM DescriptionsHold == Spec => []DescriptionsAreTrue
<1>1. SampleInput => DescriptionsAreTrue
  <2> SUFFICES ASSUME SampleInput  PROVE DescriptionsAreTrue
    OBVIOUS
  <2> DEFINE r == sample.matcher
  <2>1. ASSUME Is("value"), NEW x \in Floats
        PROVE  IF IsNaN(x) /\ r.format \in {"< {}", "<= {}", "> {}", ">= {}"}
               THEN ValueMatches(r, x) = r.inverted
               ELSE ValueMatches(r, x) = ValueMeaning(Describe(r), x)
    <3>1. PICK m \in ValueMatchers, n \in 0 .. 3 : r = Inverted(m, n)
      BY Zenon, <2>1 DEF SampleInput
    <3>2. n \in Nat
      OBVIOUS
    <3> HIDE DEF r
    <3> DEFINE parts == [format |-> r.format, arg |-> r.arg]
    <3>3. parts.format = r.format /\ parts.arg = r.arg
      BY Zenon
    <3>4. r.fn \notin {"all_of", "any_of"} => Describe(r) = parts
      BY Zenon DEF Describe
    <3> HIDE DEF parts
    <3>5. DescribesValue(r, parts, x) /\ r.fn \notin {"all_of", "any_of"}
      BY <3>1, <3>2, <3>3, ValuesDescribed
    <3> QED BY Zenon, <3>4, <3>5 DEF DescribesValue, Orderings
  <2>2. ASSUME Is("range"), NEW x \in Ranges
        PROVE  RangeMatches(r, x) = RangeMeaning(Describe(r), x)
    <3>1. PICK m \in RangeMatchers, n \in 0 .. 2 : r = Inverted(m, n)
      BY Zenon, <2>2 DEF SampleInput
    <3>2. n \in Nat
      OBVIOUS
    <3> HIDE DEF r
    <3> QED BY <3>1, <3>2, RangesDescribed
  <2> QED BY Zenon, <2>1, <2>2 DEF DescriptionsAreTrue
<1> QED BY <1>1, SamplesAreInputs, PTL
-----------------------------------------------------------------------------
(* Strings *)

\* The pattern stands in the target behind its first o characters.
Stands(t, p, o) == \A i \in 1 .. Len(p) : t[o + i] = p[i]

\* std::ranges::mismatch gets to the end of the pattern if the target
\* starts with it.
LEMMA MismatchAtLength ==
    ASSUME NEW t, NEW p, Len(t) \in Nat, Len(p) \in Nat
    PROVE  Strings!Mismatch(t, p) = Len(p) <=> Len(p) <= Len(t) /\ Stands(t, p, 0)
<1> DEFINE agree == {n \in 0 .. Len(p) :
                       n <= Len(t) /\ \A i \in 1 .. n : t[i] = p[i]}
           Largest(n) == n \in agree /\ \A k \in agree : k <= n
<1>1. 0 \in agree
  OBVIOUS
<1>2. agree \in SUBSET (0 .. Len(p)) /\ agree # {}
  BY <1>1
<1>3. Len(p) \in agree <=> Len(p) <= Len(t) /\ Stands(t, p, 0)
  BY DEF Stands
<1>4. Strings!Mismatch(t, p) = CHOOSE n \in agree : \A k \in agree : k <= n
  BY DEF Strings!Mismatch
<1> HIDE DEF agree
<1>5. \E n : Largest(n)
  BY <1>2, LargestExists
<1>6. Largest(Strings!Mismatch(t, p))
  BY Zenon, <1>4, <1>5
<1>7. CASE Strings!Mismatch(t, p) = Len(p)
  BY <1>3, <1>6, <1>7
<1>8. ASSUME Len(p) \in agree  PROVE Strings!Mismatch(t, p) = Len(p)
  <2>1. Strings!Mismatch(t, p) \in 0 .. Len(p)
    BY <1>2, <1>6
  <2>2. Len(p) <= Strings!Mismatch(t, p)
    BY <1>6, <1>8
  <2> QED BY <2>1, <2>2
<1> QED BY <1>3, <1>7, <1>8

LEMMA PrefixStands ==
    ASSUME NEW X, NEW t \in Seq(X), NEW p \in Seq(X)
    PROVE  IsPrefix(p, t) <=> Len(p) <= Len(t) /\ Stands(t, p, 0)
<1>1. SubSeq(p, 1, Len(p)) = p
  OBVIOUS
<1>2. ASSUME Len(p) <= Len(t)
      PROVE  SubSeq(t, 1, Len(p)) = p <=> Stands(t, p, 0)
  <2> DEFINE s == SubSeq(t, 1, Len(p))
  <2>1. s \in Seq(X) /\ Len(s) = Len(p) /\ \A i \in 1 .. Len(p) : s[i] = t[i]
    BY <1>2
  <2> HIDE DEF s
  <2>2. s = p <=> \A i \in 1 .. Len(p) : s[i] = p[i]
    BY <2>1
  <2> QED BY <2>1, <2>2 DEF Stands, s
<1> QED BY <1>1, <1>2 DEF IsPrefix

LEMMA Reversed ==
    ASSUME NEW X, NEW s \in Seq(X)
    PROVE  /\ Reverse(s) \in Seq(X)
           /\ Strings!Reverse(s) = Reverse(s)
           /\ Len(Reverse(s)) = Len(s)
           /\ \A i \in 1 .. Len(s) : Reverse(s)[i] = s[Len(s) + 1 - i]
<1>1. Strings!Reverse(s) = Reverse(s)
  BY DEF Reverse, Strings!Reverse
<1>2. \A i \in 1 .. Len(s) : Len(s) - i + 1 \in 1 .. Len(s)
  OBVIOUS
<1> QED BY <1>1, <1>2 DEF Reverse

LEMMA ReversedStands ==
    ASSUME NEW X, NEW t \in Seq(X), NEW p \in Seq(X), Len(p) <= Len(t)
    PROVE  Stands(Reverse(t), Reverse(p), 0) <=> Stands(t, p, Len(t) - Len(p))
<1> DEFINE n == Len(p)
           d == Len(t) - Len(p)
<1>0. n \in Nat /\ d \in Nat /\ Len(t) = d + n
  OBVIOUS
<1>1. /\ Len(Reverse(p)) = n
      /\ \A i \in 1 .. n : Reverse(p)[i] = p[n + 1 - i]
      /\ \A i \in 1 .. d + n : Reverse(t)[i] = t[d + n + 1 - i]
  BY <1>0, Reversed
<1> HIDE DEF n, d
<1>2. ASSUME NEW i \in 1 .. n
      PROVE  /\ n + 1 - i \in 1 .. n
             /\ n + 1 - (n + 1 - i) = i
             /\ Reverse(t)[0 + i] = t[d + (n + 1 - i)]
             /\ Reverse(p)[i] = p[n + 1 - i]
             /\ Reverse(t)[0 + (n + 1 - i)] = t[d + i]
             /\ Reverse(p)[n + 1 - i] = p[i]
  <2>1. n + 1 - i \in 1 .. n /\ i \in 1 .. d + n /\ n + 1 - i \in 1 .. d + n
    BY <1>0
  <2>2. /\ n + 1 - (n + 1 - i) = i
        /\ d + n + 1 - (n + 1 - i) = d + i
        /\ d + n + 1 - i = d + (n + 1 - i)
        /\ 0 + i = i /\ 0 + (n + 1 - i) = n + 1 - i
    BY <1>0
  <2>3. Reverse(t)[i] = t[d + n + 1 - i] /\ Reverse(t)[n + 1 - i] = t[d + n + 1 - (n + 1 - i)]
    BY <1>1, <2>1
  <2>4. Reverse(p)[i] = p[n + 1 - i] /\ Reverse(p)[n + 1 - i] = p[n + 1 - (n + 1 - i)]
    BY <1>1, <2>1
  <2> QED BY Zenon, <2>1, <2>2, <2>3, <2>4
<1>3. ASSUME Stands(Reverse(t), Reverse(p), 0), NEW i \in 1 .. n  PROVE t[d + i] = p[i]
  <2>1. n + 1 - i \in 1 .. n
    BY <1>2
  <2>2. Reverse(t)[0 + (n + 1 - i)] = Reverse(p)[n + 1 - i]
    BY Zenon, <1>1, <1>3, <2>1 DEF Stands
  <2> QED BY Zenon, <1>2, <2>2
<1>4. ASSUME Stands(t, p, d), NEW i \in 1 .. n  PROVE Reverse(t)[0 + i] = Reverse(p)[i]
  <2>1. n + 1 - i \in 1 .. n
    BY <1>2
  <2>2. t[d + (n + 1 - i)] = p[n + 1 - i]
    BY Zenon, <1>4, <2>1 DEF Stands, n
  <2> QED BY Zenon, <1>2, <2>2
<1>5. n = Len(p) /\ d = Len(t) - Len(p)
  BY DEF n, d
<1> QED BY Zenon, <1>1, <1>3, <1>4, <1>5 DEF Stands

LEMMA SubSequenceStands ==
    ASSUME NEW X, NEW t \in Seq(X), NEW p \in Seq(X),
           NEW o \in 0 .. Len(t) - Len(p)
    PROVE  SubSeq(t, o + 1, o + Len(p)) = p <=> Stands(t, p, o)
<1> DEFINE s == SubSeq(t, o + 1, o + Len(p))
           n == Len(p)
<1>0. n \in Nat /\ o \in Nat /\ o + n <= Len(t) /\ (n # 0 => o + 1 \in 1 .. Len(t))
  OBVIOUS
<1>1. /\ s \in Seq(X) /\ Len(s) = n
      /\ \A i \in 1 .. n : s[i] = t[o + i]
  <2> HIDE DEF n
  <2>1. /\ SubSeq(t, o + 1, o + n) \in Seq(X) /\ Len(SubSeq(t, o + 1, o + n)) = n
        /\ \A i \in 1 .. n : SubSeq(t, o + 1, o + n)[i] = t[o + i]
    BY <1>0
  <2> QED BY Zenon, <2>1 DEF n
<1> HIDE DEF s
<1>2. s = p <=> \A i \in 1 .. Len(p) : s[i] = p[i]
  <2>1. s \in Seq(X) /\ p \in Seq(X) /\ Len(s) = Len(p)
    BY <1>1
  <2>2. (\A i \in 1 .. Len(p) : s[i] = p[i]) => s = p
    BY <2>1
  <2> QED BY Zenon, <2>2
<1> QED BY <1>1, <1>2 DEF Stands, s

LEMMA SuffixStands ==
    ASSUME NEW X, NEW t \in Seq(X), NEW p \in Seq(X)
    PROVE  (\E s \in Suffixes(t) : IsPrefix(p, s))
           <=> \E o \in 0 .. Len(t) - Len(p) : Stands(t, p, o)
<1>1. ASSUME NEW s \in Suffixes(t), IsPrefix(p, s)
      PROVE  \E o \in 0 .. Len(t) - Len(p) : Stands(t, p, o)
  <2>1. CASE s = << >>
    <3>1. s \in Seq(X) /\ Len(s) = 0
      BY <2>1
    <3>2. IsPrefix(p, s) => Len(p) <= Len(s)
      BY DEF IsPrefix
    <3>2a. Len(p) = 0
      BY <1>1, <3>1, <3>2
    <3>3. Stands(t, p, 0) /\ 0 \in 0 .. Len(t) - Len(p)
      BY <3>2a DEF Stands
    <3> QED BY <3>3
  <2>2. CASE s # << >>
    <3>1. PICK l \in 1 .. Len(t) : s = SubSeq(t, l, Len(t))
      BY <2>2 DEF Suffixes
    <3>2. /\ s \in Seq(X) /\ Len(s) = Len(t) - l + 1
          /\ \A i \in 1 .. Len(s) : s[i] = t[l - 1 + i]
      BY <3>1
    <3>3. Len(p) <= Len(s) /\ Stands(s, p, 0)
      BY <1>1, <3>2, PrefixStands
    <3>4. l - 1 \in 0 .. Len(t) - Len(p)
      BY <3>2, <3>3
    <3>5. Stands(t, p, l - 1)
      BY <3>2, <3>3 DEF Stands
    <3> QED BY <3>4, <3>5
  <2> QED BY <2>1, <2>2
<1>2. ASSUME NEW o \in 0 .. Len(t) - Len(p), Stands(t, p, o)
      PROVE  \E s \in Suffixes(t) : IsPrefix(p, s)
  <2>1. CASE o = Len(t)
    <3>1. Len(p) = 0
      BY <2>1
    <3> DEFINE s == SubSeq(t, 1, 0)
    <3>2. s = << >> /\ s \in Seq(X) /\ Len(s) = 0
      OBVIOUS
    <3>3. s \in Suffixes(t)
      BY <3>2 DEF Suffixes
    <3> HIDE DEF s
    <3>4. Len(p) <= Len(s) /\ Stands(s, p, 0)
      BY <3>1, <3>2 DEF Stands
    <3>5. IsPrefix(p, s)
      BY <3>2, <3>4, PrefixStands
    <3> QED BY <3>3, <3>5
  <2>2. CASE o # Len(t)
    <3> DEFINE s == SubSeq(t, o + 1, Len(t))
    <3>1. o + 1 \in 1 .. Len(t)
      BY <2>2
    <3>2. s \in Suffixes(t)
      BY <3>1 DEF Suffixes
    <3>3. /\ s \in Seq(X) /\ Len(s) = Len(t) - o
          /\ \A i \in 1 .. Len(s) : s[i] = t[o + i]
      BY <3>1
    <3> HIDE DEF s
    <3>4. Len(p) <= Len(s)
      BY <3>3
    <3>5. ASSUME NEW i \in 1 .. Len(p)  PROVE s[0 + i] = p[i]
      <4>1. i \in 1 .. Len(s) /\ 0 + i = i
        BY <3>4, <3>3
      <4>2. t[o + i] = p[i]
        BY Zenon, <1>2 DEF Stands
      <4> QED BY Zenon, <3>3, <4>1, <4>2
    <3>6. Stands(s, p, 0)
      BY Zenon, <3>5 DEF Stands
    <3>7. IsPrefix(p, s)
      BY <3>3, <3>4, <3>6, PrefixStands
    <3> QED BY <3>2, <3>7
  <2> QED BY <2>1, <2>2
<1> QED BY <1>1, <1>2

\* Where a pattern of m characters has to stand in a target of n.
Offsets(fn, n, m) ==
    {o \in 0 .. n - m : /\ fn \in {"eq", "starts_with"} => o = 0
                        /\ fn \in {"eq", "ends_with"} => o = n - m}

StringFunctions == {"eq", "starts_with", "ends_with", "contains"}

LEMMA OffsetCases ==
    ASSUME NEW n \in Nat, NEW m \in Nat
    PROVE  /\ Offsets("eq", n, m) = IF n = m THEN {0} ELSE {}
           /\ Offsets("starts_with", n, m) = IF m <= n THEN {0} ELSE {}
           /\ Offsets("ends_with", n, m) = IF m <= n THEN {n - m} ELSE {}
           /\ Offsets("contains", n, m) = 0 .. n - m
<1>1. Offsets("eq", n, m) = {o \in 0 .. n - m : o = 0 /\ o = n - m}
  BY DEF Offsets
<1>2. Offsets("starts_with", n, m) = {o \in 0 .. n - m : o = 0}
  BY DEF Offsets
<1>3. Offsets("ends_with", n, m) = {o \in 0 .. n - m : o = n - m}
  BY DEF Offsets
<1>4. Offsets("contains", n, m) = 0 .. n - m
  BY DEF Offsets
<1> QED BY <1>1, <1>2, <1>3, <1>4

LEMMA EqualStands ==
    ASSUME NEW X, NEW t \in Seq(X), NEW p \in Seq(X)
    PROVE  t = p <=> Len(t) = Len(p) /\ Stands(t, p, 0)
<1>1. t = p => Len(t) = Len(p) /\ Stands(t, p, 0)
  BY DEF Stands
<1>2. ASSUME Len(t) = Len(p), Stands(t, p, 0)  PROVE t = p
  <2>1. \A i \in 1 .. Len(p) : t[i] = p[i]
    BY <1>2 DEF Stands
  <2> QED BY <1>2, <2>1
<1> QED BY <1>1, <1>2

\* What a name says of target and pattern, and what the predicate computes,
\* both are that the pattern stands in one of the places it has to.
LEMMA NamedStands ==
    ASSUME NEW X, NEW t \in Seq(X), NEW p \in Seq(X), NEW fn \in StringFunctions
    PROVE  Named(fn, t, p) <=> \E o \in Offsets(fn, Len(t), Len(p)) : Stands(t, p, o)
<1>0. Len(t) \in Nat /\ Len(p) \in Nat
  OBVIOUS
<1>1. CASE fn = "eq"
  <2>1. Named(fn, t, p) <=> t = p
    BY Zenon, <1>1 DEF Named
  <2>2. t = p <=> Len(t) = Len(p) /\ Stands(t, p, 0)
    BY EqualStands
  <2>3. Offsets(fn, Len(t), Len(p)) = IF Len(t) = Len(p) THEN {0} ELSE {}
    BY <1>0, <1>1, OffsetCases
  <2> QED BY Zenon, <2>1, <2>2, <2>3
<1>2. CASE fn = "starts_with"
  <2>1. Named(fn, t, p) <=> IsPrefix(p, t)
    BY Zenon, <1>2 DEF Named
  <2>2. IsPrefix(p, t) <=> Len(p) <= Len(t) /\ Stands(t, p, 0)
    BY PrefixStands
  <2>3. Offsets(fn, Len(t), Len(p)) = IF Len(p) <= Len(t) THEN {0} ELSE {}
    BY <1>0, <1>2, OffsetCases
  <2> QED BY Zenon, <2>1, <2>2, <2>3
<1>3. CASE fn = "ends_with"
  <2>1. Named(fn, t, p) <=> IsPrefix(Reverse(p), Reverse(t))
    BY Zenon, <1>3 DEF Named, IsSuffix
  <2>2. /\ Reverse(t) \in Seq(X) /\ Reverse(p) \in Seq(X)
        /\ Len(Reverse(t)) = Len(t) /\ Len(Reverse(p)) = Len(p)
    BY Reversed
  <2>3. IsPrefix(Reverse(p), Reverse(t))
        <=> Len(Reverse(p)) <= Len(Reverse(t)) /\ Stands(Reverse(t), Reverse(p), 0)
    BY <2>2, PrefixStands
  <2>4. Len(p) <= Len(t) =>
          (Stands(Reverse(t), Reverse(p), 0) <=> Stands(t, p, Len(t) - Len(p)))
    BY ReversedStands
  <2>5. Offsets(fn, Len(t), Len(p)) = IF Len(p) <= Len(t) THEN {Len(t) - Len(p)} ELSE {}
    BY <1>0, <1>3, OffsetCases
  <2> QED BY Zenon, <2>1, <2>2, <2>3, <2>4, <2>5
<1>4. CASE fn = "contains"
  <2>1. Named(fn, t, p) <=> \E s \in Suffixes(t) : IsPrefix(p, s)
    BY Zenon, <1>4 DEF Named
  <2>2. (\E s \in Suffixes(t) : IsPrefix(p, s))
        <=> \E o \in 0 .. Len(t) - Len(p) : Stands(t, p, o)
    BY SuffixStands
  <2>3. Offsets(fn, Len(t), Len(p)) = 0 .. Len(t) - Len(p)
    BY <1>0, <1>4, OffsetCases
  <2> QED BY Zenon, <2>1, <2>2, <2>3
<1> QED BY <1>1, <1>2, <1>3, <1>4 DEF StringFunctions

LEMMA PredicateStands ==
    ASSUME NEW X, NEW t \in Seq(X), NEW p \in Seq(X), NEW fn \in StringFunctions
    PROVE  Strings!StringPredicate(fn, t, p)
           <=> \E o \in Offsets(fn, Len(t), Len(p)) : Stands(t, p, o)
<1>0. Len(t) \in Nat /\ Len(p) \in Nat
  OBVIOUS
<1>1. CASE fn = "eq"
  <2>1. Strings!StringPredicate(fn, t, p) <=> t = p
    BY Zenon, <1>1 DEF Strings!StringPredicate
  <2>2. t = p <=> Len(t) = Len(p) /\ Stands(t, p, 0)
    BY EqualStands
  <2>3. Offsets(fn, Len(t), Len(p)) = IF Len(t) = Len(p) THEN {0} ELSE {}
    BY <1>0, <1>1, OffsetCases
  <2> QED BY Zenon, <2>1, <2>2, <2>3
<1>2. CASE fn = "starts_with"
  <2>1. Strings!StringPredicate(fn, t, p) <=> Strings!Mismatch(t, p) = Len(p)
    BY Zenon, <1>2 DEF Strings!StringPredicate
  <2>2. Strings!Mismatch(t, p) = Len(p) <=> Len(p) <= Len(t) /\ Stands(t, p, 0)
    BY <1>0, MismatchAtLength
  <2>3. Offsets(fn, Len(t), Len(p)) = IF Len(p) <= Len(t) THEN {0} ELSE {}
    BY <1>0, <1>2, OffsetCases
  <2> QED BY Zenon, <2>1, <2>2, <2>3
<1>3. CASE fn = "ends_with"
  <2>1. Strings!StringPredicate(fn, t, p)
        <=> Strings!Mismatch(Strings!Reverse(t), Strings!Reverse(p)) = Len(p)
    BY Zenon, <1>3 DEF Strings!StringPredicate
  <2>2. /\ Strings!Reverse(t) = Reverse(t) /\ Strings!Reverse(p) = Reverse(p)
        /\ Len(Reverse(t)) = Len(t) /\ Len(Reverse(p)) = Len(p)
    BY Reversed
  <2>3. Strings!Mismatch(Reverse(t), Reverse(p)) = Len(Reverse(p))
        <=> Len(Reverse(p)) <= Len(Reverse(t)) /\ Stands(Reverse(t), Reverse(p), 0)
    BY <1>0, <2>2, MismatchAtLength
  <2>4. Len(p) <= Len(t) =>
          (Stands(Reverse(t), Reverse(p), 0) <=> Stands(t, p, Len(t) - Len(p)))
    BY ReversedStands
  <2>5. Offsets(fn, Len(t), Len(p)) = IF Len(p) <= Len(t) THEN {Len(t) - Len(p)} ELSE {}
    BY <1>0, <1>3, OffsetCases
  <2> QED BY Zenon, <2>1, <2>2, <2>3, <2>4, <2>5
<1>4. CASE fn = "contains"
  <2>1. Strings!StringPredicate(fn, t, p)
        <=> p = << >> \/ Strings!SearchFinds(t, p)
    BY Zenon, <1>4 DEF Strings!StringPredicate
  <2>2. Strings!SearchFinds(t, p)
        <=> \E o \in 0 .. Len(t) - Len(p) : SubSeq(t, o + 1, o + Len(p)) = p
    BY Zenon DEF Strings!SearchFinds
  <2>3. \A o \in 0 .. Len(t) - Len(p) :
           SubSeq(t, o + 1, o + Len(p)) = p <=> Stands(t, p, o)
    BY SubSequenceStands
  <2>4. p = << >> => 0 \in 0 .. Len(t) - Len(p) /\ Stands(t, p, 0)
    BY DEF Stands
  <2>5. Offsets(fn, Len(t), Len(p)) = 0 .. Len(t) - Len(p)
    BY <1>0, <1>4, OffsetCases
  <2> QED BY Zenon, <2>1, <2>2, <2>3, <2>4, <2>5
<1> QED BY <1>1, <1>2, <1>3, <1>4 DEF StringFunctions

-----------------------------------------------------------------------------
(* Views and case folding *)

Characters == Extended \cup DOMAIN UpperCase

\* The view of a text is what was written.
LEMMA ViewIsWritten ==
    ASSUME NEW text \in Texts
    PROVE  /\ Strings!View(text) = Written(text)
           /\ Written(text) \in Seq(Characters)
<1> DEFINE s == text.chars
           pointed == text.from \in {"array", "pointer"}
           ends == {i \in DOMAIN s : s[i] = Nul}
           First(i) == i \in ends /\ \A j \in ends : i <= j
<1>1. /\ s \in Seq(Characters)
      /\ ~ pointed <=> text.from \in {"string", "string_view"}
      /\ pointed => Nul \in Range(s)
  BY TextsAssumption DEF Characters
<1>2. CASE ~ pointed
  BY Zenon, <1>1, <1>2 DEF Strings!View, Written
<1>3. CASE pointed
  <2>1. ends \in SUBSET Nat /\ ends # {} /\ ends \in SUBSET (1 .. Len(s))
    <3>1. PICK i \in DOMAIN s : s[i] = Nul
      BY Zenon, <1>1, <1>3 DEF Range
    <3>2. DOMAIN s = 1 .. Len(s)
      BY <1>1
    <3> QED BY <3>1, <3>2
  <2>2. ends = {i \in 1 .. Len(s) : s[i] = Nul}
    BY <1>1
  <2>3. Strings!View(text) = SubSeq(s, 1, (CHOOSE i \in ends : \A j \in ends : i <= j) - 1)
    BY Zenon, <1>1, <1>3, <2>1 DEF Strings!View
  <2>4. Written(text) = SubSeq(s, 1, SelectInSeq(s, LAMBDA c : c = Nul) - 1)
    BY Zenon, <1>3 DEF Written
  <2>5. SelectInSeq(s, LAMBDA c : c = Nul) = CHOOSE i \in ends : \A j \in ends : i <= j
    BY Zenon, <2>1, <2>2 DEF SelectInSeq, Min
  <2> DEFINE first == CHOOSE i \in ends : \A j \in ends : i <= j
  <2> HIDE DEF ends
  <2>6. \E i \in ends : \A j \in ends : i <= j
    BY <2>1, SmallestExists
  <2>7. first \in ends
    BY Zenon, <2>6
  <2> HIDE DEF first, s
  <2>8. first - 1 \in 0 .. Len(s)
    <3>1. first \in 1 .. Len(s) /\ Len(s) \in Nat
      BY <1>1, <2>1, <2>7
    <3> QED BY <3>1
  <2>9. SubSeq(s, 1, first - 1) \in Seq(Characters)
    BY <1>1, <2>8
  <2> QED BY Zenon, <2>3, <2>4, <2>5, <2>9 DEF first
<1> QED BY <1>2, <1>3

\* What case folding makes of a character.
Folded(c, fold) == IF c \in DOMAIN UpperCase THEN UpperCase[c] ELSE fold[c]

FoldedCharacters(fold) == {Folded(c, fold) : c \in Characters}

LEMMA CaseFolding ==
    ASSUME NEW fold, NEW s \in Seq(Characters)
    PROVE  /\ Strings!CaseFold(s, fold) \in Seq(FoldedCharacters(fold))
           /\ Len(Strings!CaseFold(s, fold)) = Len(s)
           /\ \A i \in 1 .. Len(s) : Strings!CaseFold(s, fold)[i] = Folded(s[i], fold)
<1>1. DOMAIN s = 1 .. Len(s) /\ Len(s) \in Nat /\ \A i \in 1 .. Len(s) : s[i] \in Characters
  OBVIOUS
<1>2. Strings!CaseFold(s, fold) = [i \in 1 .. Len(s) |-> Folded(s[i], fold)]
  BY Zenon, <1>1 DEF Strings!CaseFold, Folded
<1>3. \A i \in 1 .. Len(s) : Folded(s[i], fold) \in FoldedCharacters(fold)
  BY Zenon, <1>1 DEF FoldedCharacters
<1> QED BY <1>1, <1>2, <1>3

LEMMA LettersOfText ==
    ASSUME NEW s \in Seq(Characters)
    PROVE  /\ Letters(s) \in Seq(SUBSET DOMAIN UpperCase)
           /\ Len(Letters(s)) = Len(s)
           /\ \A i \in 1 .. Len(s) :
                 Letters(s)[i] = {c \in DOMAIN UpperCase : UpperCase[c] = UpperCase[s[i]]}
<1> DEFINE Cases(d) == {c \in DOMAIN UpperCase : UpperCase[c] = UpperCase[d]}
<1>1. DOMAIN s = 1 .. Len(s) /\ Len(s) \in Nat
  OBVIOUS
<1>2. Letters(s) = [i \in 1 .. Len(s) |-> Cases(s[i])]
  BY Zenon, <1>1 DEF Letters
<1>3. \A i \in 1 .. Len(s) : Cases(s[i]) \in SUBSET DOMAIN UpperCase
  BY Zenon
<1>4. \A i \in 1 .. Len(s) : Letters(s)[i] = Cases(s[i])
  BY Zenon, <1>2
<1> HIDE DEF Cases
<1>5. Letters(s) \in Seq(SUBSET DOMAIN UpperCase) /\ Len(Letters(s)) = Len(s)
  BY <1>1, <1>2, <1>3
<1> QED BY Zenon, <1>4, <1>5 DEF Cases

\* Where the pattern stands as it is, it also stands when both are folded;
\* and in texts without extended characters the folded pattern stands where
\* its letters do.
LEMMA FoldedStands ==
    ASSUME NEW fold, NEW t \in Seq(Characters), NEW p \in Seq(Characters),
           NEW o \in 0 .. Len(t) - Len(p)
    PROVE  /\ Stands(t, p, o) => Stands(Strings!CaseFold(t, fold), Strings!CaseFold(p, fold), o)
           /\ Range(t \o p) \cap Extended = {} =>
                (Stands(Strings!CaseFold(t, fold), Strings!CaseFold(p, fold), o)
                 <=> Stands(Letters(t), Letters(p), o))
<1>1. ASSUME NEW i \in 1 .. Len(p)  PROVE o + i \in 1 .. Len(t)
  OBVIOUS
<1>2. /\ Len(Strings!CaseFold(p, fold)) = Len(p) /\ Len(Letters(p)) = Len(p)
      /\ \A i \in 1 .. Len(p) : /\ Strings!CaseFold(p, fold)[i] = Folded(p[i], fold)
                                /\ Strings!CaseFold(t, fold)[o + i] = Folded(t[o + i], fold)
  BY <1>1, CaseFolding, LettersOfText
<1>3. Stands(t, p, o) => Stands(Strings!CaseFold(t, fold), Strings!CaseFold(p, fold), o)
  BY Zenon, <1>2 DEF Stands
<1>4. ASSUME Range(t \o p) \cap Extended = {}, NEW i \in 1 .. Len(p)
      PROVE  Folded(t[o + i], fold) = Folded(p[i], fold)
             <=> Letters(t)[o + i] = Letters(p)[i]
  <2>1. t[o + i] \in DOMAIN UpperCase /\ p[i] \in DOMAIN UpperCase
    <3> DEFINE both == t \o p
    <3>1. o + i \in 1 .. Len(t) /\ t[o + i] \in Characters /\ p[i] \in Characters
      BY <1>1
    <3>2. /\ o + i \in DOMAIN both /\ both[o + i] = t[o + i]
          /\ Len(t) + i \in DOMAIN both /\ both[Len(t) + i] = p[i]
      BY <3>1
    <3> HIDE DEF both
    <3>3. t[o + i] \in Range(both) /\ p[i] \in Range(both)
      BY Zenon, <3>2 DEF Range
    <3>4. t[o + i] \notin Extended /\ p[i] \notin Extended
      BY Zenon, <1>4, <3>3 DEF both
    <3> QED BY Zenon, <3>1, <3>4 DEF Characters
  <2>2. /\ Folded(t[o + i], fold) = UpperCase[t[o + i]]
        /\ Folded(p[i], fold) = UpperCase[p[i]]
    BY Zenon, <2>1 DEF Folded
  <2>3. /\ Letters(t)[o + i] = {c \in DOMAIN UpperCase : UpperCase[c] = UpperCase[t[o + i]]}
        /\ Letters(p)[i] = {c \in DOMAIN UpperCase : UpperCase[c] = UpperCase[p[i]]}
    BY <1>1, LettersOfText
  <2>4. ASSUME Letters(t)[o + i] = Letters(p)[i]
        PROVE  UpperCase[t[o + i]] = UpperCase[p[i]]
    <3>1. t[o + i] \in Letters(t)[o + i]
      BY Zenon, <2>1, <2>3
    <3> QED BY Zenon, <3>1, <2>3, <2>4
  <2> QED BY Zenon, <2>2, <2>3, <2>4
<1>5. Range(t \o p) \cap Extended = {} =>
        (Stands(Strings!CaseFold(t, fold), Strings!CaseFold(p, fold), o)
         <=> Stands(Letters(t), Letters(p), o))
  <2> SUFFICES ASSUME Range(t \o p) \cap Extended = {}
               PROVE  Stands(Strings!CaseFold(t, fold), Strings!CaseFold(p, fold), o)
                      <=> Stands(Letters(t), Letters(p), o)
    OBVIOUS
  <2>1. \A i \in 1 .. Len(p) :
           Folded(t[o + i], fold) = Folded(p[i], fold) <=> Letters(t)[o + i] = Letters(p)[i]
    BY <1>4
  <2> QED BY Zenon, <1>2, <2>1 DEF Stands
<1> QED BY <1>3, <1>5

\* The string matchers agree with their names: exactly, and without regard
\* to case for texts in ASCII.
LEMMA StringMatchersSound ==
    ASSUME NEW a \in Texts, NEW b \in Texts, NEW fold, NEW fn \in StringFunctions
    PROVE  /\ Strings!StringMatches(fn, FALSE, a, b, fold) <=> Named(fn, Written(a), Written(b))
           /\ Strings!StringMatches(fn, FALSE, a, b, fold)
                => Strings!StringMatches(fn, TRUE, a, b, fold)
           /\ Range(Written(a) \o Written(b)) \cap Extended = {} =>
                (Strings!StringMatches(fn, TRUE, a, b, fold)
                 <=> Named(fn, Letters(Written(a)), Letters(Written(b))))
<1> DEFINE t == Written(a)
           p == Written(b)
           foldedT == Strings!CaseFold(t, fold)
           foldedP == Strings!CaseFold(p, fold)
           places == Offsets(fn, Len(t), Len(p))
<1>1. /\ t \in Seq(Characters) /\ Strings!View(a) = t
      /\ p \in Seq(Characters) /\ Strings!View(b) = p
  BY ViewIsWritten
<1>2. Strings!StringMatches(fn, FALSE, a, b, fold) <=> Strings!StringPredicate(fn, t, p)
  BY Zenon, <1>1 DEF Strings!StringMatches, Strings!Viewed
<1>3. Strings!StringMatches(fn, TRUE, a, b, fold)
      <=> Strings!StringPredicate(fn, foldedT, foldedP)
  BY Zenon, <1>1 DEF Strings!StringMatches, Strings!Viewed
<1> HIDE DEF t, p
<1>4. /\ foldedT \in Seq(FoldedCharacters(fold)) /\ Len(foldedT) = Len(t)
      /\ foldedP \in Seq(FoldedCharacters(fold)) /\ Len(foldedP) = Len(p)
  BY <1>1, CaseFolding
<1>5. /\ Letters(t) \in Seq(SUBSET DOMAIN UpperCase) /\ Len(Letters(t)) = Len(t)
      /\ Letters(p) \in Seq(SUBSET DOMAIN UpperCase) /\ Len(Letters(p)) = Len(p)
  BY <1>1, LettersOfText
<1> HIDE DEF foldedT, foldedP, places
<1>6. /\ Strings!StringPredicate(fn, t, p) <=> \E o \in places : Stands(t, p, o)
      /\ Named(fn, t, p) <=> \E o \in places : Stands(t, p, o)
  BY <1>1, PredicateStands, NamedStands DEF places
<1>7. Strings!StringPredicate(fn, foldedT, foldedP)
      <=> \E o \in places : Stands(foldedT, foldedP, o)
  <2>1. Strings!StringPredicate(fn, foldedT, foldedP)
        <=> \E o \in Offsets(fn, Len(foldedT), Len(foldedP)) : Stands(foldedT, foldedP, o)
    BY <1>4, PredicateStands
  <2> QED BY Zenon, <1>4, <2>1 DEF places
<1>8. Named(fn, Letters(t), Letters(p)) <=> \E o \in places : Stands(Letters(t), Letters(p), o)
  <2>1. Named(fn, Letters(t), Letters(p))
        <=> \E o \in Offsets(fn, Len(Letters(t)), Len(Letters(p))) :
               Stands(Letters(t), Letters(p), o)
    BY <1>5, NamedStands
  <2> QED BY Zenon, <1>5, <2>1 DEF places
<1>9. ASSUME NEW o \in places
      PROVE  /\ Stands(t, p, o) => Stands(foldedT, foldedP, o)
             /\ Range(t \o p) \cap Extended = {} =>
                  (Stands(foldedT, foldedP, o) <=> Stands(Letters(t), Letters(p), o))
  <2>1. o \in 0 .. Len(t) - Len(p)
    BY Zenon DEF places, Offsets
  <2> QED BY <1>1, <2>1, FoldedStands DEF foldedT, foldedP
<1>10. Strings!StringPredicate(fn, t, p) <=> Named(fn, t, p)
  BY Zenon, <1>6
<1>11. Strings!StringPredicate(fn, t, p) => Strings!StringPredicate(fn, foldedT, foldedP)
  BY Zenon, <1>6, <1>7, <1>9
<1>12. Range(t \o p) \cap Extended = {} =>
         (Strings!StringPredicate(fn, foldedT, foldedP) <=> Named(fn, Letters(t), Letters(p)))
  BY Zenon, <1>7, <1>8, <1>9
<1> QED BY Zenon, <1>2, <1>3, <1>10, <1>11, <1>12 DEF t, p

\* Each string matcher accepts what its name says of the strings as written,
\* wherever they are stored; without regard to case it accepts all of that,
\* and of texts in ASCII exactly those whose letters agree.
THEOREM StringMatchersHold == Spec => []StringMatchersAgree
<1>1. SampleInput => StringMatchersAgree
  <2> SUFFICES ASSUME SampleInput, Is("string")  PROVE StringMatchersAgree
    BY DEF StringMatchersAgree
  <2> DEFINE a == sample.target
             b == sample.pattern
             Accepts(fn, insensitive) ==
                 Strings!StringMatches(fn, insensitive, a, b, sample.fold)
  <2>1. a \in Texts /\ b \in Texts
    BY Zenon DEF SampleInput
  <2> HIDE DEF a, b
  <2>2. ASSUME NEW fn \in StringFunctions
        PROVE  /\ Accepts(fn, FALSE) <=> Named(fn, Written(a), Written(b))
               /\ Accepts(fn, FALSE) => Accepts(fn, TRUE)
               /\ Range(Written(a) \o Written(b)) \cap Extended = {} =>
                    (Accepts(fn, TRUE)
                     <=> Named(fn, Letters(Written(a)), Letters(Written(b))))
    BY <2>1, StringMatchersSound
  <2> QED BY Zenon, <2>2 DEF StringMatchersAgree, StringFunctions, a, b
<1> QED BY <1>1, SamplesAreInputs, PTL

-----------------------------------------------------------------------------
(* The macros *)

\* What is made of args by m scans that paste.
Loop(token, args) ==
    [done : Seq([sequence : Seq({token}), arg : Range(args)]),
     rest : Seq(Range(args)), token : {token}, sequence : Seq({token})]

HasPasted(s, args, m) ==
    /\ Len(s.done) = m
    /\ \A k \in 1 .. m : Len(s.done[k].sequence) = k /\ s.done[k].arg = args[k]
    /\ Len(s.rest) = Len(args) - m
    /\ \A k \in 1 .. Len(args) - m : s.rest[k] = args[m + k]
    /\ Len(s.sequence) = m + 1

\* The preprocessor after n scans.
Pasted(token, args, n) ==
    {s \in Loop(token, args) :
        HasPasted(s, args, IF n < Len(args) THEN n ELSE Len(args))}

LEMMA StartsPasting ==
    ASSUME NEW token, NEW args, args \in Seq(Range(args))
    PROVE  Start(token, args) \in Pasted(token, args, 0)
<1> DEFINE s == Start(token, args)
<1>1. s.done = << >> /\ s.rest = args /\ s.sequence = <<token>>
  BY Zenon DEF Start
<1>2. s \in Loop(token, args)
  <2>1. << >> \in Seq([sequence : Seq({token}), arg : Range(args)])
    OBVIOUS
  <2>2. <<token>> \in Seq({token})
    OBVIOUS
  <2> QED BY <2>1, <2>2 DEF Start, Loop
<1>3. Len(<< >>) = 0 /\ Len(<<token>>) = 1 /\ Len(args) \in Nat
  OBVIOUS
<1> HIDE DEF s
<1>4. HasPasted(s, args, 0)
  <2>1. Len(s.done) = 0 /\ Len(s.rest) = Len(args) /\ Len(s.sequence) = 1
    BY Zenon, <1>1, <1>3
  <2>2. \A k \in 1 .. Len(args) : s.rest[k] = args[k]
    BY Zenon, <1>1
  <2>3. Len(args) - 0 = Len(args) /\ \A k \in 1 .. Len(args) : 0 + k = k
    BY <1>3
  <2> QED BY <2>1, <2>2, <2>3 DEF HasPasted
<1>5. 0 = IF 0 < Len(args) THEN 0 ELSE Len(args)
  BY <1>3
<1> QED BY Zenon, <1>2, <1>4, <1>5 DEF s, Pasted

LEMMA TailOf ==
    ASSUME NEW R, NEW q \in Seq(R), q # << >>
    PROVE  /\ Len(q) \in Nat \ {0} /\ Head(q) = q[1] /\ Head(q) \in R
           /\ Tail(q) \in Seq(R) /\ Len(Tail(q)) = Len(q) - 1
           /\ \A k \in 1 .. Len(q) - 1 : Tail(q)[k] = q[k + 1]
OBVIOUS

LEMMA AppendTo ==
    ASSUME NEW R, NEW q \in Seq(R), NEW x \in R
    PROVE  /\ Append(q, x) \in Seq(R) /\ Len(Append(q, x)) = Len(q) + 1
           /\ Append(q, x)[Len(q) + 1] = x
           /\ \A k \in 1 .. Len(q) : Append(q, x)[k] = q[k]
OBVIOUS

\* One scan pastes one element, if there is one left.
LEMMA ScanPastes ==
    ASSUME NEW token, NEW args, args \in Seq(Range(args)), NEW n \in Nat,
           NEW s \in Pasted(token, args, n)
    PROVE  Scan(s) \in Pasted(token, args, n + 1)
<1> DEFINE m == IF n < Len(args) THEN n ELSE Len(args)
           E == [sequence : Seq({token}), arg : Range(args)]
<1>0. Len(args) \in Nat /\ m \in 0 .. Len(args)
  OBVIOUS
<1>1. s \in Loop(token, args) /\ HasPasted(s, args, m)
  BY DEF Pasted
<1>2. /\ s.done \in Seq(E) /\ s.rest \in Seq(Range(args)) /\ s.sequence \in Seq({token})
      /\ s.token = token
  BY <1>1 DEF Loop
<1>3. CASE s.rest = << >>
  <2>1. Scan(s) = s
    BY <1>3 DEF Scan
  <2>2. Len(s.rest) = 0
    BY <1>3
  <2>3. m = Len(args)
    <3> HIDE DEF m
    <3> QED BY <1>0, <1>1, <2>2 DEF HasPasted
  <2>4. m = IF n + 1 < Len(args) THEN n + 1 ELSE Len(args)
    BY <1>0, <2>3
  <2> QED BY Zenon, <1>1, <2>1, <2>4 DEF Pasted
<1>4. CASE s.rest # << >>
  <2> DEFINE el == [sequence |-> s.sequence, arg |-> Head(s.rest)]
             done == Append(s.done, el)
             rest == Tail(s.rest)
             sequence_ == Append(s.sequence, token)
             t == Scan(s)
  <2>1. t = [s EXCEPT !.done = done, !.rest = rest, !.sequence = sequence_]
    BY Zenon, <1>2, <1>4 DEF Scan
  <2>2. /\ Len(s.rest) \in Nat \ {0} /\ Head(s.rest) = s.rest[1]
        /\ Head(s.rest) \in Range(args)
        /\ rest \in Seq(Range(args)) /\ Len(rest) = Len(s.rest) - 1
        /\ \A k \in 1 .. Len(s.rest) - 1 : rest[k] = s.rest[k + 1]
    BY <1>2, <1>4, TailOf
  <2>3. m < Len(args) /\ m + 1 = IF n + 1 < Len(args) THEN n + 1 ELSE Len(args)
    <3>1. m < Len(args)
      <4> HIDE DEF m, rest
      <4> QED BY <1>0, <1>1, <2>2 DEF HasPasted
    <3> QED BY <1>0, <3>1
  <2>4. el \in E /\ el.sequence = s.sequence /\ el.arg = s.rest[1]
    BY <1>2, <2>2
  <2> HIDE DEF m, E, el, rest
  <2>5. /\ done \in Seq(E) /\ Len(done) = Len(s.done) + 1 /\ done[Len(s.done) + 1] = el
        /\ \A k \in 1 .. Len(s.done) : done[k] = s.done[k]
    BY <1>2, <2>4, AppendTo
  <2>6. sequence_ \in Seq({token}) /\ Len(sequence_) = Len(s.sequence) + 1
    BY <1>2, AppendTo
  <2> HIDE DEF done, sequence_, t
  <2>7. t \in Loop(token, args) /\ t.done = done /\ t.rest = rest /\ t.sequence = sequence_
    BY <1>1, <2>1, <2>2, <2>5, <2>6 DEF Loop, E
  <2>8. HasPasted(t, args, m + 1)
    <3>0. /\ Len(s.done) = m /\ Len(s.rest) = Len(args) - m /\ Len(s.sequence) = m + 1
          /\ \A k \in 1 .. m : Len(s.done[k].sequence) = k /\ s.done[k].arg = args[k]
          /\ \A k \in 1 .. Len(args) - m : s.rest[k] = args[m + k]
      BY <1>1 DEF HasPasted
    <3>1. Len(done) = m + 1 /\ Len(rest) = Len(args) - (m + 1) /\ Len(sequence_) = m + 1 + 1
      BY <1>0, <2>2, <2>5, <2>6, <3>0
    <3>2. s.rest[1] = args[m + 1]
      BY <1>0, <2>3, <3>0
    <3>3. ASSUME NEW k \in 1 .. m + 1
          PROVE  Len(done[k].sequence) = k /\ done[k].arg = args[k]
      <4>1. CASE k = m + 1
        <5>1. done[k] = el
          BY Zenon, <2>5, <3>0, <4>1
        <5> QED BY Zenon, <2>4, <3>0, <3>2, <4>1, <5>1
      <4>2. CASE k # m + 1
        <5>1. k \in 1 .. m
          BY <1>0, <4>2
        <5>2. done[k] = s.done[k]
          BY Zenon, <2>5, <3>0, <5>1
        <5> QED BY Zenon, <3>0, <5>1, <5>2
      <4> QED BY <4>1, <4>2
    <3>4. ASSUME NEW k \in 1 .. Len(args) - (m + 1)
          PROVE  rest[k] = args[m + 1 + k]
      <4>1. /\ k \in 1 .. Len(s.rest) - 1 /\ k + 1 \in 1 .. Len(args) - m
            /\ m + (k + 1) = m + 1 + k
        BY <1>0, <3>0
      <4>2. s.rest[k + 1] = args[m + (k + 1)]
        BY Zenon, <3>0, <4>1
      <4> QED BY Zenon, <2>2, <4>1, <4>2
    <3> QED BY Zenon, <2>7, <3>1, <3>3, <3>4 DEF HasPasted
  <2> QED BY Zenon, <2>3, <2>7, <2>8 DEF Pasted, t
<1> QED BY <1>3, <1>4

\* 4 ^ 3 scans, and those of the macros around them.
LEMMA Expansions ==
    ASSUME NEW token, NEW args, args \in Seq(Range(args)), NEW n \in Nat,
           NEW s \in Pasted(token, args, n)
    PROVE  Expand(s) \in Pasted(token, args, n + 85)
<1> DEFINE P(k) == Pasted(token, args, k)
<1>1. \A k \in Nat : \A t \in P(k) : Scan(t) \in P(k + 1)
  BY ScanPastes
<1> HIDE DEF P
<1>2. \A k \in Nat : \A t \in P(k) : Expand1(t) \in P(k + 1)
  BY <1>1 DEF Expand1
<1>3. ASSUME NEW k \in Nat, NEW t \in P(k)  PROVE Expand2(t) \in P(k + 5)
  <2>1. Expand1(t) \in P(k + 1)
    BY <1>2
  <2>2. Expand1(Expand1(t)) \in P(k + 2)
    BY <1>2, <2>1
  <2>3. Expand1(Expand1(Expand1(t))) \in P(k + 3)
    BY <1>2, <2>2
  <2>4. Expand1(Expand1(Expand1(Expand1(t)))) \in P(k + 4)
    BY <1>2, <2>3
  <2>5. Scan(Expand1(Expand1(Expand1(Expand1(t))))) \in P(k + 5)
    BY <1>1, <2>4
  <2> QED BY <2>5 DEF Expand2, Fourfold
<1>4. ASSUME NEW k \in Nat, NEW t \in P(k)  PROVE Expand3(t) \in P(k + 21)
  <2>1. Expand2(t) \in P(k + 5)
    BY <1>3
  <2>2. Expand2(Expand2(t)) \in P(k + 10)
    BY <1>3, <2>1
  <2>3. Expand2(Expand2(Expand2(t))) \in P(k + 15)
    BY <1>3, <2>2
  <2>4. Expand2(Expand2(Expand2(Expand2(t)))) \in P(k + 20)
    BY <1>3, <2>3
  <2>5. Scan(Expand2(Expand2(Expand2(Expand2(t))))) \in P(k + 21)
    BY <1>1, <2>4
  <2> QED BY <2>5 DEF Expand3, Fourfold
<1>5. s \in P(n)
  BY DEF P
<1>6. Expand3(s) \in P(n + 21)
  BY <1>4, <1>5
<1>7. Expand3(Expand3(s)) \in P(n + 42)
  BY <1>4, <1>6
<1>8. Expand3(Expand3(Expand3(s))) \in P(n + 63)
  BY <1>4, <1>7
<1>9. Expand3(Expand3(Expand3(Expand3(s)))) \in P(n + 84)
  BY <1>4, <1>8
<1>10. Scan(Expand3(Expand3(Expand3(Expand3(s))))) \in P(n + 85)
  BY <1>1, <1>9
<1> QED BY <1>10 DEF Expand, Fourfold, P

\* The loop pastes up to 86 elements, in order and each with a name of its
\* own, and leaves a rest exactly when there are more.
LEMMA Looping ==
    ASSUME NEW token, NEW args, args \in Seq(Range(args))
    PROVE  LET each == ForEachExt(token, args)
           IN  /\ each.rest = << >> <=> Len(args) <= 86
               /\ Len(args) <= 86 =>
                    /\ Len(each.done) = Len(args) /\ DOMAIN each.done = 1 .. Len(args)
                    /\ \A k \in 1 .. Len(args) :
                          Len(each.done[k].sequence) = k /\ each.done[k].arg = args[k]
               /\ each \in Loop(token, args)
<1> DEFINE each == ForEachExt(token, args)
<1>1. Scan(Start(token, args)) \in Pasted(token, args, 0 + 1)
  BY StartsPasting, ScanPastes
<1>2. each \in Pasted(token, args, 86)
  <2>1. Scan(Start(token, args)) \in Pasted(token, args, 1)
    BY <1>1
  <2>2. Expand(Scan(Start(token, args))) \in Pasted(token, args, 1 + 85)
    BY <2>1, Expansions
  <2> QED BY <2>2 DEF ForEachExt
<1> HIDE DEF each
<1>3. Len(args) \in Nat
  OBVIOUS
<1> DEFINE m == IF 86 < Len(args) THEN 86 ELSE Len(args)
<1>4. /\ each \in Loop(token, args)
      /\ Len(each.rest) = Len(args) - m
      /\ Len(each.done) = m
      /\ \A k \in 1 .. m : Len(each.done[k].sequence) = k /\ each.done[k].arg = args[k]
  BY <1>2 DEF Pasted, HasPasted
<1>5. each.rest = << >> <=> Len(args) <= 86
  <2>1. each.rest \in Seq(Range(args))
    BY <1>4 DEF Loop
  <2>2. each.rest = << >> <=> Len(each.rest) = 0
    BY <2>1
  <2>3. Len(each.rest) = Len(args) - m
    BY Zenon, <1>4
  <2>4. CASE Len(args) <= 86
    <3>1. m = Len(args)
      BY <1>3, <2>4
    <3>2. Len(args) - Len(args) = 0
      BY <1>3
    <3> QED BY Zenon, <2>2, <2>3, <2>4, <3>1, <3>2
  <2>5. CASE ~ (Len(args) <= 86)
    <3>1. m = 86
      BY <1>3, <2>5
    <3>2. \A n \in Nat : ~ (n <= 86) => n - 86 # 0
      OBVIOUS
    <3> QED BY Zenon, <1>3, <2>2, <2>3, <2>5, <3>1, <3>2
  <2> QED BY <2>4, <2>5
<1>6. ASSUME Len(args) <= 86
      PROVE  /\ Len(each.done) = Len(args)
             /\ \A k \in 1 .. Len(args) :
                   Len(each.done[k].sequence) = k /\ each.done[k].arg = args[k]
  <2>1. m = Len(args)
    BY <1>3, <1>6
  <2> QED BY Zenon, <1>4, <2>1
<1>7. DOMAIN each.done = 1 .. Len(each.done)
  <2>1. each.done \in Seq([sequence : Seq({token}), arg : Range(args)])
    BY <1>2 DEF Pasted, Loop
  <2>2. \A E : \A q \in Seq(E) : DOMAIN q = 1 .. Len(q)
    OBVIOUS
  <2> QED BY Zenon, <2>1, <2>2
<1> QED BY <1>4, <1>5, <1>6, <1>7 DEF each

\* The lists joined so far, while FlattenSeq walks over them.
LEMMA Flattening ==
    ASSUME NEW seqs, Len(seqs) \in Nat \ {0}
    PROVE  \E flat :
              /\ flat[1] = seqs[1]
              /\ \A n \in 2 .. Len(seqs) : flat[n] = flat[n - 1] \o seqs[n]
              /\ FlattenSeq(seqs) = flat[Len(seqs)]
<1> DEFINE N == Len(seqs)
           Join(f, n) == IF n = 1 THEN seqs[n] ELSE f[n - 1] \o seqs[n]
           Chain(g, n) == g = [k \in 1 .. n |-> g[k]] /\ \A k \in 1 .. n : g[k] = Join(g, k)
           Missing == {n \in 1 .. N : ~ \E g : Chain(g, n)}
<1>1. Missing = {}
  <2> SUFFICES ASSUME Missing # {}  PROVE FALSE
    OBVIOUS
  <2>0. Missing \in SUBSET Nat
    OBVIOUS
  <2>1. PICK n \in Missing : \A m \in Missing : n <= m
    BY <2>0, SmallestExists
  <2>2. n \in 1 .. N /\ ~ \E g : Chain(g, n)
    OBVIOUS
  <2>3. n # 1
    <3> DEFINE g == [k \in 1 .. 1 |-> seqs[1]]
    <3>1. g = [k \in 1 .. 1 |-> g[k]] /\ g[1] = seqs[1]
      OBVIOUS
    <3> HIDE DEF g
    <3>2. Chain(g, 1)
      BY <3>1
    <3> QED BY <3>2, <2>2
  <2>4. n - 1 \in 1 .. N /\ ~ (n <= n - 1)
    BY <2>2, <2>3
  <2>5. PICK g : Chain(g, n - 1)
    BY <2>1, <2>4
  <2> DEFINE h == [k \in 1 .. n |-> IF k = n THEN Join(g, n) ELSE g[k]]
  <2>6. Chain(h, n)
    <3>1. n \in 1 .. n /\ \A k \in 1 .. n - 1 : k \in 1 .. n /\ k # n
      BY <2>2
    <3>2. h[n] = Join(g, n) /\ \A k \in 1 .. n - 1 : h[k] = g[k]
      <4> HIDE DEF Join
      <4> QED BY Zenon, <3>1
    <3>3. h = [k \in 1 .. n |-> h[k]]
      OBVIOUS
    <3> HIDE DEF h
    <3>4. ASSUME NEW k \in 1 .. n  PROVE h[k] = Join(h, k)
      <4>1. k = 1 \/ h[k - 1] = g[k - 1]
        <5>1. CASE k # 1
          <6>1. k - 1 \in 1 .. n - 1
            BY <2>2, <5>1
          <6> QED BY <3>2, <6>1
        <5> QED BY <5>1
      <4>2. Join(h, k) = Join(g, k)
        BY Zenon, <4>1
      <4>3. CASE k = n
        BY Zenon, <3>2, <4>2, <4>3
      <4>4. CASE k # n
        <5>1. k \in 1 .. n - 1
          BY <2>2, <4>4
        <5>2. g[k] = Join(g, k) /\ h[k] = g[k]
          BY Zenon, <2>5, <3>2, <5>1
        <5> HIDE DEF Join
        <5> QED BY <4>2, <5>2
      <4> QED BY <4>3, <4>4
    <3> HIDE DEF Join
    <3> QED BY <3>3, <3>4
  <2> HIDE DEF h
  <2> QED BY <2>2, <2>6
<1>2. PICK g : Chain(g, N)
  BY <1>1
<1> DEFINE Step(f) == f = [n \in 1 .. N |-> Join(f, n)]
           flat == CHOOSE f : Step(f)
<1>3. Step(g)
  <2> HIDE DEF Join
  <2> QED BY Zenon, <1>2
<1>4. Step(flat)
  <2> HIDE DEF Step
  <2> QED BY Zenon, <1>3
<1>5. FlattenSeq(seqs) = flat[N]
  <2>1. N # 0
    OBVIOUS
  <2> QED BY Zenon, <2>1 DEF FlattenSeq
<1> HIDE DEF flat
<1>6. \A n \in 1 .. N : flat[n] = Join(flat, n)
  <2> HIDE DEF Join
  <2> QED BY Zenon, <1>4
<1>7. 1 \in 1 .. N /\ \A n \in 2 .. N : n \in 1 .. N /\ n # 1
  OBVIOUS
<1> QED BY Zenon, <1>5, <1>6, <1>7

\* A list of what is forwarded, and the list of its types.
Forwards(x, y, F, T, names) ==
    /\ x \in Seq(F) /\ y \in Seq(T)
    /\ Len(x) = Len(y)
    /\ \A k \in 1 .. Len(x) : x[k].type = y[k] /\ x[k].name \in names

LEMMA ForwardsTogether ==
    ASSUME NEW F, NEW T, NEW names, NEW x, NEW y, NEW u, NEW v,
           Forwards(x, y, F, T, names), Forwards(u, v, F, T, names)
    PROVE  Forwards(x \o u, y \o v, F, T, names)
<1> DEFINE Joined(S, p, q, i, j) ==
             /\ i \in Nat /\ j \in Nat
             /\ p \o q \in Seq(S) /\ Len(p \o q) = i + j
             /\ \A k \in 1 .. i + j : (p \o q)[k] = IF k <= i THEN p[k] ELSE q[k - i]
<1>1. \A S, i, j : \A p, q \in Seq(S) :
         Len(p) = i /\ Len(q) = j => Joined(S, p, q, i, j)
  OBVIOUS
<1>2. x \in Seq(F) /\ u \in Seq(F) /\ y \in Seq(T) /\ v \in Seq(T)
      /\ Len(x) = Len(y) /\ Len(u) = Len(v)
  BY Zenon DEF Forwards
<1> HIDE DEF Joined
<1> DEFINE xu == x \o u
           yv == y \o v
           m == Len(x)
           n == Len(u)
<1>3. Joined(F, x, u, m, n) /\ Joined(T, y, v, m, n)
  BY Zenon, <1>1, <1>2
<1>4. /\ m \in Nat /\ n \in Nat
      /\ xu \in Seq(F) /\ Len(xu) = m + n
      /\ \A k \in 1 .. m + n : xu[k] = IF k <= m THEN x[k] ELSE u[k - m]
  BY Zenon, <1>3 DEF Joined
<1>5. /\ yv \in Seq(T) /\ Len(yv) = m + n
      /\ \A k \in 1 .. m + n : yv[k] = IF k <= m THEN y[k] ELSE v[k - m]
  BY Zenon, <1>3 DEF Joined
<1>6. /\ \A k \in 1 .. m : x[k].type = y[k] /\ x[k].name \in names
      /\ \A k \in 1 .. n : u[k].type = v[k] /\ u[k].name \in names
  BY Zenon DEF Forwards
<1> HIDE DEF xu, yv, m, n
<1>7. ASSUME NEW k \in 1 .. m + n
      PROVE  xu[k].type = yv[k] /\ xu[k].name \in names
  <2>1. CASE k <= m
    <3>1. k \in 1 .. m
      BY <1>4, <2>1
    <3> QED BY Zenon, <1>4, <1>5, <1>6, <2>1, <3>1
  <2>2. CASE ~ (k <= m)
    <3>1. k - m \in 1 .. n
      BY <1>4, <2>2
    <3> QED BY Zenon, <1>4, <1>5, <1>6, <2>2, <3>1
  <2> QED BY <2>1, <2>2
<1> QED BY Zenon, <1>4, <1>5, <1>7 DEF Forwards, xu, yv

\* Joining packs of forwarded arguments joins their types.
LEMMA ForwardsAllTogether ==
    ASSUME NEW F, NEW T, NEW names, NEW xs \in Seq(Seq(F)), NEW ys \in Seq(Seq(T)),
           Len(xs) = Len(ys),
           \A n \in 1 .. Len(xs) : Forwards(xs[n], ys[n], F, T, names)
    PROVE  Forwards(FlattenSeq(xs), FlattenSeq(ys), F, T, names)
<1> DEFINE N == Len(xs)
<1>0. N \in Nat
  OBVIOUS
<1>1. CASE N = 0
  <2>1. FlattenSeq(xs) = xs /\ FlattenSeq(ys) = ys
    BY Zenon, <1>1 DEF FlattenSeq
  <2>2. \A E : \A q \in Seq(E) : Len(q) = 0 => q = << >>
    OBVIOUS
  <2>3. << >> \in Seq(F) /\ << >> \in Seq(T) /\ Len(<< >>) = 0
    OBVIOUS
  <2>4. xs = << >> /\ ys = << >>
    BY Zenon, <1>1, <2>2
  <2>5. \A k \in 1 .. 0 : FALSE
    OBVIOUS
  <2> QED BY Zenon, <2>1, <2>3, <2>4, <2>5 DEF Forwards
<1>2. CASE N # 0
  <2>1. PICK f : /\ f[1] = xs[1]
                 /\ \A n \in 2 .. N : f[n] = f[n - 1] \o xs[n]
                 /\ FlattenSeq(xs) = f[N]
    BY <1>0, <1>2, Flattening
  <2>2. PICK g : /\ g[1] = ys[1]
                 /\ \A n \in 2 .. N : g[n] = g[n - 1] \o ys[n]
                 /\ FlattenSeq(ys) = g[N]
    BY <1>0, <1>2, Flattening
  <2> DEFINE Bad == {n \in 1 .. N : ~ Forwards(f[n], g[n], F, T, names)}
  <2>3. Bad = {}
    <3> SUFFICES ASSUME Bad # {}  PROVE FALSE
      OBVIOUS
    <3>1. Bad \in SUBSET Nat
      OBVIOUS
    <3>2. PICK n \in Bad : \A m \in Bad : n <= m
      BY <3>1, SmallestExists
    <3>3. n \in 1 .. N /\ ~ Forwards(f[n], g[n], F, T, names)
      OBVIOUS
    <3>4. n # 1
      BY Zenon, <2>1, <2>2, <3>3
    <3>5. n \in 2 .. N /\ n - 1 \in 1 .. N /\ ~ (n <= n - 1)
      BY <1>0, <3>3, <3>4
    <3>6. Forwards(f[n - 1], g[n - 1], F, T, names)
      BY Zenon, <3>2, <3>5
    <3>7. Forwards(xs[n], ys[n], F, T, names)
      BY Zenon, <3>3
    <3>8. Forwards(f[n - 1] \o xs[n], g[n - 1] \o ys[n], F, T, names)
      BY <3>6, <3>7, ForwardsTogether
    <3> QED BY Zenon, <2>1, <2>2, <3>3, <3>5, <3>8
  <2>4. N \in 1 .. N
    BY <1>0, <1>2
  <2> QED BY Zenon, <2>1, <2>2, <2>3, <2>4
<1> QED BY <1>1, <1>2

-----------------------------------------------------------------------------
(* Overloads *)

\* The expression of an override reaches the overload it is for: others of
\* the set are not viable, or a worse match.
LEMMA OwnIsPreferred ==
    ASSUME NEW a, NEW b, a.const \in BOOLEAN, a.ref \in RefQualifiers,
           b.const \in BOOLEAN, b.ref \in RefQualifiers,
           NEW e, e.params = a.params, e.const = a.const, e.rvalue = (a.ref = "&&")
    PROVE  /\ BindsTo(a, e)
           /\ BindsTo(b, e) /\ (\/ <<Qualifiers(a), Qualifiers(b)>> \in OverloadablePairs
                                \/ <<Qualifiers(b), Qualifiers(a)>> \in OverloadablePairs)
                 => IsPreferredTo(a, b)
BY DEF BindsTo, Qualifiers, OverloadablePairs, IsPreferredTo, RefQualifiers

\* What the macros know of an overload.
LEMMA OverloadInfos ==
    ASSUME NEW o, IsOverload(o)
    PROVE  LET info == AddOverload(o.ret, o.params, o.more)
           IN  /\ info.params = o.params
               /\ info.specs \in Specs
               /\ info.paramList = MakeParamList(o.params)
               /\ info.forwardList = ForwardArgsAsTuple(o.params)
<1> DEFINE more == o.more
           info == AddOverload(o.ret, o.params, more)
           given == IF more = << >> THEN <<EmptyArgument>> ELSE more
           at(i) == IF i \in DOMAIN more THEN more[i] ELSE EmptyArgument
<1>1. Len(given) \in 1 .. 2
  <2>1. \A x : Len(<<x>>) = 1
    OBVIOUS
  <2>2. CASE more = << >>
    <3>1. Len(given) = 1
      BY Zenon, <2>1, <2>2
    <3> QED BY <3>1
  <2>3. CASE more # << >>
    BY Zenon, <2>3 DEF IsOverload
  <2> QED BY <2>2, <2>3
<1>2. SelectMakeOverloadInfos(more) \in {"ALL", "SPECS"}
  <2>1. PICK n \in 1 .. 2 : n = Len(given)
    BY <1>1
  <2>2. SelectMakeOverloadInfos(more) = <<"ALL", "SPECS", "BASIC">>[3 - n]
    BY Zenon, <2>1 DEF SelectMakeOverloadInfos
  <2>3. <<"ALL", "SPECS", "BASIC">>[3 - n] \in {"ALL", "SPECS"}
    OBVIOUS
  <2> QED BY Zenon, <2>2, <2>3
<1>3. PICK convention : info = MakeOverloadInfosAll(o.ret, o.params, at(1), convention)
  <2>1. "ALL" # "SPECS" /\ "ALL" # "BASIC" /\ "SPECS" # "BASIC"
    OBVIOUS
  <2>2. CASE SelectMakeOverloadInfos(more) = "ALL"
    BY Zenon, <2>2 DEF AddOverload
  <2>3. CASE SelectMakeOverloadInfos(more) = "SPECS"
    BY Zenon, <2>1, <2>3 DEF AddOverload
  <2> QED BY <1>2, <2>2, <2>3
<1> HIDE DEF info
<1>4. Given(at(1), NoSpecs) \in Specs
  <2>1. NoSpecs \in Specs
    BY DEF NoSpecs, Specs, RefQualifiers
  <2>2. at(1) = EmptyArgument \/ at(1) \in SUBSET Specs
    <3>1. CASE more = << >>
      <4>1. DOMAIN << >> = {}
        OBVIOUS
      <4> QED BY Zenon, <3>1, <4>1
    <3>2. CASE more # << >>
      BY Zenon, <3>2 DEF IsOverload
    <3> QED BY <3>1, <3>2
  <2>3. CASE at(1) = EmptyArgument
    BY Zenon, <2>1, <2>3 DEF Given
  <2>4. CASE at(1) # EmptyArgument
    <3> HIDE DEF at
    <3>1. PICK x : x \in at(1)
      BY <2>4 DEF EmptyArgument
    <3>2. (CHOOSE y \in at(1) : TRUE) \in at(1)
      BY Zenon, <3>1
    <3>3. Given(at(1), NoSpecs) = CHOOSE y \in at(1) : TRUE
      BY Zenon, <2>4 DEF Given
    <3> QED BY Zenon, <2>2, <2>4, <3>2, <3>3
  <2> QED BY <2>3, <2>4
<1> HIDE DEF at
<1>5. /\ info.params = o.params
      /\ info.specs = Given(at(1), NoSpecs)
      /\ info.paramList = MakeParamList(o.params)
      /\ info.forwardList = ForwardArgsAsTuple(o.params)
  BY Zenon, <1>3 DEF MakeOverloadInfosAll
<1> QED BY Zenon, <1>4, <1>5 DEF info

\* The signatures that the macros put together.
SomeSignature(ret, params, convention) ==
    [ret : {ret}, params : {params}, const : BOOLEAN, ref : RefQualifiers,
     noexcept : BOOLEAN, convention : {convention}]

LEMMA SignatureTraits ==
    ASSUME NEW ret, NEW params, NEW convention,
           NEW sig \in SomeSignature(ret, params, convention)
    PROVE  /\ RemoveCallConvention(sig).const = sig.const
           /\ RemoveCallConvention(sig).ref = sig.ref
           /\ ParamList(NormalizeOverload(sig)) = sig.params
           /\ Qualifiers(NormalizeOverload(sig)) = Qualifiers(sig)
<1>1. /\ sig.const \in BOOLEAN /\ sig.ref \in RefQualifiers
      /\ DOMAIN sig = {"ret", "params", "const", "ref", "noexcept", "convention"}
  BY DEF SomeSignature
<1>2. /\ RemoveCallConvention(sig).const = sig.const
      /\ RemoveCallConvention(sig).ref = sig.ref
  BY DEF SomeSignature, RemoveCallConvention
<1>3. /\ ParamList(NormalizeOverload(sig)) = sig.params
  BY DEF SomeSignature, ParamList, NormalizeOverload, SignatureDecay, RemoveNoexcept,
         RemoveRefQualifier, RemoveConstQualifier, RemoveCallConvention
<1>4. /\ NormalizeOverload(sig).const = sig.const
      /\ NormalizeOverload(sig).ref = sig.ref
  BY DEF SomeSignature, NormalizeOverload, RemoveNoexcept, RemoveCallConvention
<1>5. Qualifiers(NormalizeOverload(sig)) = Qualifiers(sig)
  BY Zenon, <1>4 DEF Qualifiers
<1> QED BY <1>2, <1>3, <1>5

LEMMA MadeSignature ==
    ASSUME NEW info, info.specs \in Specs
    PROVE  LET sig == MakeSignature(info)
           IN  /\ sig \in SomeSignature(info.ret, FlattenSeq(info.params), info.convention)
               /\ sig.params = FlattenSeq(info.params)
               /\ sig.const \in BOOLEAN /\ sig.ref \in RefQualifiers
<1> DEFINE sig == MakeSignature(info)
<1>1. info.specs.const \in BOOLEAN /\ info.specs.ref \in RefQualifiers
      /\ info.specs.noexcept \in BOOLEAN
  BY DEF Specs
<1>2. sig \in SomeSignature(info.ret, FlattenSeq(info.params), info.convention)
  BY <1>1 DEF MakeSignature, SomeSignature
<1>3. /\ sig.params = FlattenSeq(info.params)
      /\ sig.const = info.specs.const /\ sig.ref = info.specs.ref
  BY Zenon DEF MakeSignature
<1> QED BY Zenon, <1>1, <1>2, <1>3

\* The expression in an override.
LEMMA OverrideCalls ==
    ASSUME NEW info, info.specs \in Specs
    PROVE  LET sig == MakeSignature(info)
               method == MakeMethodOverride(info)
           IN  /\ method.takes = info.paramList.done
               /\ method.forwards = FlattenSeq(info.forwardList.done)
               /\ method.calls.params =
                     [k \in DOMAIN method.forwards |-> method.forwards[k].type]
               /\ method.calls.const = sig.const
               /\ method.calls.rvalue = (sig.ref = "&&")
<1> DEFINE sig == MakeSignature(info)
           method == MakeMethodOverride(info)
           plain == RemoveCallConvention(sig)
           types == [k \in DOMAIN method.forwards |-> method.forwards[k].type]
<1>1. /\ sig.const \in BOOLEAN /\ sig.ref \in RefQualifiers
      /\ plain.const = sig.const /\ plain.ref = sig.ref
  BY MadeSignature, SignatureTraits
<1>2. /\ method.takes = info.paramList.done
      /\ method.forwards = FlattenSeq(info.forwardList.done)
      /\ method.calls = IndirectlyApplyMock(plain,
            [i \in DOMAIN FlattenSeq(info.forwardList.done) |->
                FlattenSeq(info.forwardList.done)[i].type])
  BY Zenon DEF MakeMethodOverride
<1>3. method.calls = IndirectlyApplyMock(plain, types)
  BY Zenon, <1>2
<1> HIDE DEF method, types, plain, sig
<1>4. /\ method.calls.params = types
      /\ method.calls.const = plain.const
      /\ method.calls.rvalue = (RefQualification(plain) = RValue)
  <2>1. PICK isRValue : isRValue = (RefQualification(plain) = RValue)
    OBVIOUS
  <2>2. method.calls = [params |-> types, const |-> plain.const, rvalue |-> isRValue]
    BY Zenon, <1>3, <2>1 DEF IndirectlyApplyMock
  <2>3. PICK calls, const : calls = method.calls /\ const = plain.const
    OBVIOUS
  <2>4. calls = [params |-> types, const |-> const, rvalue |-> isRValue]
    BY Zenon, <2>2, <2>3
  <2>5. calls.params = types
    BY Zenon, <2>4
  <2>6. calls.const = const
    BY Zenon, <2>4
  <2>7. calls.rvalue = isRValue
    BY Zenon, <2>4
  <2> QED BY Zenon, <2>1, <2>3, <2>5, <2>6, <2>7
<1>5. (RefQualification(plain) = RValue) = (plain.ref = "&&")
  <2>1. AnyCategory # RValue /\ LValue # RValue
    <3>1. "lvalue" \in AnyCategory /\ "lvalue" \in LValue /\ "lvalue" \notin RValue
      BY DEF AnyCategory, LValue, RValue
    <3> QED BY Zenon, <3>1
  <2>2. CASE plain.ref = "none"
    <3>1. RefQualification(plain) = AnyCategory
      BY Zenon, <2>2 DEF RefQualification
    <3>2. plain.ref # "&&"
      BY <2>2
    <3> QED BY Zenon, <2>1, <3>1, <3>2
  <2>3. CASE plain.ref = "&"
    <3>0. plain.ref # "none" /\ plain.ref # "&&"
      BY <2>3
    <3>1. RefQualification(plain) = LValue
      BY Zenon, <2>3, <3>0 DEF RefQualification
    <3> QED BY Zenon, <2>1, <3>0, <3>1
  <2>4. CASE plain.ref = "&&"
    <3>0. plain.ref # "none" /\ plain.ref # "&"
      BY <2>4
    <3>1. RefQualification(plain) = RValue
      BY Zenon, <3>0 DEF RefQualification
    <3> QED BY Zenon, <2>4, <3>1
  <2> QED BY <1>1, <2>2, <2>3, <2>4 DEF RefQualifiers
<1> QED BY Zenon, <1>1, <1>2, <1>4, <1>5 DEF method, types, plain, sig

\* The lists of a parameter list are lists of types.
LEMMA ParameterLists ==
    ASSUME NEW o, IsOverload(o)
    PROVE  LET T == UNION {Range(p) : p \in Range(o.params)}
           IN  o.params \in Seq(Seq(T))
<1> DEFINE T == UNION {Range(p) : p \in Range(o.params)}
<1>1. o.params \in Seq(Range(o.params)) /\ \A p \in Range(o.params) : p \in Seq(Range(p))
  BY DEF IsOverload
<1>2. Len(o.params) \in Nat /\ o.params \in [1 .. Len(o.params) -> Range(o.params)]
  BY <1>1
<1>3. ASSUME NEW p \in Range(o.params)  PROVE p \in Seq(T)
  <2>1. p \in Seq(Range(p)) /\ Range(p) \subseteq T
    BY <1>1
  <2> HIDE DEF T
  <2>2. \A R, S : R \subseteq S => \A q \in Seq(R) : q \in Seq(S)
    <3> SUFFICES ASSUME NEW R, NEW S, R \subseteq S, NEW q \in Seq(R)  PROVE q \in Seq(S)
      OBVIOUS
    <3>1. Len(q) \in Nat /\ q \in [1 .. Len(q) -> R]
      OBVIOUS
    <3>2. q \in [1 .. Len(q) -> S]
      BY <3>1
    <3> QED BY <3>1, <3>2
  <2> QED BY Zenon, <2>1, <2>2
<1> HIDE DEF T
<1>4. o.params \in [1 .. Len(o.params) -> Seq(T)]
  BY <1>2, <1>3
<1>5. o.params \in Seq(Seq(T))
  BY <1>2, <1>4
<1> QED BY <1>5 DEF T

\* Names of different lengths are different.
LEMMA NamesDiffer ==
    ASSUME NEW n \in Nat, NEW names, DOMAIN names = 1 .. n,
           \A k \in 1 .. n : Len(names[k]) = k
    PROVE  Cardinality(Range(names)) = n
<1>1. IsFiniteSet(1 .. n) /\ Cardinality(1 .. n) = n
  BY FS_Interval
<1> DEFINE f == [k \in 1 .. n |-> names[k]]
<1>2. f \in Bijection(1 .. n, Range(names))
  <2>1. f \in [1 .. n -> Range(names)]
    BY DEF Range
  <2>2. \A i, k \in 1 .. n : f[i] = f[k] => i = k
    OBVIOUS
  <2>3. \A x \in Range(names) : \E k \in 1 .. n : f[k] = x
    BY DEF Range
  <2> HIDE DEF f
  <2>4. IsInjective(f)
    BY <2>1, <2>2 DEF IsInjective
  <2> QED BY Zenon, <2>1, <2>3, <2>4 DEF Bijection, Injection, Surjection
<1>3. ExistsBijection(1 .. n, Range(names))
  BY <1>2 DEF ExistsBijection
<1> QED BY <1>1, <1>3, FS_Bijection

\* An override takes as many parameters as the overload, under different
\* names, and forwards them all in order.
LEMMA OverrideForwards ==
    ASSUME NEW o, IsOverload(o), Len(o.params) <= 86,
           NEW info, info.params = o.params, info.paramList = MakeParamList(o.params),
           info.forwardList = ForwardArgsAsTuple(o.params)
    PROVE  LET method == MakeMethodOverride(info)
               names == [k \in DOMAIN info.paramList.done |-> info.paramList.done[k].sequence]
               forwards == FlattenSeq(info.forwardList.done)
           IN  /\ Cardinality(Range(names)) = Len(o.params)
               /\ [k \in DOMAIN forwards |-> forwards[k].type] = FlattenSeq(o.params)
               /\ \A a \in Range(forwards) : a.name \in Range(names)
<1> DEFINE N == Len(o.params)
           T == UNION {Range(p) : p \in Range(o.params)}
           each == ForEachExt("i", o.params)
           names == [k \in DOMAIN each.done |-> each.done[k].sequence]
           F == [name : Range(names), at : Nat, type : T]
           xs == [i \in DOMAIN each.done |-> ForwardArgAsTuple(each.done[i])]
<1>1. o.params \in Seq(Range(o.params)) /\ o.params \in Seq(Seq(T)) /\ N \in Nat
  <2>1. o.params \in Seq(Seq(T))
    BY ParameterLists
  <2>2. N \in Nat
    BY <2>1
  <2> QED BY <2>1, <2>2 DEF IsOverload
<1>2. /\ Len(each.done) = N /\ DOMAIN each.done = 1 .. N
      /\ \A k \in 1 .. N : Len(each.done[k].sequence) = k /\ each.done[k].arg = o.params[k]
      /\ each \in Loop("i", o.params)
  BY <1>1, Looping
<1>3. info.paramList.done = each.done
  BY Zenon DEF MakeParamList
<1>4. info.forwardList.done = xs
  <2>1. info.forwardList = [each EXCEPT !.done = xs]
    BY Zenon DEF ForwardArgsAsTuple
  <2> HIDE DEF each, xs
  <2> QED BY <1>2, <2>1 DEF Loop
<1> HIDE DEF each
<1>5. /\ DOMAIN names = 1 .. N
      /\ \A k \in 1 .. N : names[k] = each.done[k].sequence /\ Len(names[k]) = k
  BY Zenon, <1>2
<1> HIDE DEF names
<1>6. Cardinality(Range(names)) = N
  BY <1>1, <1>5, NamesDiffer
<1>7. ASSUME NEW n \in 1 .. N
      PROVE  Forwards(xs[n], o.params[n], F, T, Range(names))
  <2> DEFINE el == each.done[n]
             x == xs[n]
             y == o.params[n]
  <2>1. x = ForwardArgAsTuple(el) /\ el.arg = y /\ el.sequence = names[n]
    BY Zenon, <1>2, <1>5
  <2>2. x = [i \in DOMAIN y |-> [name |-> names[n], at |-> i, type |-> y[i]]]
    BY Zenon, <2>1 DEF ForwardArgAsTuple
  <2>3. names[n] \in Range(names)
    BY <1>5 DEF Range
  <2>4. y \in Seq(T)
    BY <1>1
  <2> HIDE DEF x, y, T
  <2>5. Len(y) \in Nat /\ DOMAIN y = 1 .. Len(y) /\ \A i \in 1 .. Len(y) : y[i] \in T
    BY <2>4
  <2>6. ASSUME NEW i \in 1 .. Len(y)
        PROVE  x[i] \in F /\ x[i].type = y[i] /\ x[i].name = names[n]
    <3>1. x[i] = [name |-> names[n], at |-> i, type |-> y[i]]
      BY Zenon, <2>2, <2>5
    <3> QED BY <2>3, <2>5, <3>1
  <2>7. DOMAIN x = 1 .. Len(y)
    BY Zenon, <2>2, <2>5
  <2>8. x = [i \in 1 .. Len(y) |-> x[i]]
    BY Zenon, <2>2, <2>5
  <2> HIDE DEF F
  <2>9. x \in [1 .. Len(y) -> F]
    BY Zenon, <2>6, <2>8
  <2>10. x \in Seq(F) /\ Len(x) = Len(y)
    BY <2>5, <2>9
  <2> QED BY Zenon, <2>3, <2>4, <2>6, <2>10 DEF Forwards, x, y
<1>8. xs \in Seq(Seq(F)) /\ Len(xs) = N
  <2> HIDE DEF F
  <2>1. \A n \in 1 .. N : xs[n] \in Seq(F)
    BY Zenon, <1>7 DEF Forwards
  <2>2. DOMAIN xs = 1 .. N /\ xs = [n \in 1 .. N |-> xs[n]]
    BY Zenon, <1>2
  <2> HIDE DEF xs
  <2>3. xs \in [1 .. N -> Seq(F)]
    BY Zenon, <2>1, <2>2
  <2>4. \A n \in Nat : \A A : \A q \in [1 .. n -> A] : q \in Seq(A) /\ Len(q) = n
    OBVIOUS
  <2> QED BY Zenon, <1>1, <2>3, <2>4
<1>9. Forwards(FlattenSeq(xs), FlattenSeq(o.params), F, T, Range(names))
  <2> HIDE DEF F, T, xs
  <2> QED BY <1>1, <1>7, <1>8, ForwardsAllTogether
<1> DEFINE forwards == FlattenSeq(xs)
           types == FlattenSeq(o.params)
<1>10. /\ forwards \in Seq(F) /\ types \in Seq(T) /\ Len(forwards) = Len(types)
       /\ \A k \in 1 .. Len(forwards) : forwards[k].type = types[k]
                                        /\ forwards[k].name \in Range(names)
  BY Zenon, <1>9 DEF Forwards
<1> HIDE DEF forwards, types, F, T, xs
<1>11. /\ DOMAIN forwards = 1 .. Len(forwards) /\ DOMAIN types = 1 .. Len(forwards)
       /\ types = [k \in DOMAIN types |-> types[k]]
  BY <1>10
<1>12. [k \in DOMAIN forwards |-> forwards[k].type] = types
  BY Zenon, <1>10, <1>11
<1>13. \A a \in Range(forwards) : a.name \in Range(names)
  BY Zenon, <1>10, <1>11 DEF Range
<1> QED BY Zenon, <1>3, <1>4, <1>6, <1>12, <1>13 DEF names, forwards, types

\* The infos of a list of overloads, and what makes each of them good.
InfosOf(overloads) ==
    [i \in DOMAIN overloads |->
        AddOverload(overloads[i].ret, overloads[i].params, overloads[i].more)]

Reaches(mock, infos, i) ==
    LET method == mock.methods[i]
        names == [k \in DOMAIN method.takes |-> method.takes[k].sequence]
    IN  /\ Cardinality(Range(names)) = Len(infos[i].params)
        /\ [k \in DOMAIN method.forwards |-> method.forwards[k].type]
              = FlattenSeq(infos[i].params)
        /\ \A a \in Range(method.forwards) : a.name \in Range(names)
        /\ BindsTo(mock.signatures[i], method.calls)
        /\ \A j \in DOMAIN infos \ {i} :
              BindsTo(mock.signatures[j], method.calls) =>
                  IsPreferredTo(mock.signatures[i], mock.signatures[j])

LEMMA InfosAreGood ==
    ASSUME NEW overloads, overloads \in Seq(Range(overloads)),
           \A o \in Range(overloads) : IsOverload(o)
    PROVE  LET infos == InfosOf(overloads)
           IN  /\ Len(overloads) \in Nat
               /\ DOMAIN infos = 1 .. Len(overloads) /\ Len(infos) = Len(overloads)
               /\ infos \in Seq(Range(infos))
               /\ \A i \in DOMAIN infos :
                     /\ IsOverload(overloads[i])
                     /\ infos[i].params = overloads[i].params
                     /\ infos[i].specs \in Specs
                     /\ infos[i].paramList = MakeParamList(infos[i].params)
                     /\ infos[i].forwardList = ForwardArgsAsTuple(infos[i].params)
<1> DEFINE N == Len(overloads)
           infos == InfosOf(overloads)
<1>1. N \in Nat /\ DOMAIN overloads = 1 .. N
  OBVIOUS
<1>2. /\ DOMAIN infos = 1 .. N /\ infos = [i \in 1 .. N |-> infos[i]]
      /\ \A i \in 1 .. N :
            infos[i] = AddOverload(overloads[i].ret, overloads[i].params, overloads[i].more)
  BY Zenon, <1>1 DEF InfosOf
<1> HIDE DEF infos
<1>3. infos \in Seq(Range(infos)) /\ Len(infos) = N
  <2>1. infos \in [1 .. N -> Range(infos)]
    BY <1>2 DEF Range
  <2>2. \A n \in Nat : \A A : \A q \in [1 .. n -> A] : q \in Seq(A) /\ Len(q) = n
    OBVIOUS
  <2> QED BY Zenon, <1>1, <2>1, <2>2
<1>4. ASSUME NEW i \in 1 .. N
      PROVE  /\ IsOverload(overloads[i])
             /\ infos[i].params = overloads[i].params
             /\ infos[i].specs \in Specs
             /\ infos[i].paramList = MakeParamList(infos[i].params)
             /\ infos[i].forwardList = ForwardArgsAsTuple(infos[i].params)
  <2> DEFINE o == overloads[i]
             info == AddOverload(o.ret, o.params, o.more)
  <2>1. IsOverload(o)
    <3>1. o \in Range(overloads)
      BY <1>1 DEF Range
    <3> QED BY <3>1
  <2>2. infos[i] = info
    BY Zenon, <1>2
  <2>3. /\ info.params = o.params
        /\ info.specs \in Specs
        /\ info.paramList = MakeParamList(o.params)
        /\ info.forwardList = ForwardArgsAsTuple(o.params)
    <3> HIDE DEF o
    <3> QED BY <2>1, OverloadInfos
  <2> HIDE DEF info
  <2> QED BY Zenon, <2>1, <2>2, <2>3
<1> QED BY Zenon, <1>1, <1>2, <1>3, <1>4 DEF infos

\* What the loops of the parameters leave.
LEMMA RestOfParameters ==
    ASSUME NEW o, IsOverload(o),
           NEW info, info.params = o.params, info.paramList = MakeParamList(o.params),
           info.forwardList = ForwardArgsAsTuple(o.params)
    PROVE  /\ info.paramList.rest = << >> <=> Len(o.params) <= 86
           /\ info.forwardList.rest = << >> <=> Len(o.params) <= 86
<1> DEFINE each == ForEachExt("i", o.params)
<1>1. (each.rest = << >> <=> Len(o.params) <= 86) /\ each \in Loop("i", o.params)
  BY Looping DEF IsOverload
<1>2. info.paramList = each
  BY Zenon DEF MakeParamList
<1>3. info.forwardList.rest = each.rest
  <2>1. PICK xs : info.forwardList = [each EXCEPT !.done = xs]
    BY Zenon DEF ForwardArgsAsTuple
  <2> HIDE DEF each
  <2> QED BY <1>1, <2>1 DEF Loop
<1> QED BY Zenon, <1>1, <1>2, <1>3

\* The mock that the macros make, if they get to the end of their loops.
LEMMA MockMade ==
    ASSUME NEW infos, infos \in Seq(Range(infos)), \A i \in DOMAIN infos : infos[i].specs \in Specs
    PROVE  LET mock == MockOverloadedMethod(infos)
               made == [i \in DOMAIN infos |-> MakeSignature(infos[i])]
           IN  /\ mock.compiles <=>
                     /\ Len(infos) <= 86
                     /\ \A i \in DOMAIN infos : /\ infos[i].paramList.rest = << >>
                                                /\ infos[i].forwardList.rest = << >>
                     /\ IsOverloadSet(made)
               /\ Len(infos) <= 86 =>
                     /\ mock.signatures = made
                     /\ mock.methods = [i \in DOMAIN infos |-> MakeMethodOverride(infos[i])]
<1>0. PICK token : token = ""
  BY Zenon
<1> DEFINE each == ForEachExt(token, infos)
           list == MakeSignatureList(infos)
           made == [i \in DOMAIN infos |-> MakeSignature(infos[i])]
           mock == MockOverloadedMethod(infos)
           good == \A i \in DOMAIN infos : /\ infos[i].paramList.rest = << >>
                                           /\ infos[i].forwardList.rest = << >>
<1>1. /\ each.rest = << >> <=> Len(infos) <= 86
      /\ Len(infos) <= 86 =>
           /\ DOMAIN each.done = 1 .. Len(infos)
           /\ \A k \in 1 .. Len(infos) : each.done[k].arg = infos[k]
      /\ each \in Loop(token, infos)
  BY Looping
<1>2. DOMAIN infos = 1 .. Len(infos)
  OBVIOUS
<1>3. /\ list.rest = each.rest
      /\ list.done = [i \in DOMAIN each.done |-> MakeSignature(each.done[i].arg)]
  <2>1. PICK sigs : /\ list = [each EXCEPT !.done = sigs]
                    /\ sigs = [i \in DOMAIN each.done |-> MakeSignature(each.done[i].arg)]
    BY Zenon, <1>0 DEF MakeSignatureList
  <2>2. list.rest = each.rest /\ list.done = sigs
    <3> HIDE DEF each, list
    <3> QED BY <1>1, <2>1 DEF Loop
  <2> QED BY Zenon, <2>1, <2>2
<1> HIDE DEF each, list
<1>4. /\ mock.methods = [i \in DOMAIN each.done |-> MakeMethodOverride(each.done[i].arg)]
      /\ mock.signatures = list.done
      /\ mock.compiles = /\ each.rest = << >>
                         /\ list.rest = << >>
                         /\ good
                         /\ IsOverloadSet(list.done)
  BY Zenon, <1>0 DEF MockOverloadedMethod, each, list
<1> HIDE DEF mock, made
<1>5. ASSUME Len(infos) <= 86
      PROVE  /\ list.done = made
             /\ mock.methods = [i \in DOMAIN infos |-> MakeMethodOverride(infos[i])]
  <2>1. DOMAIN each.done = DOMAIN infos /\ \A i \in DOMAIN infos : each.done[i].arg = infos[i]
    BY Zenon, <1>1, <1>2, <1>5
  <2>2. list.done = made
    BY Zenon, <1>3, <2>1 DEF made
  <2>3. mock.methods = [i \in DOMAIN infos |-> MakeMethodOverride(infos[i])]
    BY Zenon, <1>4, <2>1
  <2> QED BY <2>2, <2>3
<1>6. mock.compiles <=> Len(infos) <= 86 /\ good /\ IsOverloadSet(made)
  <2> HIDE DEF good
  <2>1. CASE Len(infos) <= 86
    BY Zenon, <1>1, <1>3, <1>4, <1>5, <2>1
  <2>2. CASE ~ (Len(infos) <= 86)
    BY Zenon, <1>1, <1>4, <2>2
  <2> QED BY <2>1, <2>2
<1> QED BY Zenon, <1>4, <1>5, <1>6 DEF mock, made

\* The info that ADD_OVERLOAD makes of an overload.
IsInfoOf(info, o) ==
    /\ info.params = o.params /\ info.specs \in Specs
    /\ info.paramList = MakeParamList(o.params)
    /\ info.forwardList = ForwardArgsAsTuple(o.params)

\* What a method is for, the overloads apart.
ForwardsItsOwn(method, info) ==
    LET names == [k \in DOMAIN method.takes |-> method.takes[k].sequence]
    IN  /\ Cardinality(Range(names)) = Len(info.params)
        /\ [k \in DOMAIN method.forwards |-> method.forwards[k].type]
              = FlattenSeq(info.params)
        /\ \A a \in Range(method.forwards) : a.name \in Range(names)

CallsItsOwn(method, sig) ==
    /\ sig.const \in BOOLEAN /\ sig.ref \in RefQualifiers
    /\ method.calls.params = sig.params /\ method.calls.const = sig.const
    /\ method.calls.rvalue = (sig.ref = "&&")

LEMMA OverridesTheirOwn ==
    ASSUME NEW o, IsOverload(o), Len(o.params) <= 86, NEW info, IsInfoOf(info, o)
    PROVE  /\ ForwardsItsOwn(MakeMethodOverride(info), info)
           /\ CallsItsOwn(MakeMethodOverride(info), MakeSignature(info))
<1> DEFINE method == MakeMethodOverride(info)
           sig == MakeSignature(info)
           names == [k \in DOMAIN info.paramList.done |-> info.paramList.done[k].sequence]
           forwards == FlattenSeq(info.forwardList.done)
<1>1. /\ info.params = o.params /\ info.specs \in Specs
      /\ info.paramList = MakeParamList(o.params)
      /\ info.forwardList = ForwardArgsAsTuple(o.params)
  BY Zenon DEF IsInfoOf
<1>2. /\ Cardinality(Range(names)) = Len(o.params)
      /\ [k \in DOMAIN forwards |-> forwards[k].type] = FlattenSeq(o.params)
      /\ \A a \in Range(forwards) : a.name \in Range(names)
  BY <1>1, OverrideForwards
<1>3. /\ method.takes = info.paramList.done
      /\ method.forwards = forwards
      /\ method.calls.params = [k \in DOMAIN method.forwards |-> method.forwards[k].type]
      /\ method.calls.const = sig.const
      /\ method.calls.rvalue = (sig.ref = "&&")
  BY <1>1, OverrideCalls
<1>4. /\ sig.params = FlattenSeq(info.params)
      /\ sig.const \in BOOLEAN /\ sig.ref \in RefQualifiers
  BY <1>1, MadeSignature
<1> HIDE DEF method, sig
<1>5. [k \in DOMAIN method.takes |-> method.takes[k].sequence] = names
  BY Zenon, <1>3
<1> HIDE DEF names, forwards
<1>6. ForwardsItsOwn(method, info)
  BY Zenon, <1>1, <1>2, <1>3, <1>5 DEF ForwardsItsOwn
<1>7. method.calls.params = sig.params
  BY Zenon, <1>1, <1>2, <1>3, <1>4
<1>8. CallsItsOwn(method, sig)
  BY Zenon, <1>3, <1>4, <1>7 DEF CallsItsOwn
<1> QED BY Zenon, <1>6, <1>8 DEF method, sig

\* Two overloads of one set, of which one is called as its own override
\* calls it.
LEMMA OwnOverloadIsPreferred ==
    ASSUME NEW infoA, infoA.specs \in Specs, NEW infoB, infoB.specs \in Specs,
           \/ IsOverloadableWith(MakeSignature(infoA), MakeSignature(infoB))
           \/ IsOverloadableWith(MakeSignature(infoB), MakeSignature(infoA)),
           NEW method, CallsItsOwn(method, MakeSignature(infoA))
    PROVE  LET a == MakeSignature(infoA)
               b == MakeSignature(infoB)
           IN  /\ BindsTo(a, method.calls)
               /\ BindsTo(b, method.calls) => IsPreferredTo(a, b)
<1>1. PICK a, b : a = MakeSignature(infoA) /\ b = MakeSignature(infoB)
  BY Zenon
<1>2. PICK calls : calls = method.calls
  BY Zenon
<1>3. /\ a \in SomeSignature(infoA.ret, FlattenSeq(infoA.params), infoA.convention)
      /\ b \in SomeSignature(infoB.ret, FlattenSeq(infoB.params), infoB.convention)
      /\ b.const \in BOOLEAN /\ b.ref \in RefQualifiers
  BY <1>1, MadeSignature
<1>4. /\ ParamList(NormalizeOverload(a)) = a.params
      /\ ParamList(NormalizeOverload(b)) = b.params
      /\ Qualifiers(NormalizeOverload(a)) = Qualifiers(a)
      /\ Qualifiers(NormalizeOverload(b)) = Qualifiers(b)
  BY <1>3, SignatureTraits
<1>5. /\ a.const \in BOOLEAN /\ a.ref \in RefQualifiers
      /\ calls.params = a.params /\ calls.const = a.const
      /\ calls.rvalue = (a.ref = "&&")
  BY Zenon, <1>1, <1>2 DEF CallsItsOwn
<1>6. \/ a.params # b.params
      \/ <<Qualifiers(a), Qualifiers(b)>> \in OverloadablePairs
      \/ <<Qualifiers(b), Qualifiers(a)>> \in OverloadablePairs
  <2>1. IsOverloadableWith(a, b) \/ IsOverloadableWith(b, a)
    BY Zenon, <1>1
  <2> QED BY Zenon, <2>1, <1>4 DEF IsOverloadableWith
<1>7. BindsTo(a, calls)
  BY <1>5 DEF BindsTo, RefQualifiers
<1>8. ASSUME BindsTo(b, calls)
      PROVE  IsPreferredTo(a, b)
  <2>1. a.params = b.params
    BY Zenon, <1>5, <1>8 DEF BindsTo
  <2> QED BY <1>3, <1>5, <1>6, <1>8, <2>1, OwnIsPreferred
<1> QED BY Zenon, <1>1, <1>2, <1>7, <1>8

\* The overloads of a set, of which one is called as its own override calls
\* it.
LEMMA OverloadsReached ==
    ASSUME NEW infos, \A i \in DOMAIN infos : infos[i].specs \in Specs,
           DOMAIN infos \subseteq Nat,
           NEW made, made = [i \in DOMAIN infos |-> MakeSignature(infos[i])],
           IsOverloadSet(made),
           NEW i \in DOMAIN infos,
           NEW method, CallsItsOwn(method, MakeSignature(infos[i]))
    PROVE  /\ BindsTo(made[i], method.calls)
           /\ \A j \in DOMAIN infos \ {i} :
                 BindsTo(made[j], method.calls) => IsPreferredTo(made[i], made[j])
<1>1. BindsTo(MakeSignature(infos[i]), method.calls)
  <2>1. PICK sig : sig = MakeSignature(infos[i])
    BY Zenon
  <2>2. PICK calls : calls = method.calls
    BY Zenon
  <2>3. /\ sig.const \in BOOLEAN /\ sig.ref \in RefQualifiers
        /\ calls.params = sig.params /\ calls.const = sig.const
        /\ calls.rvalue = (sig.ref = "&&")
    BY Zenon, <2>1, <2>2 DEF CallsItsOwn
  <2>4. BindsTo(sig, calls)
    BY <2>3 DEF BindsTo, RefQualifiers
  <2> QED BY Zenon, <2>1, <2>2, <2>4
<1>2. ASSUME NEW j \in DOMAIN infos \ {i}
      PROVE  BindsTo(MakeSignature(infos[j]), method.calls) =>
                 IsPreferredTo(MakeSignature(infos[i]), MakeSignature(infos[j]))
  <2>1. \/ IsOverloadableWith(MakeSignature(infos[i]), MakeSignature(infos[j]))
        \/ IsOverloadableWith(MakeSignature(infos[j]), MakeSignature(infos[i]))
    <3>1. i < j \/ j < i
      OBVIOUS
    <3> QED BY Zenon, <3>1 DEF IsOverloadSet
  <2>2. infos[i].specs \in Specs /\ infos[j].specs \in Specs
    BY Zenon
  <2> QED BY <2>1, <2>2, OwnOverloadIsPreferred
<1> QED BY Zenon, <1>1, <1>2

\* What OverridesReachTheirOverload says of a list of overloads.
MocksItsOverloads(overloads) ==
    LET infos == InfosOf(overloads)
        mock == MockOverloadedMethod(infos)
    IN  /\ (/\ Len(infos) <= 86 /\ \A i \in DOMAIN infos : Len(infos[i].params) <= 86
            /\ IsOverloadSet([i \in DOMAIN infos |-> MakeSignature(infos[i])]))
              <=> mock.compiles
        /\ mock.compiles =>
             /\ Len(mock.methods) = Len(infos) /\ Len(mock.signatures) = Len(infos)
             /\ \A i \in DOMAIN infos : Reaches(mock, infos, i)

LEMMA OverloadsAreMocked ==
    ASSUME NEW overloads, overloads \in Seq(Range(overloads)),
           \A o \in Range(overloads) : IsOverload(o)
    PROVE  MocksItsOverloads(overloads)
<1>1. PICK infos : infos = InfosOf(overloads)
  BY Zenon
<1>2. PICK mock : mock = MockOverloadedMethod(infos)
  BY Zenon
<1>3. PICK made : made = [i \in DOMAIN infos |-> MakeSignature(infos[i])]
  BY Zenon
<1>4. PICK N : N = Len(infos)
  BY Zenon
<1>5. /\ N \in Nat /\ DOMAIN infos = 1 .. N
      /\ infos \in Seq(Range(infos))
      /\ \A i \in DOMAIN infos : IsOverload(overloads[i]) /\ IsInfoOf(infos[i], overloads[i])
  <2>1. /\ Len(overloads) \in Nat
        /\ DOMAIN infos = 1 .. Len(overloads) /\ Len(infos) = Len(overloads)
        /\ infos \in Seq(Range(infos))
        /\ \A i \in DOMAIN infos :
              /\ IsOverload(overloads[i])
              /\ infos[i].params = overloads[i].params
              /\ infos[i].specs \in Specs
              /\ infos[i].paramList = MakeParamList(infos[i].params)
              /\ infos[i].forwardList = ForwardArgsAsTuple(infos[i].params)
    BY <1>1, InfosAreGood
  <2>2. \A i \in DOMAIN infos : IsOverload(overloads[i]) /\ IsInfoOf(infos[i], overloads[i])
    BY Zenon, <2>1 DEF IsInfoOf
  <2> QED BY Zenon, <1>4, <2>1, <2>2
<1>6. \A i \in DOMAIN infos : infos[i].specs \in Specs
  BY Zenon, <1>5 DEF IsInfoOf
<1>7. /\ mock.compiles <=>
           /\ N <= 86
           /\ \A i \in DOMAIN infos : /\ infos[i].paramList.rest = << >>
                                      /\ infos[i].forwardList.rest = << >>
           /\ IsOverloadSet(made)
      /\ N <= 86 =>
           /\ mock.signatures = made
           /\ mock.methods = [i \in DOMAIN infos |-> MakeMethodOverride(infos[i])]
  BY <1>2, <1>3, <1>4, <1>5, <1>6, MockMade
<1>8. ASSUME NEW i \in DOMAIN infos
      PROVE  /\ infos[i].params = overloads[i].params
             /\ infos[i].paramList.rest = << >> /\ infos[i].forwardList.rest = << >>
                  <=> Len(infos[i].params) <= 86
  <2>1. PICK o, info : o = overloads[i] /\ info = infos[i]
    BY Zenon
  <2>2. /\ IsOverload(o) /\ info.params = o.params
        /\ info.paramList = MakeParamList(o.params)
        /\ info.forwardList = ForwardArgsAsTuple(o.params)
    BY Zenon, <1>5, <2>1 DEF IsInfoOf
  <2>3. /\ info.paramList.rest = << >> <=> Len(o.params) <= 86
        /\ info.forwardList.rest = << >> <=> Len(o.params) <= 86
    BY <2>2, RestOfParameters
  <2> QED BY Zenon, <2>1, <2>2, <2>3
<1>9. mock.compiles <=>
         /\ N <= 86 /\ \A i \in DOMAIN infos : Len(infos[i].params) <= 86
         /\ IsOverloadSet(made)
  BY Zenon, <1>7, <1>8
<1>10. ASSUME mock.compiles
       PROVE  /\ Len(mock.methods) = N /\ Len(mock.signatures) = N
              /\ \A i \in DOMAIN infos : Reaches(mock, infos, i)
  <2>1. /\ mock.signatures = made
        /\ mock.methods = [i \in DOMAIN infos |-> MakeMethodOverride(infos[i])]
        /\ IsOverloadSet(made)
        /\ \A i \in DOMAIN infos : Len(infos[i].params) <= 86
    BY Zenon, <1>7, <1>9, <1>10
  <2>2. PICK methods : methods = [i \in 1 .. N |-> MakeMethodOverride(infos[i])]
    BY Zenon
  <2>3. Len(methods) = N
    BY <1>5, <2>2
  <2>4. Len(made) = N
    <3>1. PICK sigs : sigs = [i \in 1 .. N |-> MakeSignature(infos[i])]
      BY Zenon
    <3>2. Len(sigs) = N
      BY <1>5, <3>1
    <3> QED BY Zenon, <1>3, <1>5, <3>1, <3>2
  <2>5. ASSUME NEW i \in DOMAIN infos
        PROVE  Reaches(mock, infos, i)
    <3>1. PICK method : method = MakeMethodOverride(infos[i])
      BY Zenon
    <3>2. method = mock.methods[i]
      BY Zenon, <2>1, <3>1
    <3>3. ForwardsItsOwn(method, infos[i]) /\ CallsItsOwn(method, MakeSignature(infos[i]))
      <4>1. PICK o, info : o = overloads[i] /\ info = infos[i]
        BY Zenon
      <4>2. IsOverload(o) /\ IsInfoOf(info, o) /\ Len(o.params) <= 86
        BY Zenon, <1>5, <1>8, <2>1, <4>1
      <4>3. /\ ForwardsItsOwn(MakeMethodOverride(info), info)
            /\ CallsItsOwn(MakeMethodOverride(info), MakeSignature(info))
        BY <4>2, OverridesTheirOwn
      <4> QED BY Zenon, <3>1, <4>1, <4>3
    <3>4. /\ BindsTo(made[i], method.calls)
          /\ \A j \in DOMAIN infos \ {i} :
                BindsTo(made[j], method.calls) => IsPreferredTo(made[i], made[j])
      <4>1. DOMAIN infos \subseteq Nat
        BY <1>5
      <4> QED BY <1>3, <1>6, <2>1, <3>3, <4>1, OverloadsReached
    <3> QED BY Zenon, <2>1, <3>2, <3>3, <3>4 DEF Reaches, ForwardsItsOwn
  <2> QED BY Zenon, <1>5, <2>1, <2>2, <2>3, <2>4, <2>5
<1> QED BY Zenon, <1>1, <1>2, <1>3, <1>4, <1>9, <1>10 DEF MocksItsOverloads

\* The macros accept up to 86 overloads of up to 86 parameters, and no
\* more; what they make of them has a method for each overload that names
\* its parameters apart, forwards all of them and reaches its own signature.
THEOREM OverridesReachOverloads == Spec => []OverridesReachTheirOverload
<1>1. SampleInput => OverridesReachTheirOverload
  <2> SUFFICES ASSUME SampleInput, Is("macro")  PROVE OverridesReachTheirOverload
    BY Zenon DEF OverridesReachTheirOverload
  <2>1. PICK overloads : overloads = sample.overloads
    BY Zenon
  <2>2. overloads \in Seq(Range(overloads)) /\ \A o \in Range(overloads) : IsOverload(o)
    BY Zenon, <2>1 DEF SampleInput, AreOverloads
  <2>3. MocksItsOverloads(overloads)
    BY <2>2, OverloadsAreMocked
  <2>4. MocksItsOverloads(sample.overloads)
    BY Zenon, <2>1, <2>3
  <2> QED BY Zenon, <2>4
          DEF OverridesReachTheirOverload, MocksItsOverloads, Reaches, InfosOf
<1> QED BY <1>1, SamplesAreInputs, PTL


-----------------------------------------------------------------------------
(* Texts: the pieces that are no layout, and the braces *)

\* The lists joined so far are lists.
LEMMA FlatIsList ==
    ASSUME NEW S, NEW seqs \in Seq(Seq(S)), NEW flat,
           flat[1] = seqs[1],
           \A n \in 2 .. Len(seqs) : flat[n] = flat[n - 1] \o seqs[n]
    PROVE  \A n \in 1 .. Len(seqs) : flat[n] \in Seq(S)
<1> DEFINE Bad == {n \in 1 .. Len(seqs) : flat[n] \notin Seq(S)}
<1>1. Bad = {}
  <2> SUFFICES ASSUME Bad # {}  PROVE FALSE
    OBVIOUS
  <2>1. Bad \in SUBSET Nat
    OBVIOUS
  <2>2. PICK n \in Bad : \A m \in Bad : n <= m
    BY <2>1, SmallestExists
  <2>3. n \in 1 .. Len(seqs) /\ seqs[n] \in Seq(S) /\ flat[n] \notin Seq(S)
    OBVIOUS
  <2>4. CASE n = 1
    BY Zenon, <2>3, <2>4
  <2>5. CASE n # 1
    <3>1. n - 1 \in 1 .. Len(seqs) /\ n \in 2 .. Len(seqs) /\ ~ (n <= n - 1)
      BY <2>3, <2>5
    <3>2. flat[n - 1] \in Seq(S)
      BY <2>2, <3>1
    <3>3. flat[n - 1] \o seqs[n] \in Seq(S)
      BY <2>3, <3>2, ConcatProperties
    <3>4. flat[n] = flat[n - 1] \o seqs[n]
      BY <3>1
    <3> QED BY Zenon, <2>3, <3>3, <3>4
  <2> QED BY <2>4, <2>5
<1> QED BY <1>1

LEMMA FlattenedIsList ==
    ASSUME NEW S, NEW seqs \in Seq(Seq(S))
    PROVE  FlattenSeq(seqs) \in Seq(S)
<1>1. CASE Len(seqs) = 0
  <2>1. seqs = << >> /\ << >> \in Seq(S)
    BY <1>1, EmptySeq
  <2>2. FlattenSeq(seqs) = seqs
    BY Zenon, <1>1 DEF FlattenSeq
  <2> QED BY Zenon, <2>1, <2>2
<1>2. CASE Len(seqs) # 0
  <2>1. Len(seqs) \in Nat \ {0} /\ Len(seqs) \in 1 .. Len(seqs)
    BY <1>2
  <2>2. PICK flat :
              /\ flat[1] = seqs[1]
              /\ \A n \in 2 .. Len(seqs) : flat[n] = flat[n - 1] \o seqs[n]
              /\ FlattenSeq(seqs) = flat[Len(seqs)]
    BY <2>1, Flattening
  <2>3. \A n \in 1 .. Len(seqs) : flat[n] \in Seq(S)
    BY <2>2, FlatIsList
  <2> QED BY Zenon, <2>1, <2>2, <2>3
<1> QED BY <1>1, <1>2

Associate(a, b, c) == (a \o b) \o c = a \o (b \o c)

LEMMA ListsAssociate == \A S : \A a, b, c \in Seq(S) : Associate(a, b, c)
BY ConcatAssociative DEF Associate

\* Joining lists of lists, or what each of them joins to.
LEMMA FlattenJoins ==
    ASSUME NEW S, NEW x \in Seq(Seq(S)), NEW y \in Seq(Seq(S))
    PROVE  FlattenSeq(x \o y) = FlattenSeq(x) \o FlattenSeq(y)
<1> DEFINE xy == x \o y
           i == Len(x)
           j == Len(y)
<1>1. /\ i \in Nat /\ j \in Nat
      /\ xy \in Seq(Seq(S)) /\ Len(xy) = i + j
      /\ \A n \in 1 .. i + j : xy[n] = IF n <= i THEN x[n] ELSE y[n - i]
  BY ConcatProperties, LenProperties
<1>2. FlattenSeq(x) \in Seq(S) /\ FlattenSeq(y) \in Seq(S)
  BY FlattenedIsList
<1>3. CASE i = 0
  <2>1. xy = y /\ x = << >> /\ FlattenSeq(x) = x
    <3>1. x = << >>
      BY <1>3, EmptySeq
    <3>2. xy = y
      BY <3>1, ConcatEmptySeq
    <3>3. FlattenSeq(x) = x
      BY Zenon, <1>3 DEF FlattenSeq
    <3> QED BY <3>1, <3>2, <3>3
  <2>2. << >> \o FlattenSeq(y) = FlattenSeq(y)
    BY <1>2, ConcatEmptySeq
  <2> QED BY Zenon, <2>1, <2>2
<1>4. CASE j = 0
  <2>1. xy = x /\ y = << >> /\ FlattenSeq(y) = y
    <3>1. y = << >>
      BY <1>4, EmptySeq
    <3>2. xy = x
      BY <3>1, ConcatEmptySeq
    <3>3. FlattenSeq(y) = y
      BY Zenon, <1>4 DEF FlattenSeq
    <3> QED BY <3>1, <3>2, <3>3
  <2>2. FlattenSeq(x) \o << >> = FlattenSeq(x)
    BY <1>2, ConcatEmptySeq
  <2> QED BY Zenon, <2>1, <2>2
<1>5. CASE i # 0 /\ j # 0
  <2> HIDE DEF xy, i, j
  <2>1. i \in Nat \ {0} /\ j \in Nat \ {0} /\ i + j \in Nat \ {0}
    BY <1>1, <1>5
  <2>2. PICK f :
          /\ f[1] = x[1]
          /\ \A n \in 2 .. i : f[n] = f[n - 1] \o x[n]
          /\ FlattenSeq(x) = f[i]
    BY <2>1, Flattening DEF i
  <2>3. PICK g :
          /\ g[1] = y[1]
          /\ \A n \in 2 .. j : g[n] = g[n - 1] \o y[n]
          /\ FlattenSeq(y) = g[j]
    BY <2>1, Flattening DEF j
  <2>4. PICK h :
          /\ h[1] = xy[1]
          /\ \A n \in 2 .. i + j : h[n] = h[n - 1] \o xy[n]
          /\ FlattenSeq(xy) = h[i + j]
    <3>1. Len(xy) \in Nat \ {0}
      BY <1>1, <2>1
    <3>2. \E h :
            /\ h[1] = xy[1]
            /\ \A n \in 2 .. Len(xy) : h[n] = h[n - 1] \o xy[n]
            /\ FlattenSeq(xy) = h[Len(xy)]
      BY <3>1, Flattening
    <3> QED BY Zenon, <1>1, <3>2
  <2>5. /\ \A n \in 1 .. i : f[n] \in Seq(S)
        /\ \A n \in 1 .. j : g[n] \in Seq(S)
    <3>1. i = Len(x) /\ j = Len(y)
      BY DEF i, j
    <3> QED BY <2>2, <2>3, <3>1, FlatIsList
  <2>6. \A n \in 1 .. j : y[n] \in Seq(S)
    BY DEF j
  <2> DEFINE Goal(n) == h[n] = IF n <= i THEN f[n] ELSE f[i] \o g[n - i]
             Bad == {n \in 1 .. i + j : ~ Goal(n)}
  <2>7. Bad = {}
    <3> SUFFICES ASSUME Bad # {}  PROVE FALSE
      OBVIOUS
    <3> HIDE DEF Goal
    <3>1. Bad \in SUBSET Nat
      OBVIOUS
    <3>2. PICK n \in Bad : \A m \in Bad : n <= m
      BY <3>1, SmallestExists
    <3>3. n \in 1 .. i + j /\ ~ Goal(n) /\ n \in Nat
      OBVIOUS
    <3>4. n # 1 => n - 1 \in 1 .. i + j /\ n \in 2 .. i + j /\ Goal(n - 1)
      <4>1. n # 1 => n - 1 \in 1 .. i + j /\ ~ (n <= n - 1) /\ n \in 2 .. i + j
        BY <2>1, <3>3
      <4> QED BY <3>2, <4>1
    <3>5. CASE n = 1
      <4>1. 1 <= i /\ 1 \in 1 .. i + j
        BY <2>1
      <4>2. h[1] = f[1]
        BY Zenon, <1>1, <2>2, <2>4, <4>1
      <4>3. Goal(1)
        BY Zenon, <4>1, <4>2 DEF Goal
      <4> QED BY Zenon, <3>3, <3>5, <4>3
    <3>6. CASE n # 1 /\ n <= i
      <4>1. n - 1 <= i /\ n \in 2 .. i
        BY <2>1, <3>3, <3>6
      <4>2. h[n - 1] = f[n - 1] /\ h[n] = h[n - 1] \o xy[n] /\ xy[n] = x[n]
        BY Zenon, <1>1, <2>4, <3>3, <3>4, <3>6, <4>1 DEF Goal
      <4>3. h[n] = f[n]
        BY Zenon, <2>2, <4>1, <4>2
      <4> QED BY Zenon, <3>3, <3>6, <4>3 DEF Goal
    <3>7. CASE n # 1 /\ n = i + 1
      <4>1. n - 1 = i /\ n - 1 <= i /\ ~ (n <= i) /\ n - i = 1
        BY <2>1, <3>3, <3>7
      <4>2. h[n - 1] = f[i] /\ h[n] = h[n - 1] \o xy[n] /\ xy[n] = y[1]
        BY Zenon, <1>1, <2>4, <3>3, <3>4, <3>7, <4>1 DEF Goal
      <4>3. h[n] = f[i] \o g[n - i]
        BY Zenon, <2>3, <4>1, <4>2
      <4> QED BY Zenon, <3>3, <4>1, <4>3 DEF Goal
    <3>8. CASE n > i + 1
      <4>1. /\ ~ (n - 1 <= i) /\ ~ (n <= i) /\ n # 1
            /\ n - i \in 2 .. j /\ (n - 1) - i = (n - i) - 1
            /\ (n - i) - 1 \in 1 .. j /\ n - i \in 1 .. j /\ i \in 1 .. i
        BY <2>1, <3>3, <3>8
      <4>2. h[n - 1] = f[i] \o g[(n - i) - 1] /\ h[n] = h[n - 1] \o xy[n] /\ xy[n] = y[n - i]
        BY Zenon, <1>1, <2>4, <3>3, <3>4, <4>1 DEF Goal
      <4>3. g[n - i] = g[(n - i) - 1] \o y[n - i]
        BY Zenon, <2>3, <4>1
      <4>4. (f[i] \o g[(n - i) - 1]) \o y[n - i] = f[i] \o (g[(n - i) - 1] \o y[n - i])
        <5>1. f[i] \in Seq(S) /\ g[(n - i) - 1] \in Seq(S) /\ y[n - i] \in Seq(S)
          BY Zenon, <2>5, <2>6, <4>1
        <5>2. Associate(f[i], g[(n - i) - 1], y[n - i])
          BY Zenon, <5>1, ListsAssociate
        <5> QED BY Zenon, <5>2 DEF Associate
      <4>5. h[n] = f[i] \o g[n - i]
        BY Zenon, <4>2, <4>3, <4>4
      <4> QED BY Zenon, <3>3, <4>1, <4>5 DEF Goal
    <3>9. n = 1 \/ (n # 1 /\ n <= i) \/ (n # 1 /\ n = i + 1) \/ n > i + 1
      BY <2>1, <3>3
    <3> QED BY <3>5, <3>6, <3>7, <3>8, <3>9
  <2>8. Goal(i + j) /\ ~ (i + j <= i) /\ (i + j) - i = j
    <3>1. i + j \in 1 .. i + j /\ ~ (i + j <= i) /\ (i + j) - i = j
      BY <2>1
    <3> HIDE DEF Goal
    <3> QED BY <2>7, <3>1
  <2> QED BY Zenon, <2>2, <2>3, <2>4, <2>8 DEF xy
<1> QED BY <1>3, <1>4, <1>5

\* What a piece shows by itself.
Own(piece) == IF piece \in Layout THEN << >> ELSE <<piece>>

OwnOf(text) == [i \in DOMAIN text |-> Own(text[i])]

LEMMA OwnLists ==
    ASSUME NEW S, NEW text \in Seq(S)
    PROVE  /\ OwnOf(text) \in Seq(Seq(S)) /\ Len(OwnOf(text)) = Len(text)
           /\ \A i \in 1 .. Len(text) : OwnOf(text)[i] = Own(text[i])
           /\ Content(text) = FlattenSeq(OwnOf(text))
           /\ Content(text) \in Seq(S)
<1>1. \A p \in S : Own(p) \in Seq(S)
  <2>1. \A p \in S : << >> \in Seq(S) /\ <<p>> \in Seq(S)
    OBVIOUS
  <2> QED BY Zenon, <2>1 DEF Own
<1>2. DOMAIN text = 1 .. Len(text) /\ Len(text) \in Nat /\ \A i \in DOMAIN text : text[i] \in S
  OBVIOUS
<1>3. OwnOf(text) \in [1 .. Len(text) -> Seq(S)]
  BY Zenon, <1>1, <1>2 DEF OwnOf
<1>4. \A n \in Nat : \A A : \A q \in [1 .. n -> A] : q \in Seq(A) /\ Len(q) = n
  OBVIOUS
<1>5. OwnOf(text) \in Seq(Seq(S)) /\ Len(OwnOf(text)) = Len(text)
  BY Zenon, <1>2, <1>3, <1>4
<1>6. \A i \in 1 .. Len(text) : OwnOf(text)[i] = Own(text[i])
  BY Zenon, <1>2 DEF OwnOf
<1>7. Content(text) = FlattenSeq(OwnOf(text))
  BY Zenon DEF Content, OwnOf, Own
<1>8. FlattenSeq(OwnOf(text)) \in Seq(S)
  BY <1>5, FlattenedIsList
<1> QED BY Zenon, <1>5, <1>6, <1>7, <1>8

LEMMA ContentJoins ==
    ASSUME NEW S, NEW a \in Seq(S), NEW b \in Seq(S)
    PROVE  Content(a \o b) = Content(a) \o Content(b)
<1> DEFINE i == Len(a)
           j == Len(b)
           ab == a \o b
           x == OwnOf(a)
           y == OwnOf(b)
           z == OwnOf(ab)
<1>1. /\ i \in Nat /\ j \in Nat
      /\ ab \in Seq(S) /\ Len(ab) = i + j
      /\ \A n \in 1 .. i + j : ab[n] = IF n <= i THEN a[n] ELSE b[n - i]
  BY ConcatProperties, LenProperties
<1>2. /\ x \in Seq(Seq(S)) /\ Len(x) = i /\ \A n \in 1 .. i : x[n] = Own(a[n])
      /\ y \in Seq(Seq(S)) /\ Len(y) = j /\ \A n \in 1 .. j : y[n] = Own(b[n])
  BY OwnLists
<1>3. z \in Seq(Seq(S)) /\ Len(z) = i + j /\ \A n \in 1 .. i + j : z[n] = Own(ab[n])
  <2> HIDE DEF ab
  <2>1. z \in Seq(Seq(S)) /\ Len(z) = Len(ab) /\ \A n \in 1 .. Len(ab) : z[n] = Own(ab[n])
    BY <1>1, OwnLists
  <2> QED BY Zenon, <1>1, <2>1
<1> HIDE DEF x, y, z, i, j, ab
<1>4. /\ x \o y \in Seq(Seq(S)) /\ Len(x \o y) = i + j
      /\ \A n \in 1 .. i + j : (x \o y)[n] = IF n <= i THEN x[n] ELSE y[n - i]
  BY <1>2, ConcatProperties
<1>5. ASSUME NEW n \in 1 .. i + j  PROVE z[n] = (x \o y)[n]
  <2>1. CASE n <= i
    <3>1. n \in 1 .. i
      BY <1>1, <2>1
    <3>2. ab[n] = a[n] /\ (x \o y)[n] = x[n]
      BY Zenon, <1>1, <1>4, <2>1
    <3>3. x[n] = Own(a[n]) /\ z[n] = Own(ab[n])
      BY Zenon, <1>2, <1>3, <3>1
    <3> QED BY Zenon, <3>2, <3>3
  <2>2. CASE ~ (n <= i)
    <3>1. n - i \in 1 .. j
      BY <1>1, <2>2
    <3> QED BY Zenon, <1>1, <1>2, <1>3, <1>4, <2>2, <3>1
  <2> QED BY <2>1, <2>2
<1>6. z = x \o y
  <2>1. PICK w : w = x \o y
    BY Zenon
  <2>2. w \in Seq(Seq(S)) /\ Len(w) = i + j /\ \A n \in 1 .. i + j : z[n] = w[n]
    BY Zenon, <1>4, <1>5, <2>1
  <2>3. z = w
    BY <1>3, <2>2, SeqEqual
  <2> QED BY Zenon, <2>1, <2>3
<1>7. FlattenSeq(x \o y) = FlattenSeq(x) \o FlattenSeq(y)
  BY <1>2, FlattenJoins
<1>8. Content(a) = FlattenSeq(x) /\ Content(b) = FlattenSeq(y)
  BY OwnLists DEF x, y
<1>9. Content(ab) = FlattenSeq(z)
  BY <1>1, OwnLists DEF z
<1> QED BY Zenon, <1>6, <1>7, <1>8, <1>9 DEF ab

\* A list of single pieces.
LEMMA FlattenSingles ==
    ASSUME NEW S, NEW text \in Seq(S)
    PROVE  FlattenSeq([i \in DOMAIN text |-> <<text[i]>>]) = text
<1> DEFINE x == [i \in DOMAIN text |-> <<text[i]>>]
           N == Len(text)
<1>1. N \in Nat /\ DOMAIN text = 1 .. N /\ \A i \in DOMAIN text : text[i] \in S
  OBVIOUS
<1>2. x \in Seq(Seq(S)) /\ Len(x) = N /\ \A i \in 1 .. N : x[i] = <<text[i]>>
  <2>1. \A p \in S : <<p>> \in Seq(S)
    OBVIOUS
  <2>2. x \in [1 .. N -> Seq(S)]
    BY Zenon, <1>1, <2>1
  <2>3. \A n \in Nat : \A A : \A q \in [1 .. n -> A] : q \in Seq(A) /\ Len(q) = n
    OBVIOUS
  <2> QED BY Zenon, <1>1, <2>2, <2>3
<1> HIDE DEF x
<1>3. CASE N = 0
  <2>1. text = << >> /\ x = << >>
    BY <1>2, <1>3, EmptySeq
  <2>2. FlattenSeq(x) = x
    BY Zenon, <1>2, <1>3 DEF FlattenSeq
  <2> QED BY Zenon, <2>1, <2>2 DEF x
<1>4. CASE N # 0
  <2>1. Len(x) \in Nat \ {0}
    BY <1>1, <1>2, <1>4
  <2>2. PICK flat :
          /\ flat[1] = x[1]
          /\ \A n \in 2 .. Len(x) : flat[n] = flat[n - 1] \o x[n]
          /\ FlattenSeq(x) = flat[Len(x)]
    BY <2>1, Flattening
  <2>3. \A n \in 1 .. N : flat[n] \in Seq(S)
    BY <1>2, <2>2, FlatIsList
  <2> DEFINE Goal(n) == Len(flat[n]) = n /\ \A i \in 1 .. n : flat[n][i] = text[i]
             Bad == {n \in 1 .. N : ~ Goal(n)}
  <2>4. Bad = {}
    <3> SUFFICES ASSUME Bad # {}  PROVE FALSE
      OBVIOUS
    <3> HIDE DEF Goal
    <3>1. Bad \in SUBSET Nat
      BY <1>1
    <3>2. PICK n \in Bad : \A m \in Bad : n <= m
      BY <3>1, SmallestExists
    <3>3. n \in 1 .. N /\ ~ Goal(n) /\ n \in Nat /\ text[n] \in S
      BY <1>1
    <3>4. x[n] = <<text[n]>>
      BY <1>2, <3>3
    <3>5. CASE n = 1
      <4>1. flat[1] = <<text[1]>>
        BY Zenon, <2>2, <3>4, <3>5
      <4>2. Len(<<text[1]>>) = 1 /\ \A i \in 1 .. 1 : <<text[1]>>[i] = text[i]
        OBVIOUS
      <4>3. Goal(1)
        BY Zenon, <4>1, <4>2 DEF Goal
      <4> QED BY Zenon, <3>3, <3>5, <4>3
    <3>6. CASE n # 1
      <4>1. n - 1 \in 1 .. N /\ n \in 2 .. N /\ ~ (n <= n - 1)
        BY <1>1, <3>3, <3>6
      <4>2. Goal(n - 1)
        BY <3>2, <4>1
      <4>3. PICK f : f = flat[n - 1]
        BY Zenon
      <4>4. f \in Seq(S) /\ Len(f) = n - 1 /\ \A i \in 1 .. n - 1 : f[i] = text[i]
        BY Zenon, <2>3, <4>1, <4>2, <4>3 DEF Goal
      <4>5. PICK p : p = text[n]
        BY Zenon
      <4>6. PICK g : g = f \o <<p>>
        BY Zenon
      <4>7. Len(g) = n /\ \A i \in 1 .. n : g[i] = IF i = n THEN p ELSE f[i]
        BY <3>3, <4>4, <4>5, <4>6
      <4>8. \A i \in 1 .. n : i = n \/ i \in 1 .. n - 1
        BY <3>3
      <4>9. \A i \in 1 .. n : g[i] = text[i]
        BY Zenon, <4>4, <4>5, <4>7, <4>8
      <4>10. flat[n] = g
        BY Zenon, <1>2, <2>2, <3>4, <4>1, <4>3, <4>5, <4>6
      <4> QED BY Zenon, <3>3, <4>7, <4>9, <4>10 DEF Goal
    <3> QED BY <3>5, <3>6
  <2>5. N \in 1 .. N /\ Goal(N)
    <3>1. N \in 1 .. N
      BY <1>1, <1>4
    <3> HIDE DEF Goal
    <3> QED BY <2>4, <3>1
  <2>6. PICK f : f = flat[N]
    BY Zenon
  <2>7. f \in Seq(S) /\ Len(f) = N /\ \A i \in 1 .. N : f[i] = text[i]
    BY Zenon, <2>3, <2>5, <2>6
  <2>8. f = text
    BY <2>7, SeqEqual
  <2> QED BY Zenon, <1>2, <2>2, <2>6, <2>8 DEF x
<1> QED BY <1>3, <1>4

\* A text without layout shows all its pieces, and layout shows none.
LEMMA ContentOfOwn ==
    ASSUME NEW S, NEW text \in Seq(S), \A i \in DOMAIN text : text[i] \notin Layout
    PROVE  Content(text) = text
<1>1. OwnOf(text) = [i \in DOMAIN text |-> <<text[i]>>]
  BY Zenon DEF OwnOf, Own
<1>2. Content(text) = FlattenSeq([i \in DOMAIN text |-> <<text[i]>>])
  BY Zenon, <1>1, OwnLists
<1>3. FlattenSeq([i \in DOMAIN text |-> <<text[i]>>]) = text
  BY FlattenSingles
<1> QED BY Zenon, <1>2, <1>3

LEMMA ContentOfLayout ==
    ASSUME NEW piece \in Layout
    PROVE  Content(<<piece>>) = << >>
<1> DEFINE text == <<piece>>
<1>1. text \in Seq(Layout) /\ Len(text) = 1 /\ text[1] = piece
  OBVIOUS
<1> HIDE DEF text
<1>2. /\ OwnOf(text) \in Seq(Seq(Layout)) /\ Len(OwnOf(text)) = Len(text)
      /\ \A i \in 1 .. Len(text) : OwnOf(text)[i] = Own(text[i])
      /\ Content(text) = FlattenSeq(OwnOf(text))
  BY <1>1, OwnLists
<1>3. Len(OwnOf(text)) \in Nat \ {0} /\ Len(OwnOf(text)) = 1 /\ 1 \in 1 .. 1
  BY <1>1, <1>2
<1>4. OwnOf(text)[1] = << >>
  BY Zenon, <1>1, <1>2, <1>3 DEF Own
<1>5. PICK flat :
        /\ flat[1] = OwnOf(text)[1]
        /\ FlattenSeq(OwnOf(text)) = flat[Len(OwnOf(text))]
  BY <1>3, Flattening
<1> QED BY Zenon, <1>2, <1>3, <1>4, <1>5 DEF text

\* What is counted of a prefix.
LEMMA CountType ==
    ASSUME NEW text, NEW token, NEW n \in Nat
    PROVE  /\ IsFiniteSet({k \in 1 .. n : text[k] = token})
           /\ CountUpTo(text, token, n) \in Nat
<1>1. IsFiniteSet(1 .. n)
  BY FS_Interval
<1>2. IsFiniteSet({k \in 1 .. n : text[k] = token})
  BY <1>1, FS_Subset
<1>3. Cardinality({k \in 1 .. n : text[k] = token}) \in Nat
  BY <1>2, FS_CardinalityType
<1> QED BY Zenon, <1>2, <1>3 DEF CountUpTo

\* Counting in two texts after each other.
CountsJoin(a, b, token) ==
    /\ \A n \in 0 .. Len(a) : CountUpTo(a \o b, token, n) = CountUpTo(a, token, n)
    /\ \A n \in 0 .. Len(b) :
          CountUpTo(a \o b, token, Len(a) + n)
             = CountUpTo(a, token, Len(a)) + CountUpTo(b, token, n)

LEMMA CountJoins ==
    ASSUME NEW S, NEW a \in Seq(S), NEW b \in Seq(S), NEW token
    PROVE  CountsJoin(a, b, token)
<1> DEFINE i == Len(a)
           j == Len(b)
           ab == a \o b
<1>1. /\ i \in Nat /\ j \in Nat
      /\ \A n \in 1 .. i + j : ab[n] = IF n <= i THEN a[n] ELSE b[n - i]
  BY ConcatProperties, LenProperties
<1> HIDE DEF i, j, ab
<1>2. ASSUME NEW n \in 0 .. i
      PROVE  CountUpTo(ab, token, n) = CountUpTo(a, token, n)
  <2>1. \A k \in 1 .. n : ab[k] = a[k]
    BY <1>1
  <2>2. {k \in 1 .. n : ab[k] = token} = {k \in 1 .. n : a[k] = token}
    BY Zenon, <2>1
  <2> QED BY Zenon, <2>2 DEF CountUpTo
<1>3. ASSUME NEW n \in 0 .. j
      PROVE  CountUpTo(ab, token, i + n) = CountUpTo(a, token, i) + CountUpTo(b, token, n)
  <2> DEFINE A == {k \in 1 .. i : a[k] = token}
             B == {k \in 1 .. n : b[k] = token}
             C == {k \in i + 1 .. i + n : ab[k] = token}
             U == {k \in 1 .. i + n : ab[k] = token}
             shift == [k \in B |-> i + k]
  <2>1. n \in Nat /\ i + n \in Nat
    BY <1>1
  <2>2. /\ \A k \in 1 .. i : k \in 1 .. i + n /\ ab[k] = a[k] /\ k \notin i + 1 .. i + n
        /\ \A k \in i + 1 .. i + n : k \in 1 .. i + n
        /\ \A k \in 1 .. i + n : k \in 1 .. i \/ k \in i + 1 .. i + n
    BY <1>1, <2>1
  <2>3. U = A \cup C /\ \A k : ~ (k \in A /\ k \in C)
    BY Zenon, <2>2
  <2>4. \A k \in 1 .. n : i + k \in i + 1 .. i + n /\ ab[i + k] = b[k]
    <3>1. \A k \in 1 .. n : i + k \in 1 .. i + j /\ ~ (i + k <= i) /\ (i + k) - i = k
                            /\ i + k \in i + 1 .. i + n
      BY <1>1, <2>1
    <3> QED BY Zenon, <1>1, <3>1
  <2>5. \A k \in i + 1 .. i + n : k - i \in 1 .. n /\ i + (k - i) = k
    BY <1>1, <2>1
  <2>6. ExistsBijection(B, C)
    <3>1. shift \in [B -> C] /\ \A k \in B : shift[k] = i + k
      BY Zenon, <2>4
    <3>2. \A k, m \in B : shift[k] = shift[m] => k = m
      <4>1. \A k, m \in B : i + k = i + m => k = m
        BY <1>1
      <4> QED BY Zenon, <3>1, <4>1
    <3>3. \A c \in C : \E k \in B : shift[k] = c
      <4>1. \A c \in C : c - i \in B /\ i + (c - i) = c
        BY Zenon, <2>4, <2>5
      <4> QED BY Zenon, <3>1, <4>1
    <3> HIDE DEF shift, B, C
    <3>4. IsInjective(shift)
      BY <3>1, <3>2 DEF IsInjective
    <3>5. shift \in Bijection(B, C)
      BY Zenon, <3>1, <3>3, <3>4 DEF Bijection, Injection, Surjection
    <3> QED BY <3>5 DEF ExistsBijection
  <2>7. IsFiniteSet(A) /\ IsFiniteSet(B) /\ Cardinality(A) \in Nat /\ Cardinality(B) \in Nat
    <3>1. IsFiniteSet(A) /\ CountUpTo(a, token, i) \in Nat
      BY <1>1, CountType
    <3>2. IsFiniteSet(B) /\ CountUpTo(b, token, n) \in Nat
      BY <2>1, CountType
    <3> QED BY Zenon, <3>1, <3>2 DEF CountUpTo
  <2> HIDE DEF A, B, C, U
  <2>8. IsFiniteSet(C) /\ Cardinality(C) = Cardinality(B)
    BY <2>6, <2>7, FS_Bijection
  <2>9. Cardinality(A \cup C) = Cardinality(A) + Cardinality(C) - Cardinality(A \cap C)
    BY <2>7, <2>8, FS_Union
  <2>10. Cardinality(A \cap C) = 0
    <3>1. A \cap C = {}
      BY <2>3
    <3>2. Cardinality({}) = 0
      BY FS_EmptySet
    <3> QED BY Zenon, <3>1, <3>2
  <2>11. Cardinality(U) = Cardinality(A) + Cardinality(B)
    <3>1. PICK u : u = Cardinality(A \cup C)
      BY Zenon
    <3>2. u = Cardinality(A) + Cardinality(B) - 0
      BY Zenon, <2>8, <2>9, <2>10, <3>1
    <3>3. u = Cardinality(A) + Cardinality(B)
      BY <2>7, <3>2
    <3> QED BY Zenon, <2>3, <3>1, <3>3
  <2> QED BY Zenon, <2>11 DEF CountUpTo, A, B, U
<1> QED BY Zenon, <1>2, <1>3 DEF CountsJoin, i, j, ab

\* Counting in a single piece.
LEMMA CountOfPiece ==
    ASSUME NEW piece, NEW token
    PROVE  /\ CountUpTo(<<piece>>, token, 0) = 0
           /\ piece = token => CountUpTo(<<piece>>, token, 1) = 1
           /\ piece # token => CountUpTo(<<piece>>, token, 1) = 0
<1>1. {k \in 1 .. 0 : <<piece>>[k] = token} = {}
  OBVIOUS
<1>2. piece = token => {k \in 1 .. 1 : <<piece>>[k] = token} = {1}
  OBVIOUS
<1>3. piece # token => {k \in 1 .. 1 : <<piece>>[k] = token} = {}
  OBVIOUS
<1>4. Cardinality({}) = 0 /\ Cardinality({1}) = 1
  BY FS_EmptySet, FS_Singleton
<1> QED BY Zenon, <1>1, <1>2, <1>3, <1>4 DEF CountUpTo

\* Balanced, with the braces as parameters.
BalancedBy(text, open, close) ==
    /\ \A n \in 0 .. Len(text) : CountUpTo(text, close, n) <= CountUpTo(text, open, n)
    /\ CountUpTo(text, open, Len(text)) = CountUpTo(text, close, Len(text))

LEMMA BalancedByBraces ==
    ASSUME NEW S, NEW text \in Seq(S)
    PROVE  Balanced(text) <=> BalancedBy(text, "{ ", " }")
<1>1. PICK open, close : open = "{ " /\ close = " }"
  BY Zenon
<1>2. \A n \in 0 .. Len(text) : /\ CountUpTo(text, close, n) \in Nat
                                /\ CountUpTo(text, open, n) \in Nat
  <2>1. \A n \in 0 .. Len(text) : n \in Nat
    OBVIOUS
  <2> QED BY <2>1, CountType
<1>3. \A n \in 0 .. Len(text) :
         CountUpTo(text, close, n) <= CountUpTo(text, open, n)
           <=> CountUpTo(text, open, n) >= CountUpTo(text, close, n)
  BY <1>2
<1>4. Balanced(text) <=> BalancedBy(text, open, close)
  BY Zenon, <1>1, <1>3 DEF Balanced, BalancedBy
<1> QED BY Zenon, <1>1, <1>4

LEMMA BalancedJoins ==
    ASSUME NEW S, NEW a \in Seq(S), NEW b \in Seq(S), NEW open, NEW close,
           BalancedBy(a, open, close), BalancedBy(b, open, close)
    PROVE  BalancedBy(a \o b, open, close)
<1> DEFINE ab == a \o b
           i == Len(a)
           j == Len(b)
           O(x, n) == CountUpTo(x, open, n)
           C(x, n) == CountUpTo(x, close, n)
<1>1. i \in Nat /\ j \in Nat /\ Len(ab) = i + j /\ i + j \in Nat /\ i \in 0 .. i /\ j \in 0 .. j
  BY ConcatProperties, LenProperties
<1>2. /\ \A n \in 0 .. i : O(ab, n) = O(a, n) /\ C(ab, n) = C(a, n)
      /\ \A n \in 0 .. j : O(ab, i + n) = O(a, i) + O(b, n) /\ C(ab, i + n) = C(a, i) + C(b, n)
  <2>1. CountsJoin(a, b, open) /\ CountsJoin(a, b, close)
    BY CountJoins
  <2> QED BY Zenon, <2>1 DEF CountsJoin
<1>3. \A n \in Nat : O(a, n) \in Nat /\ O(b, n) \in Nat /\ C(a, n) \in Nat /\ C(b, n) \in Nat
  BY CountType
<1>4. /\ \A n \in 0 .. i : C(a, n) <= O(a, n)
      /\ \A n \in 0 .. j : C(b, n) <= O(b, n)
      /\ O(a, i) = C(a, i) /\ O(b, j) = C(b, j)
  BY Zenon DEF BalancedBy
<1> HIDE DEF ab, i, j, O, C
<1>5. ASSUME NEW n \in 0 .. i + j  PROVE C(ab, n) <= O(ab, n)
  <2>1. CASE n <= i
    <3>1. n \in 0 .. i
      BY <1>1, <2>1
    <3> QED BY Zenon, <1>2, <1>4, <3>1
  <2>2. CASE ~ (n <= i)
    <3>1. n - i \in 0 .. j /\ i + (n - i) = n /\ n - i \in Nat /\ i \in Nat
      BY <1>1, <2>2
    <3>2. /\ O(ab, i + (n - i)) = O(a, i) + O(b, n - i)
          /\ C(ab, i + (n - i)) = C(a, i) + C(b, n - i)
      BY Zenon, <1>2, <3>1
    <3>3. O(ab, n) = O(a, i) + O(b, n - i) /\ C(ab, n) = C(a, i) + C(b, n - i)
      BY Zenon, <3>1, <3>2
    <3>4. /\ O(a, i) \in Nat /\ C(a, i) \in Nat /\ O(b, n - i) \in Nat /\ C(b, n - i) \in Nat
          /\ O(a, i) = C(a, i) /\ C(b, n - i) <= O(b, n - i)
      BY Zenon, <1>3, <1>4, <3>1
    <3> QED BY <3>3, <3>4
  <2> QED BY <2>1, <2>2
<1>6. O(ab, i + j) = C(ab, i + j)
  BY Zenon, <1>1, <1>2, <1>4
<1>7. Len(a \o b) = i + j
  BY Zenon, <1>1 DEF ab
<1> QED BY Zenon, <1>5, <1>6, <1>7 DEF BalancedBy, O, C, ab

\* No braces are balanced.
LEMMA NoBracesBalanced ==
    ASSUME NEW S, NEW text \in Seq(S), NEW open, NEW close,
           \A i \in DOMAIN text : text[i] # open /\ text[i] # close
    PROVE  BalancedBy(text, open, close)
<1>1. \A n \in 0 .. Len(text) : \A k \in 1 .. n : k \in DOMAIN text
  OBVIOUS
<1>2. \A n \in 0 .. Len(text) :
         /\ {k \in 1 .. n : text[k] = open} = {}
         /\ {k \in 1 .. n : text[k] = close} = {}
  BY <1>1
<1>3. Cardinality({}) = 0 /\ 0 <= 0 /\ Len(text) \in 0 .. Len(text)
  BY FS_EmptySet
<1>4. \A n \in 0 .. Len(text) : CountUpTo(text, open, n) = 0 /\ CountUpTo(text, close, n) = 0
  BY Zenon, <1>2, <1>3 DEF CountUpTo
<1> QED BY Zenon, <1>3, <1>4 DEF BalancedBy

\* Counting in a text with a piece in front of it and one behind it.
CountsAround(a, front, back, token) ==
    LET text == (front \o a) \o back
        First == CountUpTo(front, token, 1)
    IN  /\ Len(text) = (1 + Len(a)) + 1
        /\ CountUpTo(text, token, 0) = CountUpTo(front, token, 0)
        /\ \A n \in 0 .. Len(a) :
              CountUpTo(text, token, 1 + n) = First + CountUpTo(a, token, n)
        /\ CountUpTo(text, token, (1 + Len(a)) + 1)
              = (First + CountUpTo(a, token, Len(a))) + CountUpTo(back, token, 1)

LEMMA CountAround ==
    ASSUME NEW S, NEW a \in Seq(S), NEW front \in Seq(S), NEW back \in Seq(S),
           Len(front) = 1, Len(back) = 1, NEW token
    PROVE  CountsAround(a, front, back, token)
<1>1. PICK before \in Seq(S) : before = front \o a
  <2>1. front \o a \in Seq(S)
    BY ConcatProperties
  <2> QED BY <2>1
<1>2. Len(before) = 1 + Len(a) /\ Len(a) \in Nat
  <2>1. Len(front \o a) = Len(front) + Len(a) /\ Len(a) \in Nat
    BY ConcatProperties, LenProperties
  <2> QED BY Zenon, <1>1, <2>1
<1>3. PICK text \in Seq(S) : text = before \o back
  <2>1. before \o back \in Seq(S)
    BY ConcatProperties
  <2> QED BY <2>1
<1>4. Len(text) = (1 + Len(a)) + 1
  <2>1. Len(before \o back) = Len(before) + Len(back)
    BY ConcatProperties
  <2> QED BY Zenon, <1>2, <1>3, <2>1
<1>5. /\ \A n \in 0 .. 1 : CountUpTo(before, token, n) = CountUpTo(front, token, n)
      /\ \A n \in 0 .. Len(a) :
            CountUpTo(before, token, 1 + n) = CountUpTo(front, token, 1) + CountUpTo(a, token, n)
  <2>1. CountsJoin(front, a, token)
    BY CountJoins
  <2> QED BY Zenon, <1>1, <2>1 DEF CountsJoin
<1>6. /\ \A n \in 0 .. 1 + Len(a) : CountUpTo(text, token, n) = CountUpTo(before, token, n)
      /\ \A n \in 0 .. 1 :
            CountUpTo(text, token, (1 + Len(a)) + n)
               = CountUpTo(before, token, 1 + Len(a)) + CountUpTo(back, token, n)
  <2>1. CountsJoin(before, back, token)
    BY CountJoins
  <2> QED BY Zenon, <1>2, <1>3, <2>1 DEF CountsJoin
<1>7. /\ 0 \in 0 .. 1 /\ 1 \in 0 .. 1 /\ 0 \in 0 .. 1 + Len(a) /\ Len(a) \in 0 .. Len(a)
      /\ \A n \in 0 .. Len(a) : 1 + n \in 0 .. 1 + Len(a)
  BY <1>2
<1>8. CountUpTo(text, token, 0) = CountUpTo(front, token, 0)
  BY Zenon, <1>5, <1>6, <1>7
<1>9. \A n \in 0 .. Len(a) :
         CountUpTo(text, token, 1 + n) = CountUpTo(front, token, 1) + CountUpTo(a, token, n)
  BY Zenon, <1>5, <1>6, <1>7
<1>10. CountUpTo(text, token, (1 + Len(a)) + 1)
          = CountUpTo(before, token, 1 + Len(a)) + CountUpTo(back, token, 1)
  BY Zenon, <1>6, <1>7
<1>11. CountUpTo(before, token, 1 + Len(a))
          = CountUpTo(front, token, 1) + CountUpTo(a, token, Len(a))
  BY Zenon, <1>5, <1>7
<1>12. CountUpTo(text, token, (1 + Len(a)) + 1)
          = (CountUpTo(front, token, 1) + CountUpTo(a, token, Len(a)))
               + CountUpTo(back, token, 1)
  BY Zenon, <1>10, <1>11
<1> QED BY Zenon, <1>1, <1>3, <1>4, <1>8, <1>9, <1>12 DEF CountsAround

LEMMA CountedAround ==
    \A S : \A a, front, back \in Seq(S) : \A token :
        Len(front) = 1 /\ Len(back) = 1 => CountsAround(a, front, back, token)
BY CountAround

\* Balanced text in braces.
LEMMA BracesBalance ==
    ASSUME NEW S, NEW a \in Seq(S), NEW open \in S, NEW close \in S, open # close,
           BalancedBy(a, open, close)
    PROVE  BalancedBy((<<open>> \o a) \o <<close>>, open, close)
<1> DEFINE i == Len(a)
           O(x, n) == CountUpTo(x, open, n)
           C(x, n) == CountUpTo(x, close, n)
<1> DEFINE text == (<<open>> \o a) \o <<close>>
<1>1. /\ CountsAround(a, <<open>>, <<close>>, open)
      /\ CountsAround(a, <<open>>, <<close>>, close)
  <2>1. <<open>> \in Seq(S) /\ <<close>> \in Seq(S) /\ Len(<<open>>) = 1 /\ Len(<<close>>) = 1
    OBVIOUS
  <2> QED BY Zenon, <2>1, CountedAround
<1>2. /\ O(<<open>>, 0) = 0 /\ O(<<open>>, 1) = 1
      /\ C(<<open>>, 0) = 0 /\ C(<<open>>, 1) = 0
      /\ O(<<close>>, 1) = 0 /\ C(<<close>>, 1) = 1
  BY CountOfPiece
<1>3. /\ Len(text) = (1 + i) + 1
      /\ O(text, 0) = O(<<open>>, 0)
      /\ \A n \in 0 .. i : O(text, 1 + n) = O(<<open>>, 1) + O(a, n)
      /\ O(text, (1 + i) + 1) = (O(<<open>>, 1) + O(a, i)) + O(<<close>>, 1)
  BY Zenon, <1>1 DEF CountsAround
<1>4. /\ C(text, 0) = C(<<open>>, 0)
      /\ \A n \in 0 .. i : C(text, 1 + n) = C(<<open>>, 1) + C(a, n)
      /\ C(text, (1 + i) + 1) = (C(<<open>>, 1) + C(a, i)) + C(<<close>>, 1)
  BY Zenon, <1>1 DEF CountsAround
<1>5. \A n \in 0 .. i : O(a, n) \in Nat /\ C(a, n) \in Nat
  <2>1. \A n \in 0 .. i : n \in Nat
    OBVIOUS
  <2> QED BY <2>1, CountType
<1>6. (\A n \in 0 .. i : C(a, n) <= O(a, n)) /\ O(a, i) = C(a, i)
  BY Zenon DEF BalancedBy
<1>7. i \in Nat /\ i \in 0 .. i
  BY LenProperties
<1> HIDE DEF text, i, O, C
<1>8. /\ O(text, 0) = 0 /\ C(text, 0) = 0
      /\ \A n \in 0 .. i : O(text, 1 + n) = 1 + O(a, n) /\ C(text, 1 + n) = 0 + C(a, n)
      /\ O(text, (1 + i) + 1) = (1 + O(a, i)) + 0
      /\ C(text, (1 + i) + 1) = (0 + C(a, i)) + 1
  BY Zenon, <1>2, <1>3, <1>4
<1>9. O(text, (1 + i) + 1) = C(text, (1 + i) + 1) /\ O(text, (1 + i) + 1) \in Nat
  <2>1. O(a, i) \in Nat /\ C(a, i) = O(a, i)
    BY Zenon, <1>5, <1>6, <1>7
  <2> QED BY <1>8, <2>1
<1>10. ASSUME NEW n \in 0 .. (1 + i) + 1  PROVE C(text, n) <= O(text, n)
  <2>1. CASE n = 0
    <3>1. 0 <= 0
      OBVIOUS
    <3> QED BY Zenon, <1>8, <2>1, <3>1
  <2>2. CASE n # 0 /\ n <= 1 + i
    <3>1. n - 1 \in 0 .. i /\ 1 + (n - 1) = n
      BY <1>7, <2>2
    <3>2. O(text, n) = 1 + O(a, n - 1) /\ C(text, n) = 0 + C(a, n - 1)
      BY Zenon, <1>8, <3>1
    <3>3. O(a, n - 1) \in Nat /\ C(a, n - 1) \in Nat /\ C(a, n - 1) <= O(a, n - 1)
      BY Zenon, <1>5, <1>6, <3>1
    <3> QED BY <3>2, <3>3
  <2>3. CASE ~ (n <= 1 + i)
    <3>1. n = (1 + i) + 1
      BY <1>7, <2>3
    <3>2. C(text, n) = O(text, n) /\ O(text, n) \in Nat
      BY Zenon, <1>9, <3>1
    <3> QED BY <3>2
  <2> QED BY <2>1, <2>2, <2>3
<1> QED BY Zenon, <1>3, <1>9, <1>10 DEF BalancedBy, O, C, text


-----------------------------------------------------------------------------
(* Texts that show what they have to *)

Open == "{ "
Close == " }"

\* What texts are made of.
Pieces ==
    Layout \cup {"\"", "nullopt", "{?}"} \cup UNION {Range(v.text) : v \in Printables}

\* The text has these leaves and balanced braces.
Shows(text, leaves) ==
    /\ text \in Seq(Pieces) /\ leaves \in Seq(Pieces)
    /\ Content(text) = leaves
    /\ BalancedBy(text, Open, Close)

LEMMA LayoutPieces ==
    /\ Layout \subseteq Pieces
    /\ Open \in Layout /\ Close \in Layout /\ Open # Close
    /\ \A piece \in {", ", "value: ", "L", "u8", "u", "U"} :
          piece \in Layout /\ piece # Open /\ piece # Close
    /\ \A piece \in {"\"", "nullopt", "{?}"} : piece \in Pieces /\ piece \notin Layout
<1>1. \A piece \in Layout : piece \in Pieces
  BY Zenon DEF Pieces
<1>2. Open \in Layout /\ Close \in Layout /\ Open # Close
  BY Zenon DEF Layout, Open, Close
<1>3. \A piece \in {", ", "value: ", "L", "u8", "u", "U"} :
         piece \in Layout /\ piece # Open /\ piece # Close
  BY Zenon DEF Layout, Open, Close
<1>4. \A piece \in {"\"", "nullopt", "{?}"} : piece \notin Layout
  BY Zenon DEF Layout
<1>5. \A piece \in {"\"", "nullopt", "{?}"} : piece \in Pieces
  BY Zenon DEF Pieces
<1> QED BY Zenon, <1>1, <1>2, <1>3, <1>4, <1>5

\* One text behind the other shows the leaves of both.
LEMMA JoinsShow ==
    \A a, b, x, y : Shows(a, x) /\ Shows(b, y) => Shows(a \o b, x \o y)
<1> SUFFICES ASSUME NEW a, NEW b, NEW x, NEW y, Shows(a, x), Shows(b, y)
             PROVE  Shows(a \o b, x \o y)
  OBVIOUS
<1>1. /\ a \in Seq(Pieces) /\ b \in Seq(Pieces) /\ x \in Seq(Pieces) /\ y \in Seq(Pieces)
      /\ Content(a) = x /\ Content(b) = y
      /\ BalancedBy(a, Open, Close) /\ BalancedBy(b, Open, Close)
  BY Zenon DEF Shows
<1>2. a \o b \in Seq(Pieces) /\ x \o y \in Seq(Pieces)
  BY <1>1, ConcatProperties
<1>3. Content(a \o b) = Content(a) \o Content(b)
  BY <1>1, ContentJoins
<1>4. BalancedBy(a \o b, Open, Close)
  BY <1>1, BalancedJoins
<1> QED BY Zenon, <1>1, <1>2, <1>3, <1>4 DEF Shows

\* A text without layout shows itself.
LEMMA OwnShows ==
    \A text \in Seq(Pieces) : (\A i \in DOMAIN text : text[i] \notin Layout) => Shows(text, text)
<1> SUFFICES ASSUME NEW text \in Seq(Pieces), \A i \in DOMAIN text : text[i] \notin Layout
             PROVE  Shows(text, text)
  BY Zenon
<1>1. Content(text) = text
  BY ContentOfOwn
<1>2. \A i \in DOMAIN text : text[i] # Open /\ text[i] # Close
  BY Zenon, LayoutPieces
<1>3. BalancedBy(text, Open, Close)
  BY <1>2, NoBracesBalanced
<1> QED BY Zenon, <1>1, <1>3 DEF Shows

LEMMA PieceShows ==
    \A piece \in {"\"", "nullopt", "{?}"} : Shows(<<piece>>, <<piece>>)
<1> SUFFICES ASSUME NEW piece \in Pieces, piece \notin Layout
             PROVE  Shows(<<piece>>, <<piece>>)
  BY Zenon, LayoutPieces
<1>1. PICK text \in Seq(Pieces) : text = <<piece>>
  <2>1. <<piece>> \in Seq(Pieces)
    OBVIOUS
  <2> QED BY Zenon, <2>1
<1>2. \A i \in DOMAIN text : text[i] = piece
  BY <1>1
<1>3. Shows(text, text)
  BY Zenon, <1>2, OwnShows
<1> QED BY Zenon, <1>1, <1>3

LEMMA NothingShows == Shows(<< >>, << >>)
<1>1. PICK text \in Seq(Pieces) : text = << >>
  BY EmptySeq
<1>2. DOMAIN text = {}
  BY <1>1
<1>3. Shows(text, text)
  BY Zenon, <1>2, OwnShows
<1> QED BY Zenon, <1>1, <1>3

\* What is layout and no brace shows nothing.
LEMMA LayoutShows ==
    \A piece \in Layout : piece # Open /\ piece # Close => Shows(<<piece>>, << >>)
<1> SUFFICES ASSUME NEW piece \in Layout, piece # Open, piece # Close
             PROVE  Shows(<<piece>>, << >>)
  OBVIOUS
<1>1. piece \in Pieces
  BY Zenon, LayoutPieces
<1>2. PICK text \in Seq(Pieces) : text = <<piece>>
  <2>1. <<piece>> \in Seq(Pieces)
    BY <1>1
  <2> QED BY Zenon, <2>1
<1>3. Content(text) = << >>
  BY Zenon, ContentOfLayout, <1>2
<1>4. \A i \in DOMAIN text : text[i] # Open /\ text[i] # Close
  BY <1>2
<1>5. BalancedBy(text, Open, Close)
  BY <1>4, NoBracesBalanced
<1>6. << >> \in Seq(Pieces)
  BY EmptySeq
<1> QED BY Zenon, <1>2, <1>3, <1>5, <1>6 DEF Shows

\* Braces around a text show nothing else.
LEMMA BracesShow ==
    \A a, x : Shows(a, x) => Shows((<<Open>> \o a) \o <<Close>>, x)
<1> SUFFICES ASSUME NEW a, NEW x, Shows(a, x)
             PROVE  Shows((<<Open>> \o a) \o <<Close>>, x)
  OBVIOUS
<1>1. /\ a \in Seq(Pieces) /\ x \in Seq(Pieces) /\ Content(a) = x
      /\ BalancedBy(a, Open, Close)
  BY Zenon DEF Shows
<1>2. Open \in Pieces /\ Close \in Pieces /\ Open # Close
  BY Zenon, LayoutPieces
<1>3. PICK front \in Seq(Pieces), back \in Seq(Pieces) : front = <<Open>> /\ back = <<Close>>
  <2>1. <<Open>> \in Seq(Pieces) /\ <<Close>> \in Seq(Pieces)
    BY <1>2
  <2> QED BY Zenon, <2>1
<1>4. Content(front) = << >> /\ Content(back) = << >>
  <2>1. Content(<<Open>>) = << >> /\ Content(<<Close>>) = << >>
    BY LayoutPieces, ContentOfLayout
  <2> QED BY Zenon, <1>3, <2>1
<1>5. PICK before \in Seq(Pieces) : before = front \o a
  <2>1. front \o a \in Seq(Pieces)
    BY <1>1, ConcatProperties
  <2> QED BY <2>1
<1>6. Content(front \o a) = Content(front) \o Content(a)
  BY <1>1, ContentJoins
<1>7. Content(before) = x
  <2>1. << >> \o x = x
    BY <1>1, ConcatEmptySeq
  <2> QED BY Zenon, <1>1, <1>4, <1>5, <1>6, <2>1
<1>8. Content(before \o back) = Content(before) \o Content(back)
  BY ContentJoins
<1>9. Content(before \o back) = x
  <2>1. x \o << >> = x
    BY <1>1, ConcatEmptySeq
  <2> QED BY Zenon, <1>4, <1>7, <1>8, <2>1
<1>10. before \o back \in Seq(Pieces)
  BY ConcatProperties
<1>11. BalancedBy((<<Open>> \o a) \o <<Close>>, Open, Close)
  BY <1>1, <1>2, BracesBalance
<1> QED BY Zenon, <1>1, <1>3, <1>5, <1>9, <1>10, <1>11 DEF Shows

\* What shows the leaves piece by piece shows all of them.
LEMMA FlattenShows ==
    ASSUME NEW texts \in Seq(Seq(Pieces)), NEW leaves \in Seq(Seq(Pieces)),
           Len(texts) = Len(leaves),
           \A i \in 1 .. Len(texts) : Shows(texts[i], leaves[i])
    PROVE  Shows(FlattenSeq(texts), FlattenSeq(leaves))
<1>1. CASE Len(texts) = 0
  <2>1. texts = << >> /\ leaves = << >>
    BY <1>1, EmptySeq
  <2>2. FlattenSeq(texts) = texts /\ FlattenSeq(leaves) = leaves
    BY Zenon, <1>1 DEF FlattenSeq
  <2> QED BY Zenon, <2>1, <2>2, NothingShows
<1>2. CASE Len(texts) # 0
  <2> DEFINE N == Len(texts)
  <2>1. N \in Nat \ {0} /\ Len(leaves) \in Nat \ {0} /\ N \in 1 .. N /\ 1 \in 1 .. N
    BY <1>2
  <2>2. PICK f :
          /\ f[1] = texts[1]
          /\ \A n \in 2 .. Len(texts) : f[n] = f[n - 1] \o texts[n]
          /\ FlattenSeq(texts) = f[Len(texts)]
    BY <2>1, Flattening
  <2>3. PICK g :
          /\ g[1] = leaves[1]
          /\ \A n \in 2 .. Len(leaves) : g[n] = g[n - 1] \o leaves[n]
          /\ FlattenSeq(leaves) = g[Len(leaves)]
    BY <2>1, Flattening
  <2>4. /\ \A n \in 2 .. N : f[n] = f[n - 1] \o texts[n] /\ g[n] = g[n - 1] \o leaves[n]
        /\ FlattenSeq(texts) = f[N] /\ FlattenSeq(leaves) = g[N]
    BY Zenon, <2>2, <2>3
  <2> HIDE DEF N
  <2> DEFINE Bad == {n \in 1 .. N : ~ Shows(f[n], g[n])}
  <2>5. Bad = {}
    <3> SUFFICES ASSUME Bad # {}  PROVE FALSE
      OBVIOUS
    <3>1. Bad \in SUBSET Nat
      BY <2>1
    <3>2. PICK n \in Bad : \A m \in Bad : n <= m
      BY <3>1, SmallestExists
    <3>3. n \in 1 .. N /\ ~ Shows(f[n], g[n])
      OBVIOUS
    <3>4. Shows(texts[n], leaves[n])
      BY <3>3 DEF N
    <3>5. CASE n = 1
      BY Zenon, <2>2, <2>3, <3>3, <3>4, <3>5
    <3>6. CASE n # 1
      <4>1. n - 1 \in 1 .. N /\ ~ (n <= n - 1) /\ n \in 2 .. N
        BY <2>1, <3>3, <3>6
      <4>2. Shows(f[n - 1], g[n - 1])
        BY <3>2, <4>1
      <4>3. Shows(f[n - 1] \o texts[n], g[n - 1] \o leaves[n])
        BY Zenon, <3>4, <4>2, JoinsShow
      <4> QED BY Zenon, <2>4, <3>3, <4>1, <4>3
    <3> QED BY <3>5, <3>6
  <2>6. Shows(f[N], g[N])
    BY <2>1, <2>5
  <2> QED BY Zenon, <2>4, <2>6
<1> QED BY <1>1, <1>2

\* Commas between the pieces show nothing.
LEMMA SeparatedShows ==
    ASSUME NEW texts \in Seq(Seq(Pieces)), NEW leaves \in Seq(Seq(Pieces)),
           Len(texts) = Len(leaves),
           \A i \in 1 .. Len(texts) : Shows(texts[i], leaves[i])
    PROVE  Shows(Separated(texts), FlattenSeq(leaves))
<1> DEFINE commas == [i \in DOMAIN texts |->
                         IF i = 1 THEN texts[i] ELSE <<", ">> \o texts[i]]
           N == Len(texts)
<1>1. N \in Nat /\ DOMAIN texts = 1 .. N /\ \A i \in 1 .. N : leaves[i] \in Seq(Pieces)
  OBVIOUS
<1>2. Shows(<<", ">>, << >>)
  BY Zenon, LayoutPieces, LayoutShows
<1>3. ASSUME NEW i \in 1 .. N  PROVE Shows(commas[i], leaves[i])
  <2>1. Shows(<<", ">> \o texts[i], << >> \o leaves[i])
    BY Zenon, <1>2, JoinsShow
  <2>2. << >> \o leaves[i] = leaves[i]
    BY <1>1, ConcatEmptySeq
  <2> QED BY Zenon, <1>1, <2>1, <2>2
<1>4. commas \in Seq(Seq(Pieces)) /\ Len(commas) = N
  <2>1. commas \in [1 .. N -> Seq(Pieces)]
    BY Zenon, <1>1, <1>3 DEF Shows
  <2>2. \A n \in Nat : \A A : \A q \in [1 .. n -> A] : q \in Seq(A) /\ Len(q) = n
    OBVIOUS
  <2> QED BY Zenon, <1>1, <2>1, <2>2
<1> HIDE DEF commas
<1>5. Shows(FlattenSeq(commas), FlattenSeq(leaves))
  BY <1>3, <1>4, FlattenShows
<1> QED BY Zenon, <1>5 DEF Separated, commas

\* What the assumption says of a value and of its parts.
LEMMA ValuesArePrintable ==
    ASSUME NEW v \in Printables
    PROVE  /\ IsPrintable(v) /\ v.text \in Seq(Pieces)
           /\ v.parts \in Seq(Printables)
<1>1. PICK n \in DOMAIN PrintedValues : v \in PrintedValues[n]
  BY DEF Printables
<1>2. /\ IsPrintable(v)
      /\ v.parts \in Seq(UNION {PrintedValues[m] : m \in 1 .. n - 1})
  BY Zenon, <1>1, ValuesAssumption
<1>3. v.text \in Seq(Pieces)
  <2>1. v.text \in Seq(STRING)
    BY Zenon, <1>2 DEF IsPrintable
  <2>2. /\ Len(v.text) \in Nat /\ v.text \in [1 .. Len(v.text) -> STRING]
        /\ DOMAIN v.text = 1 .. Len(v.text)
    BY <2>1
  <2>3. \A i \in DOMAIN v.text : v.text[i] \in Pieces
    <3>1. \A i \in DOMAIN v.text : v.text[i] \in Range(v.text)
      BY Zenon DEF Range
    <3>2. Range(v.text) \in {Range(w.text) : w \in Printables}
      BY Zenon
    <3> QED BY Zenon, <3>1, <3>2 DEF Pieces
  <2>4. v.text \in [1 .. Len(v.text) -> Pieces]
    BY Zenon, <2>2, <2>3
  <2>5. \A n_1 \in Nat : \A A : \A q \in [1 .. n_1 -> A] : q \in Seq(A)
    OBVIOUS
  <2> QED BY Zenon, <2>2, <2>4, <2>5
<1>4. v.parts \in Seq(Printables)
  <2>1. UNION {PrintedValues[m] : m \in 1 .. n - 1} \subseteq Printables
    <3>1. DOMAIN PrintedValues = 1 .. Len(PrintedValues) /\ Len(PrintedValues) \in Nat
      BY ValuesAssumption
    <3>2. \A m \in 1 .. n - 1 : m \in DOMAIN PrintedValues
      BY <1>1, <3>1
    <3> QED BY Zenon, <3>2 DEF Printables
  <2>2. \A A, B : A \subseteq B => Seq(A) \subseteq Seq(B)
    OBVIOUS
  <2> QED BY Zenon, <1>2, <2>1, <2>2
<1> QED BY Zenon, <1>2, <1>3, <1>4

\* A string in quotes, whether it is taken as it is or dumped.
LEMMA StringShows ==
    ASSUME NEW v \in Printables
    PROVE  Shows(PrintString(v), (<<"\"">> \o v.text) \o <<"\"">>)
<1> DEFINE text == v.text
           single == [i \in DOMAIN text |-> <<text[i]>>]
           N == Len(text)
<1>1. text \in Seq(Pieces) /\ \A i \in DOMAIN text : text[i] \notin Layout
  BY Zenon, ValuesArePrintable DEF IsPrintable
<1> HIDE DEF text
<1>2. N \in Nat /\ DOMAIN text = 1 .. N /\ \A i \in 1 .. N : text[i] \in Pieces
  BY <1>1
<1>3. Shows(text, text)
  BY Zenon, <1>1, OwnShows
<1>4. ASSUME NEW i \in 1 .. N  PROVE Shows(single[i], single[i])
  <2>1. PICK p \in Seq(Pieces) : p = <<text[i]>>
    <3>1. <<text[i]>> \in Seq(Pieces)
      BY <1>2
    <3> QED BY Zenon, <3>1
  <2>2. \A k \in DOMAIN p : p[k] = text[i]
    BY <2>1
  <2>3. Shows(p, p)
    BY Zenon, <1>1, <1>2, <2>2, OwnShows
  <2> QED BY Zenon, <1>2, <2>1, <2>3
<1>5. single \in Seq(Seq(Pieces)) /\ Len(single) = N
  <2>1. single \in [1 .. N -> Seq(Pieces)]
    BY Zenon, <1>2, <1>4 DEF Shows
  <2>2. \A n \in Nat : \A A : \A q \in [1 .. n -> A] : q \in Seq(A) /\ Len(q) = n
    OBVIOUS
  <2> QED BY Zenon, <1>2, <2>1, <2>2
<1>6. FlattenSeq(single) = text
  BY <1>1, FlattenSingles
<1> HIDE DEF single
<1>7. Shows(Separated(single), FlattenSeq(single))
  BY <1>4, <1>5, SeparatedShows
<1>8. Shows(Prefix(v.char), << >>)
  <2>1. Prefix(v.char) \in {<< >>, <<"L">>, <<"u8">>, <<"u">>, <<"U">>}
    BY Zenon DEF Prefix
  <2>2. /\ Shows(<<"L">>, << >>) /\ Shows(<<"u8">>, << >>)
        /\ Shows(<<"u">>, << >>) /\ Shows(<<"U">>, << >>)
    BY Zenon, LayoutPieces, LayoutShows
  <2> QED BY Zenon, <2>1, <2>2, NothingShows
<1>9. Shows(<<"\"">>, <<"\"">>)
  BY Zenon, PieceShows
<1>10. PICK quote : quote = <<"\"">>
  BY Zenon
<1>11. << >> \o quote = quote
  <2>1. quote \in Seq(Pieces)
    BY Zenon, <1>9, <1>10 DEF Shows
  <2> QED BY <2>1, ConcatEmptySeq
<1>12. Shows(Prefix(v.char) \o quote, quote)
  <2>1. Shows(Prefix(v.char) \o quote, << >> \o quote)
    BY Zenon, <1>8, <1>9, <1>10, JoinsShow
  <2> QED BY Zenon, <1>11, <2>1
<1>13. \A shown : Shows(shown, text) =>
          Shows(((Prefix(v.char) \o quote) \o shown) \o quote, (quote \o text) \o quote)
  BY Zenon, <1>9, <1>10, <1>12, JoinsShow
<1>14. PICK shown :
          /\ shown = (IF v.char = "char" \/ v.charPrinter THEN text ELSE Separated(single))
          /\ Shows(shown, text)
  BY Zenon, <1>3, <1>6, <1>7
<1>15. PrintString(v) = ((Prefix(v.char) \o quote) \o shown) \o quote
  BY Zenon, <1>10, <1>14 DEF PrintString, text, single
<1> QED BY Zenon, <1>10, <1>13, <1>14, <1>15 DEF text

LEMMA TwoPieces == ASSUME NEW p, NEW q  PROVE <<p>> \o <<q>> = <<p, q>>
<1>1. PICK a \in Seq({p, q}), b \in Seq({p, q}), ab \in Seq({p, q}) :
         a = <<p>> /\ b = <<q>> /\ ab = <<p, q>>
  <2>1. <<p>> \in Seq({p, q}) /\ <<q>> \in Seq({p, q}) /\ <<p, q>> \in Seq({p, q})
    OBVIOUS
  <2> QED BY Zenon, <2>1
<1>2. Len(a) = 1 /\ Len(b) = 1 /\ Len(ab) = 2 /\ a[1] = p /\ b[1] = q /\ ab[1] = p /\ ab[2] = q
  BY <1>1
<1>3. PICK joined : joined = a \o b
  BY Zenon
<1>4. /\ joined \in Seq({p, q}) /\ Len(joined) = 2
      /\ joined[1] = p /\ joined[2] = q
  BY <1>2, <1>3, ConcatProperties
<1>5. joined = ab
  <2>1. \A i \in 1 .. Len(joined) : joined[i] = ab[i]
    <3>1. \A i \in 1 .. 2 : i = 1 \/ i = 2
      OBVIOUS
    <3> QED BY Zenon, <1>2, <1>4, <3>1
  <2> QED BY <1>2, <1>4, <2>1, SeqEqual
<1> QED BY Zenon, <1>1, <1>3, <1>5

\* A value shows its leaves when its parts show theirs: whichever printer
\* the overloads of print come to.
LEMMA PrintShows ==
    ASSUME NEW v \in Printables,
           v.kind = "number" => IsFormattable[v],
           v.kind = "opaque" => ~ IsFormattable[v],
           NEW texts \in Seq(Seq(Pieces)), NEW leaves \in Seq(Seq(Pieces)),
           Len(texts) = Len(v.parts), Len(leaves) = Len(v.parts),
           \A i \in 1 .. Len(texts) : Shows(texts[i], leaves[i])
    PROVE  Shows(PrintOf(v, texts), LeavesOf(v, leaves))
<1>1. /\ v.kind \in Kinds /\ v.custom \in BOOLEAN
      /\ v.text \in Seq(Pieces) /\ \A i \in DOMAIN v.text : v.text[i] \notin Layout
      /\ v.kind = "optional" => Len(v.parts) <= 1
  BY Zenon, ValuesArePrintable DEF IsPrintable
<1>2. Shows(v.text, v.text)
  BY Zenon, <1>1, OwnShows
<1>3. Shows(Separated(texts), FlattenSeq(leaves))
  BY SeparatedShows
<1>4. Shows((<<"{ ">> \o Separated(texts)) \o <<" }">>, FlattenSeq(leaves))
  BY Zenon, <1>3, BracesShow DEF Open, Close
<1>5. CASE v.custom
  <2>1. SelectPrinter(v) = "custom"
    BY Zenon, <1>5 DEF SelectPrinter
  <2>2. PrintOf(v, texts) = v.text
    BY Zenon, <2>1 DEF PrintOf
  <2>3. LeavesOf(v, leaves) = v.text
    BY Zenon, <1>5 DEF LeavesOf
  <2> QED BY Zenon, <1>2, <2>2, <2>3
<1>6. CASE ~ v.custom /\ v.kind = "number"
  <2>1. SelectPrinter(v) = "format"
    BY Zenon, <1>6 DEF SelectPrinter, InternalKinds, RangeKinds
  <2>2. PrintOf(v, texts) = v.text
    BY Zenon, <2>1 DEF PrintOf
  <2>3. LeavesOf(v, leaves) = v.text
    BY Zenon, <1>6 DEF LeavesOf
  <2> QED BY Zenon, <1>2, <2>2, <2>3
<1>7. CASE ~ v.custom /\ v.kind = "opaque"
  <2>1. SelectPrinter(v) = "fallback"
    BY Zenon, <1>7 DEF SelectPrinter, InternalKinds, RangeKinds
  <2>2. PrintOf(v, texts) = <<"{?}">>
    BY Zenon, <2>1 DEF PrintOf
  <2>3. LeavesOf(v, leaves) = <<"{?}">>
    BY Zenon, <1>7 DEF LeavesOf
  <2> QED BY Zenon, <2>2, <2>3, PieceShows
<1>8. CASE ~ v.custom /\ v.kind = "range"
  <2>1. SelectPrinter(v) = "range"
    BY Zenon, <1>8 DEF SelectPrinter, InternalKinds, RangeKinds
  <2>2. PrintOf(v, texts) = (<<"{ ">> \o Separated(texts)) \o <<" }">>
    BY Zenon, <2>1 DEF PrintOf
  <2>3. LeavesOf(v, leaves) = FlattenSeq(leaves)
    BY Zenon, <1>8 DEF LeavesOf
  <2> QED BY Zenon, <1>4, <2>2, <2>3
<1>9. CASE ~ v.custom /\ v.kind \in InternalKinds
  <2>1. SelectPrinter(v) = "internal"
    BY Zenon, <1>9 DEF SelectPrinter
  <2>2. CASE v.kind = "string"
    <3>1. PrintOf(v, texts) = PrintString(v)
      BY Zenon, <2>1, <2>2 DEF PrintOf
    <3>2. LeavesOf(v, leaves) = (<<"\"">> \o v.text) \o <<"\"">>
      BY Zenon, <1>9, <2>2 DEF LeavesOf
    <3>3. Shows(PrintString(v), (<<"\"">> \o v.text) \o <<"\"">>)
      BY StringShows
    <3> QED BY Zenon, <3>1, <3>2, <3>3
  <2>3. CASE v.kind = "pointer"
    <3>1. PrintOf(v, texts) = v.text
      BY Zenon, <2>1, <2>3 DEF PrintOf
    <3>2. LeavesOf(v, leaves) = v.text
      BY Zenon, <2>3 DEF LeavesOf
    <3> QED BY Zenon, <1>2, <3>1, <3>2
  <2>4. CASE v.kind = "nullopt"
    <3>1. PrintOf(v, texts) = <<"nullopt">>
      BY Zenon, <2>1, <2>4 DEF PrintOf
    <3>2. LeavesOf(v, leaves) = <<"nullopt">>
      BY Zenon, <1>9, <2>4 DEF LeavesOf
    <3> QED BY Zenon, <3>1, <3>2, PieceShows
  <2>5. CASE v.kind = "optional" /\ Len(v.parts) = 0
    <3>1. texts = << >> /\ leaves = << >>
      BY <2>5, EmptySeq
    <3>2. PrintOf(v, texts) = <<"nullopt">>
      BY Zenon, <2>1, <2>5, <3>1 DEF PrintOf
    <3>3. LeavesOf(v, leaves) = <<"nullopt">>
      BY Zenon, <1>9, <2>5, <3>1 DEF LeavesOf
    <3> QED BY Zenon, <3>2, <3>3, PieceShows
  <2>6. CASE v.kind = "optional" /\ Len(v.parts) # 0
    <3>1. Len(texts) = 1 /\ Len(leaves) = 1 /\ 1 \in 1 .. Len(texts) /\ Len(leaves) \in Nat \ {0}
      <4>1. Len(v.parts) \in Nat
        BY ValuesArePrintable
      <4>2. PICK n \in Nat : n = Len(v.parts)
        BY Zenon, <4>1
      <4>3. n <= 1 /\ n # 0
        BY Zenon, <1>1, <2>6, <4>2
      <4>4. n = 1
        BY <4>3
      <4>5. Len(texts) = 1 /\ Len(leaves) = 1
        BY Zenon, <4>2, <4>4
      <4> QED BY <4>5
    <3>2. texts # << >> /\ leaves # << >>
      BY <3>1
    <3>3. PICK flat : flat[1] = leaves[1] /\ FlattenSeq(leaves) = flat[Len(leaves)]
      BY <3>1, Flattening
    <3>4. FlattenSeq(leaves) = leaves[1]
      BY Zenon, <3>1, <3>3
    <3>5. LeavesOf(v, leaves) = leaves[1]
      BY Zenon, <1>9, <2>6, <3>2, <3>4 DEF LeavesOf
    <3>6. PrintOf(v, texts) = (<<"{ ", "value: ">> \o texts[1]) \o <<" }">>
      BY Zenon, <2>1, <2>6, <3>2 DEF PrintOf
    <3>7. Shows(texts[1], leaves[1]) /\ Shows(<<"value: ">>, << >>)
      BY Zenon, <3>1, LayoutPieces, LayoutShows
    <3>8. PICK label, text \in Seq(Pieces), leaf \in Seq(Pieces) :
             label = <<"value: ">> /\ text = texts[1] /\ leaf = leaves[1]
      BY Zenon, <3>7 DEF Shows
    <3>9. << >> \o leaf = leaf
      BY ConcatEmptySeq
    <3>10. Shows(label \o text, leaf)
      BY Zenon, <3>7, <3>8, <3>9, JoinsShow
    <3>11. Shows((<<"{ ">> \o (label \o text)) \o <<" }">>, leaf)
      BY Zenon, <3>10, BracesShow DEF Open, Close
    <3>12. <<"{ ", "value: ">> \o text = <<"{ ">> \o (label \o text)
      <4>1. PICK open \in Pieces, value \in Pieces : open = "{ " /\ value = "value: "
        BY Zenon, LayoutPieces DEF Open
      <4>2. <<open, value>> \o text = <<open>> \o (<<value>> \o text)
        <5>1. <<open>> \in Seq(Pieces) /\ <<value>> \in Seq(Pieces)
          OBVIOUS
        <5>2. Associate(<<open>>, <<value>>, text)
          BY Zenon, <5>1, ListsAssociate
        <5>3. <<open>> \o <<value>> = <<open, value>>
          BY TwoPieces
        <5> QED BY Zenon, <5>2, <5>3 DEF Associate
      <4> QED BY Zenon, <3>8, <4>1, <4>2
    <3> QED BY Zenon, <3>5, <3>6, <3>8, <3>11, <3>12
  <2>7. CASE v.kind \in {"tuple", "array"}
    <3>1. PrintOf(v, texts) = (<<"{ ">> \o Separated(texts)) \o <<" }">>
      BY Zenon, <2>1, <2>7 DEF PrintOf
    <3>2. LeavesOf(v, leaves) = FlattenSeq(leaves)
      BY Zenon, <1>9, <2>7 DEF LeavesOf
    <3> QED BY Zenon, <1>4, <3>1, <3>2
  <2> QED BY Zenon, <1>9, <2>2, <2>3, <2>4, <2>5, <2>6, <2>7 DEF InternalKinds
<1> QED BY Zenon, <1>1, <1>5, <1>6, <1>7, <1>8, <1>9 DEF Kinds, RangeKinds, InternalKinds

-----------------------------------------------------------------------------
(* The recursion over the parts of a value *)

\* The first n levels of values.
Level(n) == UNION {PrintedValues[m] : m \in 1 .. n}

Levels == Len(PrintedValues)

LEMMA PartsAreBelow ==
    /\ Levels \in Nat /\ Level(0) = {} /\ Level(Levels) = Printables
    /\ \A n \in 1 .. Levels : \A v \in Level(n) : v.parts \in Seq(Level(n - 1))
<1>1. Levels \in Nat /\ DOMAIN PrintedValues = 1 .. Levels
  BY ValuesAssumption DEF Levels
<1>2. Level(0) = {}
  <2>1. \A m : m \notin 1 .. 0
    OBVIOUS
  <2> QED BY Zenon, <2>1 DEF Level
<1>3. Level(Levels) = Printables
  BY Zenon, <1>1 DEF Level, Printables
<1>4. ASSUME NEW n \in 1 .. Levels, NEW v \in Level(n)
      PROVE  v.parts \in Seq(Level(n - 1))
  <2>1. PICK m \in 1 .. n : v \in PrintedValues[m]
    BY Zenon DEF Level
  <2>2. m \in 1 .. Levels
    BY <1>1
  <2>3. v.parts \in Seq(Level(m - 1))
    BY Zenon, <1>1, <2>1, <2>2, ValuesAssumption DEF Level
  <2>4. \A k \in 1 .. m - 1 : k \in 1 .. n - 1
    BY <1>1
  <2>5. Level(m - 1) \subseteq Level(n - 1)
    BY Zenon, <2>4 DEF Level
  <2>6. \A A, B : A \subseteq B => Seq(A) \subseteq Seq(B)
    OBVIOUS
  <2> QED BY Zenon, <2>3, <2>5, <2>6
<1> QED BY Zenon, <1>1, <1>2, <1>3, <1>4

\* What the three recursive functions make of a value, of what they made of
\* its parts.
MadeOf(made, v) ==
    [formattable |-> FormattableOf(v, [i \in DOMAIN v.parts |-> made[v.parts[i]].formattable]),
     text |-> PrintOf(v, [i \in DOMAIN v.parts |-> made[v.parts[i]].text]),
     leaves |-> LeavesOf(v, [i \in DOMAIN v.parts |-> made[v.parts[i]].leaves])]

MadeFields(made, v) ==
    /\ MadeOf(made, v).formattable
          = FormattableOf(v, [i \in DOMAIN v.parts |-> made[v.parts[i]].formattable])
    /\ MadeOf(made, v).text = PrintOf(v, [i \in DOMAIN v.parts |-> made[v.parts[i]].text])
    /\ MadeOf(made, v).leaves
          = LeavesOf(v, [i \in DOMAIN v.parts |-> made[v.parts[i]].leaves])

LEMMA FieldsOfMade == \A made, v : MadeFields(made, v)
BY Zenon DEF MadeFields, MadeOf

\* It depends on the parts only.
LEMMA MadeOfParts ==
    ASSUME NEW f, NEW g, NEW v, \A i \in DOMAIN v.parts : f[v.parts[i]] = g[v.parts[i]]
    PROVE  MadeOf(f, v) = MadeOf(g, v)
<1>1. /\ [i \in DOMAIN v.parts |-> f[v.parts[i]].formattable]
            = [i \in DOMAIN v.parts |-> g[v.parts[i]].formattable]
      /\ [i \in DOMAIN v.parts |-> f[v.parts[i]].text]
            = [i \in DOMAIN v.parts |-> g[v.parts[i]].text]
      /\ [i \in DOMAIN v.parts |-> f[v.parts[i]].leaves]
            = [i \in DOMAIN v.parts |-> g[v.parts[i]].leaves]
  BY Zenon
<1> QED BY Zenon, <1>1 DEF MadeOf

\* Level by level, all values can be made.
LEMMA AllAreMade == \E made : \A v \in Printables : made[v] = MadeOf(made, v)
<1> DEFINE Good(n) == \E made : \A v \in Level(n) : made[v] = MadeOf(made, v)
           Bad == {n \in 0 .. Levels : ~ Good(n)}
<1>1. Bad = {}
  <2> SUFFICES ASSUME Bad # {}  PROVE FALSE
    OBVIOUS
  <2> HIDE DEF Good
  <2>1. Bad \in SUBSET Nat
    BY PartsAreBelow
  <2>2. PICK n \in Bad : \A m \in Bad : n <= m
    BY <2>1, SmallestExists
  <2>3. n \in 0 .. Levels /\ ~ Good(n)
    OBVIOUS
  <2>4. CASE n = 0
    BY Zenon, <2>3, <2>4, PartsAreBelow DEF Good
  <2>5. CASE n # 0
    <3>1. n - 1 \in 0 .. Levels /\ ~ (n <= n - 1) /\ n \in 1 .. Levels
      BY <2>3, <2>5, PartsAreBelow
    <3>2. Good(n - 1)
      BY <2>2, <3>1
    <3>3. PICK below : \A v \in Level(n - 1) : below[v] = MadeOf(below, v)
      BY Zenon, <3>2 DEF Good
    <3>4. \A k \in 1 .. n - 1 : k \in 1 .. n
      BY <3>1
    <3>5. Level(n - 1) \subseteq Level(n)
      BY Zenon, <3>4 DEF Level
    <3> DEFINE made == [v \in Level(n) |-> MadeOf(below, v)]
    <3>6. \A v \in Level(n - 1) : made[v] = below[v]
      BY Zenon, <3>3, <3>5
    <3>7. \A v \in Level(n) : made[v] = MadeOf(below, v)
      BY Zenon
    <3> HIDE DEF made
    <3>8. ASSUME NEW v \in Level(n)  PROVE made[v] = MadeOf(made, v)
      <4>1. v.parts \in Seq(Level(n - 1))
        BY Zenon, <3>1, PartsAreBelow
      <4>2. \A i \in DOMAIN v.parts : v.parts[i] \in Level(n - 1)
        BY <4>1
      <4>3. \A i \in DOMAIN v.parts : made[v.parts[i]] = below[v.parts[i]]
        BY Zenon, <3>6, <4>2
      <4>4. MadeOf(made, v) = MadeOf(below, v)
        BY <4>3, MadeOfParts
      <4> QED BY Zenon, <3>7, <4>4
    <3> QED BY Zenon, <2>3, <3>8 DEF Good
  <2> QED BY <2>4, <2>5
<1>2. Good(Levels)
  <2> HIDE DEF Good
  <2>1. Levels \in 0 .. Levels
    BY PartsAreBelow
  <2> QED BY <1>1, <2>1
<1> QED BY Zenon, <1>2, PartsAreBelow

\* So the functions satisfy the equations that define them.
EquationsOf(v) ==
    /\ IsFormattable[v]
         = FormattableOf(v, [i \in DOMAIN v.parts |-> IsFormattable[v.parts[i]]])
    /\ PrintValue[v] = PrintOf(v, [i \in DOMAIN v.parts |-> PrintValue[v.parts[i]]])
    /\ Leaves[v] = LeavesOf(v, [i \in DOMAIN v.parts |-> Leaves[v.parts[i]]])

LEMMA EquationsHold == \A v \in Printables : EquationsOf(v)
<1>1. PICK made : \A w \in Printables : made[w] = MadeOf(made, w)
  BY Zenon, AllAreMade
<1>2. \A w \in Printables : \A i \in DOMAIN w.parts : w.parts[i] \in Printables
  <2> SUFFICES ASSUME NEW w \in Printables
               PROVE  \A i \in DOMAIN w.parts : w.parts[i] \in Printables
    OBVIOUS
  <2>1. w.parts \in Seq(Printables)
    BY ValuesArePrintable
  <2> QED BY <2>1
<1>3. IsFormattable = [w \in Printables |->
         FormattableOf(w, [i \in DOMAIN w.parts |-> IsFormattable[w.parts[i]]])]
  <2> DEFINE f == [w \in Printables |-> made[w].formattable]
  <2>1. \A w \in Printables : f[w] = made[w].formattable
    BY Zenon
  <2>2. f = [w \in Printables |-> f[w]]
    BY Zenon, <2>1
  <2> HIDE DEF f
  <2>3. ASSUME NEW w \in Printables
        PROVE  f[w] = FormattableOf(w, [i \in DOMAIN w.parts |-> f[w.parts[i]]])
    <3>1. [i \in DOMAIN w.parts |-> f[w.parts[i]]]
             = [i \in DOMAIN w.parts |-> made[w.parts[i]].formattable]
      BY Zenon, <1>2, <2>1
    <3>2. MadeFields(made, w)
      BY Zenon, FieldsOfMade
    <3>3. made[w].formattable = FormattableOf(w, [i \in DOMAIN w.parts |-> made[w.parts[i]].formattable])
      BY Zenon, <1>1, <3>2 DEF MadeFields
    <3> QED BY Zenon, <2>1, <3>1, <3>3
  <2>4. f = [w \in Printables |->
                FormattableOf(w, [i \in DOMAIN w.parts |-> f[w.parts[i]]])]
    BY Zenon, <2>2, <2>3
  <2> QED BY Zenon, <2>4 DEF IsFormattable
<1>4. PrintValue = [w \in Printables |->
         PrintOf(w, [i \in DOMAIN w.parts |-> PrintValue[w.parts[i]]])]
  <2> DEFINE f == [w \in Printables |-> made[w].text]
  <2>1. \A w \in Printables : f[w] = made[w].text
    BY Zenon
  <2>2. f = [w \in Printables |-> f[w]]
    BY Zenon, <2>1
  <2> HIDE DEF f
  <2>3. ASSUME NEW w \in Printables
        PROVE  f[w] = PrintOf(w, [i \in DOMAIN w.parts |-> f[w.parts[i]]])
    <3>1. [i \in DOMAIN w.parts |-> f[w.parts[i]]]
             = [i \in DOMAIN w.parts |-> made[w.parts[i]].text]
      BY Zenon, <1>2, <2>1
    <3>2. MadeFields(made, w)
      BY Zenon, FieldsOfMade
    <3>3. made[w].text = PrintOf(w, [i \in DOMAIN w.parts |-> made[w.parts[i]].text])
      BY Zenon, <1>1, <3>2 DEF MadeFields
    <3> QED BY Zenon, <2>1, <3>1, <3>3
  <2>4. f = [w \in Printables |-> PrintOf(w, [i \in DOMAIN w.parts |-> f[w.parts[i]]])]
    BY Zenon, <2>2, <2>3
  <2> QED BY Zenon, <2>4 DEF PrintValue
<1>5. Leaves = [w \in Printables |->
         LeavesOf(w, [i \in DOMAIN w.parts |-> Leaves[w.parts[i]]])]
  <2> DEFINE f == [w \in Printables |-> made[w].leaves]
  <2>1. \A w \in Printables : f[w] = made[w].leaves
    BY Zenon
  <2>2. f = [w \in Printables |-> f[w]]
    BY Zenon, <2>1
  <2> HIDE DEF f
  <2>3. ASSUME NEW w \in Printables
        PROVE  f[w] = LeavesOf(w, [i \in DOMAIN w.parts |-> f[w.parts[i]]])
    <3>1. [i \in DOMAIN w.parts |-> f[w.parts[i]]]
             = [i \in DOMAIN w.parts |-> made[w.parts[i]].leaves]
      BY Zenon, <1>2, <2>1
    <3>2. MadeFields(made, w)
      BY Zenon, FieldsOfMade
    <3>3. made[w].leaves = LeavesOf(w, [i \in DOMAIN w.parts |-> made[w.parts[i]].leaves])
      BY Zenon, <1>1, <3>2 DEF MadeFields
    <3> QED BY Zenon, <2>1, <3>1, <3>3
  <2>4. f = [w \in Printables |-> LeavesOf(w, [i \in DOMAIN w.parts |-> f[w.parts[i]]])]
    BY Zenon, <2>2, <2>3
  <2> QED BY Zenon, <2>4 DEF Leaves
<1>6. ASSUME NEW v \in Printables
      PROVE  IsFormattable[v]
                = FormattableOf(v, [i \in DOMAIN v.parts |-> IsFormattable[v.parts[i]]])
  <2> DEFINE e(w) == FormattableOf(w, [i \in DOMAIN w.parts |-> IsFormattable[w.parts[i]]])
  <2>1. PICK f : f = IsFormattable
    BY Zenon
  <2>2. f = [w \in Printables |-> e(w)]
    BY Zenon, <1>3, <2>1
  <2> HIDE DEF e
  <2>3. f[v] = e(v)
    BY Zenon, <2>2
  <2> QED BY Zenon, <2>1, <2>3 DEF e
<1>7. ASSUME NEW v \in Printables
      PROVE  PrintValue[v] = PrintOf(v, [i \in DOMAIN v.parts |-> PrintValue[v.parts[i]]])
  <2> DEFINE e(w) == PrintOf(w, [i \in DOMAIN w.parts |-> PrintValue[w.parts[i]]])
  <2>1. PICK f : f = PrintValue
    BY Zenon
  <2>2. f = [w \in Printables |-> e(w)]
    BY Zenon, <1>4, <2>1
  <2> HIDE DEF e
  <2>3. f[v] = e(v)
    BY Zenon, <2>2
  <2> QED BY Zenon, <2>1, <2>3 DEF e
<1>8. ASSUME NEW v \in Printables
      PROVE  Leaves[v] = LeavesOf(v, [i \in DOMAIN v.parts |-> Leaves[v.parts[i]]])
  <2> DEFINE e(w) == LeavesOf(w, [i \in DOMAIN w.parts |-> Leaves[w.parts[i]]])
  <2>1. PICK f : f = Leaves
    BY Zenon
  <2>2. f = [w \in Printables |-> e(w)]
    BY Zenon, <1>5, <2>1
  <2> HIDE DEF e
  <2>3. f[v] = e(v)
    BY Zenon, <2>2
  <2> QED BY Zenon, <2>1, <2>3 DEF e
<1> QED BY Zenon, <1>6, <1>7, <1>8 DEF EquationsOf

\* Whatever a value is made of, however deep, its text shows its leaves.
LEMMA ValuesShow ==
    ASSUME NEW v \in Printables
    PROVE  Shows(PrintValue[v], Leaves[v])
<1> DEFINE Good(n) == \A w \in Level(n) : Shows(PrintValue[w], Leaves[w])
           Bad == {n \in 0 .. Levels : ~ Good(n)}
<1>1. Bad = {}
  <2> SUFFICES ASSUME Bad # {}  PROVE FALSE
    OBVIOUS
  <2> HIDE DEF Good
  <2>1. Bad \in SUBSET Nat
    BY PartsAreBelow
  <2>2. PICK n \in Bad : \A m \in Bad : n <= m
    BY <2>1, SmallestExists
  <2>3. n \in 0 .. Levels /\ ~ Good(n)
    OBVIOUS
  <2>4. CASE n = 0
    BY Zenon, <2>3, <2>4, PartsAreBelow DEF Good
  <2>5. CASE n # 0
    <3>1. n - 1 \in 0 .. Levels /\ ~ (n <= n - 1) /\ n \in 1 .. Levels
      BY <2>3, <2>5, PartsAreBelow
    <3>2. Good(n - 1)
      BY <2>2, <3>1
    <3>3. PICK w \in Level(n) : ~ Shows(PrintValue[w], Leaves[w])
      BY Zenon, <2>3 DEF Good
    <3>4. w.parts \in Seq(Level(n - 1)) /\ w \in Printables
      <4>1. \A k \in 1 .. n : k \in 1 .. Levels
        BY <3>1, PartsAreBelow
      <4>2. Level(n) \subseteq Level(Levels)
        BY Zenon, <4>1 DEF Level
      <4> QED BY Zenon, <3>1, <4>2, PartsAreBelow
    <3> DEFINE N == Len(w.parts)
               texts == [i \in DOMAIN w.parts |-> PrintValue[w.parts[i]]]
               leaves == [i \in DOMAIN w.parts |-> Leaves[w.parts[i]]]
    <3>5. N \in Nat /\ DOMAIN w.parts = 1 .. N /\ \A i \in 1 .. N : w.parts[i] \in Level(n - 1)
      BY <3>4
    <3>6. \A i \in 1 .. N : Shows(texts[i], leaves[i])
      BY Zenon, <3>2, <3>5 DEF Good
    <3>7. texts \in [1 .. N -> Seq(Pieces)] /\ leaves \in [1 .. N -> Seq(Pieces)]
      BY Zenon, <3>5, <3>6 DEF Shows
    <3>8. /\ texts \in Seq(Seq(Pieces)) /\ Len(texts) = N
          /\ leaves \in Seq(Seq(Pieces)) /\ Len(leaves) = N
      <4>1. \A m \in Nat : \A A : \A q \in [1 .. m -> A] : q \in Seq(A) /\ Len(q) = m
        OBVIOUS
      <4> QED BY Zenon, <3>5, <3>7, <4>1
    <3>9. PrintValue[w] = PrintOf(w, texts) /\ Leaves[w] = LeavesOf(w, leaves)
      BY Zenon, <3>4, EquationsHold DEF EquationsOf
    <3>10. /\ w.kind = "number" => IsFormattable[w]
           /\ w.kind = "opaque" => ~ IsFormattable[w]
      <4>1. PICK parts : IsFormattable[w] = FormattableOf(w, parts)
        BY Zenon, <3>4, EquationsHold DEF EquationsOf
      <4>2. w.kind = "number" => FormattableOf(w, parts)
        BY Zenon DEF FormattableOf
      <4>3. w.kind = "opaque" => ~ FormattableOf(w, parts)
        BY Zenon DEF FormattableOf
      <4> QED BY Zenon, <4>1, <4>2, <4>3
    <3> HIDE DEF texts, leaves, N
    <3>11. Len(texts) = Len(w.parts) /\ Len(leaves) = Len(w.parts)
           /\ \A i \in 1 .. Len(texts) : Shows(texts[i], leaves[i])
      BY Zenon, <3>6, <3>8 DEF N
    <3>12. Shows(PrintOf(w, texts), LeavesOf(w, leaves))
      BY <3>4, <3>8, <3>10, <3>11, PrintShows
    <3> QED BY Zenon, <3>3, <3>9, <3>12
  <2> QED BY <2>4, <2>5
<1>2. Good(Levels)
  <2> HIDE DEF Good
  <2>1. Levels \in 0 .. Levels
    BY PartsAreBelow
  <2> QED BY <1>1, <2>1
<1> QED BY Zenon, <1>2, PartsAreBelow

\* print picks among overlapping overloads by priority; still the text of
\* every value a report has, however deep its parts are nested and whatever
\* std::format knows, shows its parts in order, strings as text, {?} for
\* nothing but what nobody can print, in balanced braces.
THEOREM TextsShowValues == Spec => []TextShowsTheValue
<1>1. SampleInput => TextShowsTheValue
  <2> SUFFICES ASSUME SampleInput, Is("print")
               PROVE  /\ Content(PrintValue[sample.value]) = Leaves[sample.value]
                      /\ Balanced(PrintValue[sample.value])
    BY Zenon DEF TextShowsTheValue
  <2>1. PICK v \in Printables : v = sample.value
    BY Zenon DEF SampleInput
  <2>2. Shows(PrintValue[v], Leaves[v])
    BY ValuesShow
  <2>3. PICK text \in Seq(Pieces) : text = PrintValue[v]
    BY Zenon, <2>2 DEF Shows
  <2>4. Balanced(text) <=> BalancedBy(text, "{ ", " }")
    BY BalancedByBraces
  <2> QED BY Zenon, <2>1, <2>2, <2>3, <2>4 DEF Shows, Open, Close
<1> QED BY <1>1, SamplesAreInputs, PTL
=============================================================================
