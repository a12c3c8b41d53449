------------------------------ MODULE Matchers ------------------------------
(***************************************************************************)
(* The matchers on values, floating point numbers and ranges (matchers/):  *)
(* PredicateMatcher with its inversion, and the predicates and the format  *)
(* strings it is built with.  Numbers are finite, infinite or not a        *)
(* number; the finite ones are small integers, on which floating point     *)
(* arithmetic is exact.                                                    *)
(***************************************************************************)
EXTENDS Integers, Sequences, FiniteSets, SequencesExt

-----------------------------------------------------------------------------
(* Floating point numbers *)

Finite(n) == [class |-> "finite", value |-> n]
NotANumber == [class |-> "nan", value |-> 0]
PlusInfinity == [class |-> "infinite", value |-> 1]
MinusInfinity == [class |-> "infinite", value |-> -1]

IsNaN(x) == x.class = "nan"
IsInf(x) == x.class = "infinite"

\* operator< and operator==: no comparison with NaN holds.
Less(x, y) ==
    /\ ~ IsNaN(x) /\ ~ IsNaN(y)
    /\ CASE IsInf(x) /\ IsInf(y) -> x.value < y.value
         [] IsInf(x) /\ ~ IsInf(y) -> x.value < 0
         [] ~ IsInf(x) /\ IsInf(y) -> 0 < y.value
         [] OTHER -> x.value < y.value
Equal(x, y) == x = y /\ ~ IsNaN(x)
LessEqual(x, y) == Less(x, y) \/ Equal(x, y)

Negate(x) == [x EXCEPT !.value = - @]
Abs(x) == IF x.value < 0 THEN Negate(x) ELSE x

Minus(x, y) ==
    CASE IsNaN(x) \/ IsNaN(y) \/ (IsInf(x) /\ x = y) -> NotANumber
      [] IsInf(x) /\ x # y -> x
      [] ~ IsNaN(x) /\ ~ IsInf(x) /\ IsInf(y) -> Negate(y)
      [] x.class = "finite" /\ y.class = "finite" -> Finite(x.value - y.value)

\* Multiplication with a finite number above 0.
Scale(n, x) == IF x.class = "finite" THEN Finite(n * x.value) ELSE x

\* std::max: the first unless it is less than the second.
StdMax(x, y) == IF Less(x, y) THEN y ELSE x

-----------------------------------------------------------------------------
(* PredicateMatcher.  fn names the predicate, inverted says whether        *)
(* std::not_fn is around it, arg is what is stored with it: a number, a    *)
(* pair of them, a range or a matcher.                                     *)

PredicateMatcher(fn, format, invertedFormat, arg) ==
    [fn |-> fn, inverted |-> FALSE, format |-> format,
     invertedFormat |-> invertedFormat, arg |-> arg]

\* Faulty: the format strings stay where they are.
MakeInvertedSameText(m) == [m EXCEPT !.inverted = ~ @]

\* operator! on lvalues and rvalues, by make_inverted.
MakeInverted(m) ==
    [m EXCEPT !.inverted = ~ @, !.format = m.invertedFormat, !.invertedFormat = m.format]

Nothing == 0

Eq(v) == PredicateMatcher("equal_to", "== {}", "!= {}", v)
Ne(v) == PredicateMatcher("not_equal_to", "!= {}", "== {}", v)
Lt(v) == PredicateMatcher("less", "< {}", ">= {}", v)
Le(v) == PredicateMatcher("less_equal", "<= {}", "> {}", v)
Gt(v) == PredicateMatcher("greater", "> {}", "<= {}", v)
Ge(v) == PredicateMatcher("greater_equal", ">= {}", "< {}", v)
NaN == PredicateMatcher("isnan", "is not a number (NaN)", "is a number", Nothing)

\* predicate(f, description, invertedDescription), here of the evenness of a
\* finite number.
Predicate == PredicateMatcher("test", "passes predicate", "fails predicate", Nothing)

\* check_fp_value and check_fp_epsilon throw for anything else.
ApproxConstructible(value, epsilon) ==
    /\ value.class = "finite"
    /\ epsilon.class = "finite" /\ epsilon.value > 0

ApproxAbs(value, epsilon) ==
    PredicateMatcher("approx_abs", "is approximately {} +- {}",
                     "is not approximately {} +- {}", <<value, epsilon>>)

\* The relative epsilon is epsilon / 2: all numbers are taken twice.
ApproxRel(value, epsilon) ==
    PredicateMatcher("approx_rel", "is approximately {} +- ({} * max(|lhs|, |rhs|))",
                     "is not approximately {} +- ({} * max(|lhs|, |rhs|))",
                     <<value, epsilon>>)

RangeEq(range) ==
    PredicateMatcher("equal", "elements are {}", "elements are not {}", range)
UnorderedEq(range) ==
    PredicateMatcher("is_permutation", "is a permutation of {}",
                     "is not a permutation of {}", range)
IsSortedRange ==
    PredicateMatcher("is_sorted", "is a sorted range", "is an unsorted range", Nothing)
IsEmptyRange ==
    PredicateMatcher("empty", "is an empty range", "is not an empty range", Nothing)
HasSize(n) ==
    PredicateMatcher("size", "has size of {}", "has different size than {}", n)
EachElement(m) ==
    PredicateMatcher("all_of", "each el in range: el {}", "not each el in range: el {}", m)
AnyElement(m) ==
    PredicateMatcher("any_of", "any el in range: el {}", "none el in range: el {}", m)

-----------------------------------------------------------------------------
(* matches() *)

ApproxAbsMatches(target, value, epsilon) ==
    LessEqual(Abs(Minus(target, value)), epsilon)

\* Faulty: infinite targets are not sorted out.
ApproxRelOfAny(target, value, epsilon) ==
    LessEqual(Scale(2, Abs(Minus(target, value))),
              Scale(epsilon.value, StdMax(Abs(target), Abs(value))))

ApproxRelMatches(target, value, epsilon) ==
    /\ ~ IsInf(target)
    /\ LessEqual(Scale(2, Abs(Minus(target, value))),
                 Scale(epsilon.value, StdMax(Abs(target), Abs(value))))

\* The predicates on a single number.
ValuePredicate(m, target) ==
    CASE m.fn = "equal_to" -> Equal(target, m.arg)
      [] m.fn = "not_equal_to" -> ~ Equal(target, m.arg)
      [] m.fn = "less" -> Less(target, m.arg)
      [] m.fn = "less_equal" -> LessEqual(target, m.arg)
      [] m.fn = "greater" -> Less(m.arg, target)
      [] m.fn = "greater_equal" -> LessEqual(m.arg, target)
      [] m.fn = "isnan" -> IsNaN(target)
      [] m.fn = "test" -> target.class = "finite" /\ target.value % 2 = 0
      [] m.fn = "approx_abs" -> ApproxAbsMatches(target, m.arg[1], m.arg[2])
      [] m.fn = "approx_rel" -> ApproxRelMatches(target, m.arg[1], m.arg[2])

\* The matcher of a value, a wildcard or not.
ValueMatches(m, target) == ValuePredicate(m, target) # m.inverted

\* How often x occurs in a range.
Occurrences(range, x) == Cardinality({i \in DOMAIN range : Equal(range[i], x)})

\* The predicates on a range of numbers: std::ranges::equal, is_permutation
\* (each element of one occurs as often in the other), is_sorted (no element
\* is less than the one before), empty, size, all_of and any_of.
RangePredicate(m, target) ==
    CASE m.fn = "equal" ->
            /\ Len(target) = Len(m.arg)
            /\ \A i \in DOMAIN target : Equal(target[i], m.arg[i])
      [] m.fn = "is_permutation" ->
            /\ Len(target) = Len(m.arg)
            /\ \A x \in Range(target) :
                  Occurrences(target, x) = Occurrences(m.arg, x)
      [] m.fn = "is_sorted" ->
            \A i \in 2 .. Len(target) : ~ Less(target[i], target[i - 1])
      [] m.fn = "empty" -> target = << >>
      [] m.fn = "size" -> Len(target) = m.arg
      [] m.fn = "all_of" -> \A i \in DOMAIN target : ValueMatches(m.arg, target[i])
      [] m.fn = "any_of" -> \E i \in DOMAIN target : ValueMatches(m.arg, target[i])

RangeMatches(m, target) == RangePredicate(m, target) # m.inverted

\* describe(): the format, and what is printed into it; a stored matcher is
\* printed as its description.
Describe(m) ==
    [format |-> m.format,
     arg |-> IF m.fn \in {"all_of", "any_of"}
             THEN [format |-> m.arg.format, arg |-> m.arg.arg] ELSE m.arg]

-----------------------------------------------------------------------------
(* What a reader understands by a description.                             *)

ValueMeaning(d, target) ==
    CASE d.format = "== {}" -> Equal(target, d.arg)
      [] d.format = "!= {}" -> ~ Equal(target, d.arg)
      [] d.format = "< {}" -> Less(target, d.arg)
      [] d.format = "<= {}" -> LessEqual(target, d.arg)
      [] d.format = "> {}" -> Less(d.arg, target)
      [] d.format = ">= {}" -> LessEqual(d.arg, target)
      [] d.format = "is not a number (NaN)" -> IsNaN(target)
      [] d.format = "is a number" -> ~ IsNaN(target)
      [] d.format = "passes predicate" -> target.class = "finite" /\ target.value % 2 = 0
      [] d.format = "fails predicate" -> ~ (target.class = "finite" /\ target.value % 2 = 0)

Numbers(range) == ToBag(range)

RangeMeaning(d, target) ==
    CASE d.format = "elements are {}" -> target = d.arg
      [] d.format = "elements are not {}" -> target # d.arg
      [] d.format = "is a permutation of {}" -> Numbers(target) = Numbers(d.arg)
      [] d.format = "is not a permutation of {}" -> Numbers(target) # Numbers(d.arg)
      [] d.format = "is a sorted range" ->
            \A i, j \in DOMAIN target : i < j => LessEqual(target[i], target[j])
      [] d.format = "is an unsorted range" ->
            \E i, j \in DOMAIN target : i < j /\ Less(target[j], target[i])
      [] d.format = "is an empty range" -> DOMAIN target = {}
      [] d.format = "is not an empty range" -> DOMAIN target # {}
      [] d.format = "has size of {}" -> Cardinality(DOMAIN target) = d.arg
      [] d.format = "has different size than {}" -> Cardinality(DOMAIN target) # d.arg
      [] d.format = "each el in range: el {}" ->
            \A x \in Range(target) : ValueMeaning(d.arg, x)
      [] d.format = "not each el in range: el {}" ->
            \E x \in Range(target) : ~ ValueMeaning(d.arg, x)
      [] d.format = "any el in range: el {}" ->
            \E x \in Range(target) : ValueMeaning(d.arg, x)
      [] d.format = "none el in range: el {}" ->
            \A x \in Range(target) : ~ ValueMeaning(d.arg, x)

=============================================================================
