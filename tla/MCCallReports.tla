--------------------------- MODULE MCCallReports ---------------------------
(* CallReports for TLC: a function of two parameters with a const noexcept *)
(* overload and one that may throw, and expectations that differ in what   *)
(* can go wrong with them.                                                 *)
EXTENDS CallReports

CONSTANTS lazy1

MCIdentity == [v \in 0 .. 9 |-> v]
Negation == [v \in 0 .. 9 |-> -v]

MayThrow == [category |-> {"lvalue", "rvalue"}, constness |-> {"non_const"}, noexcept |-> FALSE]
NoThrow == [category |-> {"lvalue", "rvalue"}, constness |-> {"as_const"}, noexcept |-> TRUE]

MCOverloads == {MayThrow, NoThrow}
MCInputs == {<<1, 2>>, <<2, 1>>}

Wildcard == [accepts |-> {<<1>>, <<2>>}, throwsOn |-> {}, text |-> "_", printable |-> TRUE]
One == [accepts |-> {<<1>>}, throwsOn |-> {}, text |-> "== 1", printable |-> TRUE]
OneOrThrow == [One EXCEPT !.throwsOn = {<<2>>}, !.text = "checked == 1"]
Unprintable == [One EXCEPT !.printable = FALSE, !.throwsOn = {<<2>>}]
\* Of the second argument, negated, and the first.
Ordered == [accepts |-> {<<-2, 1>>, <<-1, 2>>}, throwsOn |-> {}, text |-> "ordered",
            printable |-> TRUE]

MatcherArg(m) == [is |-> "matcher", matcher |-> m]
ValueArg(v) == [is |-> "value", value |-> v]

Recipe(args, overload, parts) == [args |-> args, overload |-> overload, parts |-> parts]
Adds(param, n) == [param |-> param, adds |-> n, throws |-> FALSE]
ThrowingAction == [param |-> 0, adds |-> 0, throws |-> TRUE]

MCRecipes == {
    \* A value and a wildcard; the same answer every time.
    Recipe(<<ValueArg(1), MatcherArg(Wildcard)>>, MayThrow,
           <<TimesPart(1, 2), FinalizerPart(Returns(7))>>),
    \* In a sequence; side effects on arguments, through an alias too.
    Recipe(<<MatcherArg(Wildcard), MatcherArg(Wildcard)>>, MayThrow,
           <<SequencePart(<<lazy1>>), PolicyPart(SideEffectAction(Adds(2, 1), <<0, 1>>)),
             PolicyPart(ArgsRequirement(Ordered, <<1, 0>>,
                        ExpandTuple(<<Negation>>, 2, MCIdentity))),
             FinalizerPart(ReturnsArg(1)),
             PolicyPart(SideEffectAction(Adds(2, 3), AllArgs(<<1, 2>>)))>>),
    \* In the same sequence, through the noexcept overload; may be skipped.
    Recipe(<<MatcherArg(Wildcard), ValueArg(2)>>, NoThrow,
           <<FinalizerPart(ThrowsException), TimesPart(0, 1), SequencePart(<<lazy1>>)>>),
    \* A matcher that throws.
    Recipe(<<MatcherArg(OneOrThrow), MatcherArg(Wildcard)>>, MayThrow,
           <<FinalizerPart(ThrowsException)>>),
    \* A matcher that throws and cannot be printed.
    Recipe(<<MatcherArg(Unprintable), MatcherArg(Wildcard)>>, NoThrow,
           <<FinalizerPart(ReturnsArg(0))>>),
    \* A side effect that throws.
    Recipe(<<MatcherArg(Wildcard), MatcherArg(One)>>, MayThrow,
           <<PolicyPart(SideEffectAction(ThrowingAction, << >>)), TimesPart(1, 1),
             FinalizerPart(Returns(5))>>)}
=============================================================================
