--------------------------- MODULE InterfaceMocks ---------------------------
(***************************************************************************)
(* InterfaceMock.hpp: the macros that make a mock, and a method for each   *)
(* of its overloads that overrides the one of an interface.  What a macro  *)
(* pastes is modelled by its parts; optional parentheses around an         *)
(* argument are left out.                                                  *)
(***************************************************************************)
EXTENDS Signatures, SequencesExt

-----------------------------------------------------------------------------
(* FOR_EACH_EXT.  The helper pastes one element and, when there are more,  *)
(* a call of itself that the preprocessor only sees in its next scan.      *)

Start(token, args) == [done |-> << >>, rest |-> args, token |-> token, sequence |-> <<token>>]

Scan(s) ==
    IF s.rest = << >> THEN s
    ELSE [s EXCEPT !.done = Append(@, [sequence |-> s.sequence, arg |-> Head(s.rest)]),
                   !.rest = Tail(@),
                   !.sequence = Append(@, s.token)]

\* An EXPAND macro scans its argument once more after what it pastes was
\* scanned; the argument of the outermost has been scanned before.
Fourfold(F(_), s) == F(F(F(F(s))))
Expand1(s) == Scan(s)
Expand2(s) == Scan(Fourfold(Expand1, s))
Expand3(s) == Scan(Fourfold(Expand2, s))
Expand(s) == Scan(Fourfold(Expand3, s))

\* Faulty: without the outermost of the four levels.
ForEachExtShort(token, args) == Expand3(Scan(Start(token, args)))

\* What is in rest after the last scan is left in the program as a call of
\* an unknown function, which does not compile.
ForEachExt(token, args) == Expand(Scan(Start(token, args)))

-----------------------------------------------------------------------------
(* The overloads.  A parameter is the sequence of the types it stands for: *)
(* one, or any number when it is a pack.                                   *)

Specs == [const : BOOLEAN, ref : RefQualifiers, noexcept : BOOLEAN]
NoSpecs == [const |-> FALSE, ref |-> "none", noexcept |-> FALSE]

\* The optional arguments of ADD_OVERLOAD: empty, or with one value.
EmptyArgument == {}
Given(argument, default) ==
    IF argument = EmptyArgument THEN default ELSE CHOOSE x \in argument : TRUE

MakeParamList(params) == ForEachExt("i", params)

\* Each gives the arguments of its parameter, by name and position in the
\* pack, forwarded as their type.
ForwardArgAsTuple(el) ==
    [i \in DOMAIN el.arg |-> [name |-> el.sequence, at |-> i, type |-> el.arg[i]]]
ForwardArgsAsTuple(params) ==
    LET each == ForEachExt("i", params)
    IN  [each EXCEPT !.done = [i \in DOMAIN each.done |-> ForwardArgAsTuple(each.done[i])]]

MakeOverloadInfosAll(ret, params, specs, convention) ==
    [ret |-> ret,
     convention |-> Given(convention, DefaultConvention),
     params |-> params,
     specs |-> Given(specs, NoSpecs),
     paramList |-> MakeParamList(params),
     forwardList |-> ForwardArgsAsTuple(params)]

\* SELECT_MAKE_OVERLOAD_INFOS: the third of its arguments.  No further
\* arguments are one empty argument, and select SPECS as well: BASIC is
\* never selected.
SelectMakeOverloadInfos(more) ==
    LET given == IF more = << >> THEN <<EmptyArgument>> ELSE more
        chosen == <<"ALL", "SPECS", "BASIC">>
    IN  chosen[3 - Len(given)]

AddOverload(ret, params, more) ==
    LET at(i) == IF i \in DOMAIN more THEN more[i] ELSE EmptyArgument
    IN  CASE SelectMakeOverloadInfos(more) = "ALL" ->
                MakeOverloadInfosAll(ret, params, at(1), at(2))
          [] SelectMakeOverloadInfos(more) = "SPECS" ->
                MakeOverloadInfosAll(ret, params, at(1), EmptyArgument)
          [] SelectMakeOverloadInfos(more) = "BASIC" ->
                MakeOverloadInfosAll(ret, params, EmptyArgument, EmptyArgument)

\* What a test can write for ADD_OVERLOAD: besides the return type a list
\* of parameters, and one or two further arguments, the first for the specs.
IsOverload(o) ==
    /\ o.params \in Seq(Range(o.params))
    /\ \A p \in Range(o.params) : p \in Seq(Range(p))
    /\ o.more # << >> =>
          /\ Len(o.more) \in 1 .. 2 /\ DOMAIN o.more = 1 .. Len(o.more)
          /\ o.more[1] \in SUBSET Specs

MakeSignature(info) ==
    [ret |-> info.ret, params |-> FlattenSeq(info.params), const |-> info.specs.const,
     ref |-> info.specs.ref, noexcept |-> info.specs.noexcept,
     convention |-> info.convention]

\* The template arguments of the mock.
MakeSignatureList(infos) ==
    LET each == ForEachExt("", infos)
    IN  [each EXCEPT !.done =
            [i \in DOMAIN each.done |-> MakeSignature(each.done[i].arg)]]

\* indirectly_apply_mock: the expression operator() is called on.  A member
\* of a const method's object is const.
IndirectlyApplyMock(sig, args) ==
    [params |-> args, const |-> sig.const, rvalue |-> RefQualification(sig) = RValue]

\* MAKE_METHOD_OVERRIDE: what the method takes, and how it calls the mock.
\* SignatureT has no call convention.
MakeMethodOverride(info) ==
    LET sig == RemoveCallConvention(MakeSignature(info))
        forwarded == FlattenSeq(info.forwardList.done)
    IN  [overrides |-> MakeSignature(info),
         takes |-> info.paramList.done,
         forwards |-> forwarded,
         calls |-> IndirectlyApplyMock(sig, [i \in DOMAIN forwarded |-> forwarded[i].type])]

\* MOCK_OVERLOADED_METHOD; MOCK_METHOD is the one of a single overload.
MockOverloadedMethod(infos) ==
    LET each == ForEachExt("", infos)
        signatures == MakeSignatureList(infos)
    IN  [methods |-> [i \in DOMAIN each.done |-> MakeMethodOverride(each.done[i].arg)],
         signatures |-> signatures.done,
         compiles |-> /\ each.rest = << >>
                      /\ signatures.rest = << >>
                      /\ \A i \in DOMAIN infos : /\ infos[i].paramList.rest = << >>
                                                 /\ infos[i].forwardList.rest = << >>
                      /\ IsOverloadSet(signatures.done)]

=============================================================================
