----------------------------- MODULE Signatures -----------------------------
(***************************************************************************)
(* The function signatures of a mock, as the traits of TypeTraits.hpp see  *)
(* them.  A signature is a record of its parts; a trait that spells out a  *)
(* specialisation for each of the combinations of const, reference and     *)
(* noexcept is the change of one field.  C-style variadic signatures have  *)
(* no signature_param_list, so that no mock can be made from them: they    *)
(* are left out.                                                           *)
(***************************************************************************)
EXTENDS Naturals, Sequences

CONSTANTS
    Returns,          \* return types
    Params,           \* parameter lists
    CallConventions,  \* the registered call conventions and the default one
    DefaultConvention

ASSUME DefaultIsAConvention == DefaultConvention \in CallConventions

\* Constness and ValueCategory are bit masks, here the sets of their bits.
NonConst == {"non_const"}
AsConst == {"as_const"}
LValue == {"lvalue"}
RValue == {"rvalue"}
AnyCategory == LValue \cup RValue

\* is_matching: the masks have a bit in common.
IsMatching(lhs, rhs) == lhs \cap rhs # {}

RefQualifiers == {"none", "&", "&&"}

Signature ==
    [ret : Returns, params : Params, const : BOOLEAN, ref : RefQualifiers,
     noexcept : BOOLEAN, convention : CallConventions]

RemoveCallConvention(sig) == [sig EXCEPT !.convention = DefaultConvention]

\* The next three keep the call convention: they take it off and add it
\* again around the change.
RemoveNoexcept(sig) == [sig EXCEPT !.noexcept = FALSE]
RemoveRefQualifier(sig) == [sig EXCEPT !.ref = "none"]
RemoveConstQualifier(sig) == [sig EXCEPT !.const = FALSE]

SignatureDecay(sig) ==
    RemoveNoexcept(RemoveRefQualifier(RemoveConstQualifier(RemoveCallConvention(sig))))

ConstQualification(sig) ==
    IF sig = RemoveConstQualifier(sig) THEN NonConst ELSE AsConst

RefQualification(sig) ==
    IF sig.ref = "none" THEN AnyCategory
    ELSE IF sig.ref = "&" THEN LValue ELSE RValue

ParamList(sig) == SignatureDecay(sig).params

NormalizeOverload(sig) == RemoveNoexcept(RemoveCallConvention(sig))

\* The qualifiers, const first, of a signature.
Qualifiers(sig) == <<sig.const, sig.ref>>

\* Faulty: the two rvalue overloads were forgotten.
OverloadablePairsButOne ==
    { <<<<FALSE, "none">>, <<TRUE, "none">>>>,
      <<<<FALSE, "&">>, <<TRUE, "&">>>>,
      <<<<FALSE, "&">>, <<FALSE, "&&">>>>,
      <<<<FALSE, "&">>, <<TRUE, "&&">>>>,
      <<<<TRUE, "&">>, <<FALSE, "&&">>>>,
      <<<<TRUE, "&">>, <<TRUE, "&&">>>> }

\* The specialisations of detail::is_overloadable_with for equal parameters.
OverloadablePairs ==
    { <<<<FALSE, "none">>, <<TRUE, "none">>>>,
      <<<<FALSE, "&">>, <<TRUE, "&">>>>,
      <<<<FALSE, "&">>, <<FALSE, "&&">>>>,
      <<<<FALSE, "&">>, <<TRUE, "&&">>>>,
      <<<<TRUE, "&">>, <<FALSE, "&&">>>>,
      <<<<TRUE, "&">>, <<TRUE, "&&">>>>,
      <<<<FALSE, "&&">>, <<TRUE, "&&">>>> }

\* The order of the two arguments does not matter: the primary template
\* tries again with them reversed.
IsOverloadableWith(first, second) ==
    LET a == NormalizeOverload(first)
        b == NormalizeOverload(second)
    IN  \/ ParamList(a) # ParamList(b)
        \/ <<Qualifiers(a), Qualifiers(b)>> \in OverloadablePairs
        \/ <<Qualifiers(b), Qualifiers(a)>> \in OverloadablePairs

IsOverloadSet(sigs) ==
    \A i, j \in DOMAIN sigs : i < j => IsOverloadableWith(sigs[i], sigs[j])

-----------------------------------------------------------------------------
(* C++ overload resolution between the member functions of an object that  *)
(* is named by an expression with these arguments.                         *)

\* The parameters fit, and the implicit object parameter binds.
BindsTo(sig, e) ==
    /\ sig.params = e.params
    /\ e.const => sig.const
    /\ sig.ref = "&" => (sig.const \/ ~ e.rvalue)
    /\ sig.ref = "&&" => e.rvalue

\* A reference to rvalues is preferred for an rvalue, then less const.
IsPreferredTo(sig, other) ==
    \/ sig.ref = "&&" /\ other.ref = "&"
    \/ sig.ref = other.ref /\ ~ sig.const /\ other.const

=============================================================================
