---------------------------- MODULE CallPolicies ----------------------------
(***************************************************************************)
(* The policies of an expectation and its finalizer (policies/): what each *)
(* of them makes of the arguments of a call.  The arguments are the values *)
(* of the variables that call::Info refers to; whoever gets an argument    *)
(* gets a reference to it, so that a side effect changes what the later    *)
(* ones and the finalizer see.  Indices count from 0, as in the code.      *)
(***************************************************************************)
EXTENDS Integers, Sequences, SequencesExt

-----------------------------------------------------------------------------
(* ArgumentList.hpp *)

\* args_selector_fn and all_args_selector_fn: which variables are handed
\* on, in the order of the indices; an index may be named several times.
AllArgs(args) == [k \in DOMAIN args |-> k - 1]

ArgsSelector(indices, args) == [k \in DOMAIN indices |-> args[indices[k] + 1]]

\* arg_list_indirect_apply_fn: every projection is applied to its argument.
IndirectApply(projections, values) ==
    [k \in DOMAIN projections |-> projections[k][values[k]]]

\* expand_tuple: identities for the projections that are not given.
ExpandTuple(projections, size, identity) ==
    projections \o [k \in 1 .. size - Len(projections) |-> identity]

-----------------------------------------------------------------------------
(* Policies.  A matcher is [accepts, throwsOn, text, printable]: the       *)
(* tuples of projected arguments it accepts, those it throws on, what it   *)
(* says of itself, and whether saying so succeeds: it prints values given  *)
(* by the test, with printers given by the test.                           *)

NoMatcher == [accepts |-> {}, throwsOn |-> {}, text |-> "", printable |-> TRUE]
NoAction == [param |-> 0, adds |-> 0, throws |-> FALSE]

\* expect::arg, expect::args, expect::all_args, all made by make_args_policy
\* of the indices and as many projections.
ArgsRequirement(matcher, indices, projections) ==
    [kind |-> "args", matcher |-> matcher, indices |-> indices,
     projections |-> projections, expected |-> {}, action |-> NoAction]

\* The qualifiers are masks, here the sets of their bits.
Category(expected) ==
    [kind |-> "category", matcher |-> NoMatcher, indices |-> << >>,
     projections |-> << >>, expected |-> expected, action |-> NoAction]

Constness(expected) ==
    [kind |-> "constness", matcher |-> NoMatcher, indices |-> << >>,
     projections |-> << >>, expected |-> expected, action |-> NoAction]

\* then::apply_arg, apply_args, apply_all and invoke, the last with no
\* indices.  The actions are those of a test: one adds a number to one of
\* its parameters (0 for none) and may throw.
SideEffectAction(action, indices) ==
    [kind |-> "side effect", matcher |-> NoMatcher, indices |-> indices,
     projections |-> << >>, expected |-> {}, action |-> action]

PolicyKinds == {"args", "category", "constness", "side effect"}

\* What compiles for a function of n parameters: a side effect selects some
\* of them, and its action has a parameter for each.
IsPolicyFor(policy, n) ==
    /\ policy.kind \in PolicyKinds
    /\ policy.kind = "side effect" =>
          /\ policy.indices \in Seq(0 .. n - 1)
          /\ policy.action.param \in 0 .. Len(policy.indices)
          /\ policy.action.adds \in Int

IsMatching(lhs, rhs) == lhs \cap rhs # {}

Selected(policy, info) ==
    IndirectApply(policy.projections, ArgsSelector(policy.indices, info.args))

Matches(policy, info) ==
    CASE policy.kind = "args" -> Selected(policy, info) \in policy.matcher.accepts
      [] policy.kind = "category" -> IsMatching(info.fromCategory, policy.expected)
      [] policy.kind = "constness" -> IsMatching(info.fromConstness, policy.expected)
      [] policy.kind = "side effect" -> TRUE

MatchThrows(policy, info) ==
    policy.kind = "args" /\ Selected(policy, info) \in policy.matcher.throwsOn

\* describe(): side effects have no description.
Describe(policy) ==
    CASE policy.kind = "side effect" -> {}
      [] policy.kind = "args" ->
            {[expects |-> "args", of |-> policy.indices, text |-> policy.matcher.text]}
      [] OTHER -> {[expects |-> policy.kind, of |-> << >>, text |-> ""]}

DescribeThrows(policy) == policy.kind = "args" /\ ~ policy.matcher.printable

-----------------------------------------------------------------------------
(* Consuming and finalizing a call *)

\* Faulty: side effects get copies of the arguments.
PolicyConsumeCopies(policy, args) == args

\* What consume of one policy leaves of the arguments: only a side effect
\* does something, through the references it got.
PolicyConsume(policy, args) ==
    IF policy.kind # "side effect" \/ policy.action.param = 0 THEN args
    ELSE [args EXCEPT ![policy.indices[policy.action.param] + 1] =
                        @ + policy.action.adds]

ConsumeThrows(policy) == policy.kind = "side effect" /\ policy.action.throws

\* Category and Constness assert again what they have matched.
ConsumeAsserts(policy, info) ==
    policy.kind \in {"category", "constness"} => Matches(policy, info)

\* The policies are consumed in their order.
PoliciesConsume(policies, args) ==
    LET left[n \in 0 .. Len(policies)] ==
            IF n = 0 THEN args ELSE PolicyConsume(policies[n], left[n - 1])
    IN  left[Len(policies)]

\* InitFinalize (of void functions only), ReturnsResultOf and Throws.
\* finally::returns gives out a copy of its value, returns_arg moves an
\* argument out, returns_apply_result_of applies the identity of a test to
\* it, and throws throws a copy of its exception.
InitFinalize == [kind |-> "init", value |-> 0, index |-> 0]
Returns(value) == [kind |-> "returns", value |-> value, index |-> 0]
ReturnsArg(index) == [kind |-> "returns_arg", value |-> 0, index |-> index]
ThrowsException == [kind |-> "throws", value |-> 0, index |-> 0]

\* What compiles for a function of n parameters.
IsFinalizerFor(finalizer, n) ==
    \/ finalizer.kind \in {"init", "returns", "throws"}
    \/ finalizer.kind = "returns_arg" /\ finalizer.index \in 0 .. n - 1

\* finalize_policy_for: its result converts to the return type.  Throws has
\* every result type.
FinalizePolicyFor(finalizer, returnType) ==
    \/ finalizer.kind = "throws"
    \/ finalizer.kind = "init" <=> returnType = "void"

FinalizeThrows(finalizer) == finalizer.kind = "throws"

\* The returned value, if there is one.
FinalizeCall(finalizer, args) ==
    CASE finalizer.kind \in {"init", "throws"} -> {}
      [] finalizer.kind = "returns" -> {finalizer.value}
      [] finalizer.kind = "returns_arg" -> {args[finalizer.index + 1]}

=============================================================================
