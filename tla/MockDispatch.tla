---------------------------- MODULE MockDispatch ----------------------------
(***************************************************************************)
(* Mock.hpp: a mock is a list of signatures.  Each of them is a BasicMock  *)
(* base with a pointer to the expectation collection of its decayed        *)
(* signature, so that overloads that differ only in qualifiers share one   *)
(* collection and tell their expectations apart by the policies Category   *)
(* and Constness that expect_call adds.  Mocks move: their pointers go,    *)
(* the expectations stay where they are.                                   *)
(*                                                                         *)
(* Expectations are set with default times (exactly once), without         *)
(* sequences and with arguments that match: SequencedExpectations and      *)
(* MatchPicking treat the rest, ScopedExpectations the report that an      *)
(* unsatisfied expectation makes when it is released.                      *)
(***************************************************************************)
EXTENDS Signatures

CONSTANTS
    Candidates,      \* the lists of signatures Mock is instantiated with
    Objects,         \* where mocks of that type can live
    MaxMocks,        \* bound: mocks default-constructed
    MaxExpectations, \* bound: expectations ever created
    None             \* no mock, a null pointer, no answer

ASSUME CandidatesAreSignatures == Candidates \subseteq Seq(Signature)
ASSUME BoundsAreNat == MaxMocks \in Nat /\ MaxExpectations \in Nat
ASSUME NoneIsNoNumber == None \notin Nat

VARIABLES
    signatures,   \* the template arguments of Mock
    expectations, \* m_Expectations of each base of each mock: a collection
    created,      \* how many mocks were default-constructed
    scoped,       \* the expectations, oldest first
    origin,       \* history: which constructed mock an object's value stems from
    answer        \* history: the last call and what became of it

vars == <<signatures, expectations, created, scoped, origin, answer>>

Overloads == DOMAIN signatures

\* A collection is known by the construction that made it and its signature.
Collection == [mock : Nat, decayed : Signature]

\* unique_list_t and expectation_collection_factory: one collection for
\* each decayed signature; every base gets the one of its own.
MakeCollections(n) ==
    [i \in Overloads |-> [mock |-> n, decayed |-> SignatureDecay(signatures[i])]]

NullPointers == [i \in Overloads |-> None]

IsAlive(m) == expectations[m] # None
IsMovedFrom(m) == expectations[m] = NullPointers

\* Faulty: a moved-from mock is used like any other.
IsUsableAnyway(m) == IsAlive(m)

\* BasicExpectationBuilder asserts that it has a storage; a call would
\* dereference the null pointer.
IsUsable(m) == IsAlive(m) /\ ~ IsMovedFrom(m)

-----------------------------------------------------------------------------
(* The expressions a mock can be named by and the overload that C++ selects *)
(* for it; expect_call is qualified as operator() is.                       *)

Expression == [params : Params, const : BOOLEAN, rvalue : BOOLEAN]

IsViable(i, e) == BindsTo(signatures[i], e)

IsBetterOverload(i, j) == IsPreferredTo(signatures[i], signatures[j])

Selects(e, i) ==
    /\ IsViable(i, e)
    /\ \A j \in Overloads \ {i} : IsViable(j, e) => IsBetterOverload(i, j)

-----------------------------------------------------------------------------

Init ==
    /\ signatures \in Candidates
    /\ expectations = [m \in Objects |-> None]
    /\ created = 0
    /\ scoped = << >>
    /\ origin = [m \in Objects |-> None]
    /\ answer = None

\* Mock(): only with an overload set, everything else does not compile.
Construct(m) ==
    /\ IsOverloadSet(signatures)
    /\ ~ IsAlive(m)
    /\ created < MaxMocks
    /\ created' = created + 1
    /\ expectations' = [expectations EXCEPT ![m] = MakeCollections(created')]
    /\ origin' = [origin EXCEPT ![m] = created']
    /\ answer' = None
    /\ UNCHANGED <<signatures, scoped>>

\* Faulty: the constructor of the new mock makes collections of its own.
MoveConstructFresh(from, to) ==
    /\ IsAlive(from)
    /\ ~ IsAlive(to)
    /\ expectations' = [expectations EXCEPT ![from] = NullPointers,
                                            ![to] = MakeCollections(0)]
    /\ origin' = [origin EXCEPT ![from] = None, ![to] = origin[from]]
    /\ answer' = None
    /\ UNCHANGED <<signatures, created, scoped>>

\* Mock(Mock&&) moves base by base; the pointers moved from are null.
MoveConstruct(from, to) ==
    /\ IsAlive(from)
    /\ ~ IsAlive(to)
    /\ expectations' = [expectations EXCEPT ![from] = NullPointers,
                                            ![to] = expectations[from]]
    /\ origin' = [origin EXCEPT ![from] = None, ![to] = origin[from]]
    /\ answer' = None
    /\ UNCHANGED <<signatures, created, scoped>>

\* operator=(Mock&&): the collections of `to` are kept by their expectations.
MoveAssign(from, to) ==
    /\ from # to
    /\ IsAlive(from)
    /\ IsAlive(to)
    /\ expectations' = [expectations EXCEPT ![from] = NullPointers,
                                            ![to] = expectations[from]]
    /\ origin' = [origin EXCEPT ![from] = None, ![to] = origin[from]]
    /\ answer' = None
    /\ UNCHANGED <<signatures, created, scoped>>

Destroy(m) ==
    /\ IsAlive(m)
    /\ expectations' = [expectations EXCEPT ![m] = None]
    /\ origin' = [origin EXCEPT ![m] = None]
    /\ answer' = None
    /\ UNCHANGED <<signatures, created, scoped>>

\* The policies keep the qualification of the overload's base.
ExpectCall(m, e) ==
    /\ IsUsable(m)
    /\ Len(scoped) < MaxExpectations
    /\ \E i \in Overloads :
          /\ Selects(e, i)
          /\ scoped' = Append(scoped,
                [collection |-> expectations[m][i],
                 category |-> RefQualification(signatures[i]),
                 constness |-> ConstQualification(signatures[i]),
                 saturated |-> FALSE,
                 pushed |-> TRUE,
                 origin |-> origin[m],
                 overload |-> i])
    /\ answer' = None
    /\ UNCHANGED <<signatures, expectations, created, origin>>

\* ~ScopedExpectation: the expectation leaves the collection it was pushed
\* to, whatever became of the mock.
Release(x) ==
    /\ scoped[x].pushed
    /\ scoped' = [scoped EXCEPT ![x].pushed = FALSE]
    /\ answer' = None
    /\ UNCHANGED <<signatures, expectations, created, origin>>

-----------------------------------------------------------------------------
(* A call *)

\* Category::matches and Constness::matches for a call from signature i.
PoliciesMatch(x, i) ==
    /\ IsMatching(RefQualification(signatures[i]), scoped[x].category)
    /\ IsMatching(ConstQualification(signatures[i]), scoped[x].constness)

\* Faulty: the expectation is looked at with its Category alone.
CategoryMatches(collection, i) ==
    {x \in DOMAIN scoped :
        /\ scoped[x].pushed
        /\ scoped[x].collection = collection
        /\ IsMatching(RefQualification(signatures[i]), scoped[x].category)}

Matching(collection, i) ==
    {x \in DOMAIN scoped :
        /\ scoped[x].pushed
        /\ scoped[x].collection = collection
        /\ PoliciesMatch(x, i)}

\* ExpectationCollection::handle_call.  Without sequences pick_best_match
\* keeps the first match of the reverse walk, the newest expectation.
HandleCall(collection, i, caller) ==
    LET matching == Matching(collection, i)
        full == {x \in matching : ~ scoped[x].saturated}
    IN  \/ \E x \in full :
              /\ \A y \in full : y <= x
              /\ scoped' = [scoped EXCEPT ![x].saturated = TRUE]
              /\ answer' = [caller |-> caller, overload |-> i,
                            report |-> "full_match", by |-> x]
        \/ /\ full = {}
           /\ answer' = [caller |-> caller, overload |-> i, by |-> None,
                         report |-> IF matching # {} THEN "inapplicable_match"
                                                     ELSE "no_match"]
           /\ UNCHANGED scoped

\* operator(): it hands the qualification of the overload to the collection.
Call(m, e) ==
    /\ IsUsable(m)
    /\ \E i \in Overloads :
          /\ Selects(e, i)
          /\ HandleCall(expectations[m][i], i, origin[m])
    /\ UNCHANGED <<signatures, expectations, created, origin>>

Next ==
    \/ \E m \in Objects : Construct(m) \/ Destroy(m)
    \/ \E from, to \in Objects : MoveConstruct(from, to) \/ MoveAssign(from, to)
    \/ \E m \in Objects, e \in Expression : ExpectCall(m, e) \/ Call(m, e)
    \/ \E x \in DOMAIN scoped : Release(x)

Spec == Init /\ [][Next]_vars

-----------------------------------------------------------------------------

Entry ==
    [collection : Collection, category : {AnyCategory, LValue, RValue},
     constness : {NonConst, AsConst}, saturated : BOOLEAN, pushed : BOOLEAN,
     origin : 1 .. MaxMocks, overload : Overloads]

Answer ==
    [caller : 1 .. MaxMocks, overload : Overloads, by : Nat \cup {None},
     report : {"full_match", "inapplicable_match", "no_match"}]

TypeOK ==
    /\ signatures \in Candidates
    /\ created \in 0 .. MaxMocks
    /\ DOMAIN expectations = Objects
    /\ \A m \in Objects : expectations[m] = None
                          \/ expectations[m] \in [Overloads -> Collection \cup {None}]
    /\ origin \in [Objects -> 1 .. MaxMocks \cup {None}]
    /\ scoped \in Seq(Entry)
    /\ answer \in Answer \cup {None}

\* is_overload_set accepts exactly the lists that C++ accepts as overloads of
\* a member function: of two with the same parameters both or none have a
\* reference qualifier, and their qualifiers differ.  An expression then
\* never finds two overloads that are equally good.
OverloadSetsCompile ==
    /\ IsOverloadSet(signatures) <=>
          \A i, j \in Overloads :
             i # j /\ signatures[i].params = signatures[j].params
             => /\ (signatures[i].ref = "none") <=> (signatures[j].ref = "none")
                /\ Qualifiers(signatures[i]) # Qualifiers(signatures[j])
    /\ IsOverloadSet(signatures) =>
          \A e \in Expression :
             (\E i \in Overloads : IsViable(i, e)) => \E i \in Overloads : Selects(e, i)

\* The expectations of the value that a caller's mock holds, for overload i.
Own(caller, i) ==
    {x \in DOMAIN scoped :
        scoped[x].pushed /\ scoped[x].origin = caller /\ scoped[x].overload = i}

\* A call is answered by an expectation that was set on the same mock,
\* wherever that was moved to in between, and through the same overload,
\* although overloads share collections.
AnsweredByItsOverload ==
    answer # None /\ answer.by # None => answer.by \in Own(answer.caller, answer.overload)

\* A call is turned down only when no such expectation is left, and the
\* report it is given tells an expectation that is used up from none at all:
\* other overloads in the same collection do not show.
TurnedDownRightly ==
    answer # None /\ answer.by = None =>
        LET own == Own(answer.caller, answer.overload)
        IN  /\ \A x \in own : scoped[x].saturated
            /\ (answer.report = "no_match") <=> (own = {})

-----------------------------------------------------------------------------
(* What makes the properties inductive. *)

OnlyOverloadSets == created > 0 => IsOverloadSet(signatures)

\* The pointers of a mock are null, or those its value was constructed with.
BasesPointHome ==
    \A m \in Objects :
        \/ expectations[m] \in {None, NullPointers}
        \/ /\ origin[m] \in 1 .. created
           /\ expectations[m] = MakeCollections(origin[m])

\* An expectation lies in the collection of its overload and demands the
\* qualification of its overload.
ExpectationsKeepOverload ==
    \A x \in DOMAIN scoped :
        LET i == scoped[x].overload
        IN  /\ scoped[x].collection = MakeCollections(scoped[x].origin)[i]
            /\ scoped[x].category = RefQualification(signatures[i])
            /\ scoped[x].constness = ConstQualification(signatures[i])

IInv ==
    /\ TypeOK
    /\ OnlyOverloadSets
    /\ BasesPointHome
    /\ ExpectationsKeepOverload
    /\ AnsweredByItsOverload
    /\ TurnedDownRightly

=============================================================================
