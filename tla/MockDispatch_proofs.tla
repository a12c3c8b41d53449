------------------------ MODULE MockDispatch_proofs ------------------------
(***************************************************************************)
(* Proofs about MockDispatch, for every list of signatures and any number  *)
(* of mocks and expectations.  The argument: two overloads of an overload  *)
(* set that share a collection differ in a qualifier that the policies     *)
(* Category and Constness look at (PoliciesTellApart), and therefore the   *)
(* expectations that match a call are those of the called overload         *)
(* (MatchingIsOwn).                                                        *)
(***************************************************************************)
EXTENDS MockDispatch, SequenceTheorems, TLAPS

\* Two signatures with the same decayed signature that overload each other
\* are never both matched by the policies of one of them.
LEMMA PoliciesTellApart ==
    ASSUME NEW a \in Signature, NEW b \in Signature,
           SignatureDecay(a) = SignatureDecay(b),
           IsOverloadableWith(a, b)
    PROVE  \/ ~ IsMatching(RefQualification(a), RefQualification(b))
           \/ ~ IsMatching(ConstQualification(a), ConstQualification(b))
<1>1. ParamList(NormalizeOverload(a)) = ParamList(NormalizeOverload(b))
  <2>1. SignatureDecay(NormalizeOverload(a)) = SignatureDecay(a)
    BY DefaultIsAConvention
    DEF SignatureDecay, NormalizeOverload, RemoveNoexcept, RemoveCallConvention,
        RemoveRefQualifier, RemoveConstQualifier, Signature
  <2>2. SignatureDecay(NormalizeOverload(b)) = SignatureDecay(b)
    BY DefaultIsAConvention
    DEF SignatureDecay, NormalizeOverload, RemoveNoexcept, RemoveCallConvention,
        RemoveRefQualifier, RemoveConstQualifier, Signature
  <2> QED BY <2>1, <2>2 DEF ParamList
<1>2. /\ Qualifiers(NormalizeOverload(a)) = <<a.const, a.ref>>
      /\ Qualifiers(NormalizeOverload(b)) = <<b.const, b.ref>>
  BY DefaultIsAConvention
  DEF Qualifiers, NormalizeOverload, RemoveNoexcept, RemoveCallConvention, Signature
<1>3. \/ <<<<a.const, a.ref>>, <<b.const, b.ref>>>> \in OverloadablePairs
      \/ <<<<b.const, b.ref>>, <<a.const, a.ref>>>> \in OverloadablePairs
  BY <1>1, <1>2 DEF IsOverloadableWith
<1>4. /\ a.const = FALSE => ConstQualification(a) = NonConst
      /\ a.const = TRUE => ConstQualification(a) = AsConst
      /\ b.const = FALSE => ConstQualification(b) = NonConst
      /\ b.const = TRUE => ConstQualification(b) = AsConst
  BY DEF ConstQualification, RemoveConstQualifier, Signature
<1>5. \/ a.const # b.const
      \/ {a.ref, b.ref} = {"&", "&&"}
  BY <1>3 DEF OverloadablePairs
<1>6. CASE a.const # b.const
  <2>1. ~ IsMatching(ConstQualification(a), ConstQualification(b))
    BY <1>4, <1>6 DEF IsMatching, NonConst, AsConst, Signature
  <2> QED BY <2>1
<1>7. CASE {a.ref, b.ref} = {"&", "&&"}
  <2>1. ~ IsMatching(RefQualification(a), RefQualification(b))
    BY <1>7 DEF IsMatching, RefQualification, LValue, RValue, AnyCategory
  <2> QED BY <2>1
<1> QED BY <1>5, <1>6, <1>7

\* A policy matches the calls of the signature it was made from.
LEMMA PoliciesMatchOwn ==
    ASSUME NEW a \in Signature
    PROVE  /\ IsMatching(RefQualification(a), RefQualification(a))
           /\ IsMatching(ConstQualification(a), ConstQualification(a))
           /\ RefQualification(a) \in {AnyCategory, LValue, RValue}
           /\ ConstQualification(a) \in {NonConst, AsConst}
BY DEF IsMatching, RefQualification, ConstQualification, NonConst, AsConst,
       LValue, RValue, AnyCategory, Signature, RefQualifiers

\* The order in which an overload set lists its signatures does not matter.
LEMMA OverloadsPairwise ==
    ASSUME NEW sigs \in Seq(Signature), IsOverloadSet(sigs),
           NEW i \in DOMAIN sigs, NEW j \in DOMAIN sigs, i # j
    PROVE  IsOverloadableWith(sigs[i], sigs[j])
<1>1. i \in Nat /\ j \in Nat
  BY LenProperties
<1>2. IsOverloadableWith(sigs[i], sigs[j]) \/ IsOverloadableWith(sigs[j], sigs[i])
  BY <1>1 DEF IsOverloadSet
<1> QED BY <1>2 DEF IsOverloadableWith

\* What a usable mock is, under the invariant: it points to the collections
\* it was constructed with, and its signatures are an overload set.
LEMMA UsableMock ==
    ASSUME IInv, NEW m \in Objects, IsUsable(m)
    PROVE  /\ origin[m] \in 1 .. created
           /\ origin[m] \in 1 .. MaxMocks
           /\ expectations[m] = MakeCollections(origin[m])
           /\ IsOverloadSet(signatures)
           /\ signatures \in Seq(Signature)
<1>1. origin[m] \in 1 .. created /\ expectations[m] = MakeCollections(origin[m])
  BY DEF IInv, BasesPointHome, IsUsable, IsAlive, IsMovedFrom
<1>2. created \in 0 .. MaxMocks /\ MaxMocks \in Nat
  BY BoundsAreNat DEF IInv, TypeOK
<1>3. created > 0 /\ origin[m] \in 1 .. MaxMocks
  BY <1>1, <1>2
<1>4. signatures \in Seq(Signature)
  BY CandidatesAreSignatures DEF IInv, TypeOK
<1> QED BY <1>1, <1>3, <1>4 DEF IInv, OnlyOverloadSets

\* The heart of the matter: the expectations that match a call of overload
\* i of a mock are the expectations set on that mock through overload i.
LEMMA MatchingIsOwn ==
    ASSUME IInv, NEW m \in Objects, IsUsable(m), NEW i \in Overloads
    PROVE  Matching(expectations[m][i], i) = Own(origin[m], i)
<1>1. /\ expectations[m] = MakeCollections(origin[m])
      /\ IsOverloadSet(signatures)
      /\ signatures \in Seq(Signature)
  BY UsableMock
<1>2. SUFFICES ASSUME NEW x \in DOMAIN scoped
               PROVE  scoped[x].collection = expectations[m][i] /\ PoliciesMatch(x, i)
                      <=> scoped[x].origin = origin[m] /\ scoped[x].overload = i
  BY DEF Matching, Own
<1> DEFINE j == scoped[x].overload
<1>3. j \in Overloads
  <2>1. scoped[x] \in Entry
    BY ElementOfSeq DEF IInv, TypeOK
  <2> QED BY <2>1 DEF Entry
<1>4. signatures[i] \in Signature /\ signatures[j] \in Signature
  BY <1>1, <1>3, ElementOfSeq DEF Overloads
<1>5. /\ scoped[x].collection = [mock |-> scoped[x].origin, decayed |-> SignatureDecay(signatures[j])]
      /\ scoped[x].category = RefQualification(signatures[j])
      /\ scoped[x].constness = ConstQualification(signatures[j])
  BY <1>3 DEF IInv, ExpectationsKeepOverload, MakeCollections
<1>6. expectations[m][i] = [mock |-> origin[m], decayed |-> SignatureDecay(signatures[i])]
  BY <1>1 DEF MakeCollections
<1>7. ASSUME scoped[x].collection = expectations[m][i], PoliciesMatch(x, i)
      PROVE  scoped[x].origin = origin[m] /\ j = i
  <2>1. /\ scoped[x].origin = origin[m]
        /\ SignatureDecay(signatures[i]) = SignatureDecay(signatures[j])
    BY <1>5, <1>6, <1>7
  <2>2. ASSUME i # j PROVE FALSE
    <3>1. IsOverloadableWith(signatures[i], signatures[j])
      BY <1>1, <1>3, <2>2, OverloadsPairwise DEF Overloads
    <3> QED BY <1>4, <1>5, <1>7, <2>1, <3>1, PoliciesTellApart DEF PoliciesMatch
  <2> QED BY <2>1, <2>2
<1>8. ASSUME scoped[x].origin = origin[m], j = i
      PROVE  scoped[x].collection = expectations[m][i] /\ PoliciesMatch(x, i)
  BY <1>4, <1>5, <1>6, <1>8, PoliciesMatchOwn DEF PoliciesMatch
<1> QED BY <1>7, <1>8

\* A call of overload i of a usable mock m gives an answer that both
\* properties accept, and leaves the expectations where they are.
LEMMA HandleCallInvariant ==
    ASSUME IInv, NEW m \in Objects, IsUsable(m), NEW i \in Overloads,
           HandleCall(expectations[m][i], i, origin[m]),
           UNCHANGED <<signatures, expectations, created, origin>>
    PROVE  IInv'
<1> DEFINE matching == Matching(expectations[m][i], i)
           full == {x \in matching : ~ scoped[x].saturated}
<1>1. matching = Own(origin[m], i)
  BY MatchingIsOwn
<1>2. origin[m] \in 1 .. MaxMocks
  BY UsableMock
<1>3. scoped \in Seq(Entry)
  BY DEF IInv, TypeOK
<1>4. Entry' = Entry /\ Overloads' = Overloads
  BY DEF Entry, Overloads
<1>5. CASE full = {}
  <2>1. /\ UNCHANGED scoped
        /\ answer' = [caller |-> origin[m], overload |-> i, by |-> None,
                      report |-> IF matching # {} THEN "inapplicable_match" ELSE "no_match"]
    BY <1>5 DEF HandleCall
  <2>2. TypeOK'
    <3>1. answer' \in Answer'
      BY <1>2, <1>4, <2>1 DEF Answer
    <3> QED BY <1>4, <2>1, <3>1 DEF IInv, TypeOK
  <2>3. OnlyOverloadSets' /\ BasesPointHome' /\ ExpectationsKeepOverload'
    BY <2>1 DEF IInv, OnlyOverloadSets, BasesPointHome, ExpectationsKeepOverload,
                NullPointers, MakeCollections, Overloads
  <2>4. AnsweredByItsOverload'
    BY <2>1 DEF AnsweredByItsOverload
  <2>5. TurnedDownRightly'
    <3>1. Own(origin[m], i)' = matching
      BY <1>1, <2>1 DEF Own
    <3>2. \A x \in matching : scoped'[x].saturated
      BY <1>5, <2>1
    <3> QED BY <2>1, <3>1, <3>2 DEF TurnedDownRightly, Own
  <2> QED BY <2>2, <2>3, <2>4, <2>5 DEF IInv
<1>6. CASE full # {}
  <2>1. PICK x \in full :
           /\ scoped' = [scoped EXCEPT ![x].saturated = TRUE]
           /\ answer' = [caller |-> origin[m], overload |-> i,
                         report |-> "full_match", by |-> x]
    BY <1>6 DEF HandleCall
  <2>2. x \in DOMAIN scoped /\ x \in Nat /\ x # None
    BY <1>3, LenProperties, NoneIsNoNumber DEF Matching
  <2>3. /\ scoped' \in Seq(Entry)
        /\ DOMAIN scoped' = DOMAIN scoped
    <3>1. scoped[x] \in Entry
      BY <1>3, <2>2, ElementOfSeq
    <3>2. [scoped[x] EXCEPT !.saturated = TRUE] \in Entry
      BY <3>1 DEF Entry
    <3>3. scoped' = [scoped EXCEPT ![x] = [scoped[x] EXCEPT !.saturated = TRUE]]
      BY <2>1
    <3>4. x \in 1 .. Len(scoped)
      BY <1>3, <2>2, LenProperties
    <3> QED BY <1>3, <3>2, <3>3, <3>4, ExceptSeq
  <2>4. \A y \in DOMAIN scoped :
           /\ scoped'[y].collection = scoped[y].collection
           /\ scoped'[y].category = scoped[y].category
           /\ scoped'[y].constness = scoped[y].constness
           /\ scoped'[y].pushed = scoped[y].pushed
           /\ scoped'[y].origin = scoped[y].origin
           /\ scoped'[y].overload = scoped[y].overload
    <3>1. TAKE y \in DOMAIN scoped
    <3>2. scoped[y] \in Entry
      BY <1>3, ElementOfSeq
    <3> QED BY <1>3, <2>1, <2>2, <3>2 DEF Entry
  <2>5. TypeOK'
    <3>1. answer' \in Answer'
      BY <1>2, <1>4, <2>1, <2>2 DEF Answer
    <3> QED BY <1>4, <2>3, <3>1 DEF IInv, TypeOK
  <2>6. OnlyOverloadSets' /\ BasesPointHome'
    BY DEF IInv, OnlyOverloadSets, BasesPointHome, NullPointers, MakeCollections, Overloads
  <2>7. ExpectationsKeepOverload'
    BY <2>3, <2>4 DEF IInv, ExpectationsKeepOverload, MakeCollections, Overloads
  <2>8. AnsweredByItsOverload'
    <3>1. x \in Own(origin[m], i)'
      BY <1>1, <2>1, <2>3, <2>4 DEF Own
    <3> QED BY <2>1, <3>1 DEF AnsweredByItsOverload, Own
  <2>9. TurnedDownRightly'
    BY <2>1, <2>2 DEF TurnedDownRightly
  <2> QED BY <2>5, <2>6, <2>7, <2>8, <2>9 DEF IInv
<1> QED BY <1>5, <1>6

\* A step that neither touches the expectations nor answers a call needs
\* only its own effect on the mocks looked at.
LEMMA QuietStep ==
    ASSUME IInv, UNCHANGED <<signatures, scoped>>, answer' = None,
           created' \in 0 .. MaxMocks,
           DOMAIN expectations' = Objects,
           \A m \in Objects : expectations'[m] = None
                           \/ expectations'[m] \in [Overloads -> Collection \cup {None}],
           origin' \in [Objects -> 1 .. MaxMocks \cup {None}],
           OnlyOverloadSets', BasesPointHome'
    PROVE  IInv'
<1>1. TypeOK'
  BY DEF IInv, TypeOK, Entry, Overloads
<1>2. ExpectationsKeepOverload'
  BY DEF IInv, ExpectationsKeepOverload, MakeCollections, Overloads
<1>3. AnsweredByItsOverload' /\ TurnedDownRightly'
  BY DEF AnsweredByItsOverload, TurnedDownRightly
<1> QED BY <1>1, <1>2, <1>3 DEF IInv

\* The pointers a constructed mock gets have the type of pointers.
LEMMA CollectionsType ==
    ASSUME TypeOK, NEW n \in Nat
    PROVE  /\ MakeCollections(n) \in [Overloads -> Collection \cup {None}]
           /\ NullPointers \in [Overloads -> Collection \cup {None}]
<1>1. \A i \in Overloads : signatures[i] \in Signature
  BY CandidatesAreSignatures, ElementOfSeq DEF TypeOK, Overloads
<1>2. \A i \in Overloads : SignatureDecay(signatures[i]) \in Signature
  BY <1>1, DefaultIsAConvention
  DEF SignatureDecay, RemoveNoexcept, RemoveCallConvention, RemoveRefQualifier,
      RemoveConstQualifier, Signature, RefQualifiers
<1> QED BY <1>2 DEF MakeCollections, NullPointers, Collection

\* Both moves, in one lemma: the pointers go from `from` to `to`, their
\* history with them.
LEMMA MoveInvariant ==
    ASSUME IInv, NEW from \in Objects, NEW to \in Objects, from # to, IsAlive(from),
           expectations' = [expectations EXCEPT ![from] = NullPointers,
                                                ![to] = expectations[from]],
           origin' = [origin EXCEPT ![from] = None, ![to] = origin[from]],
           answer' = None, UNCHANGED <<signatures, created, scoped>>
    PROVE  IInv'
<1>1. DOMAIN expectations = Objects
  BY DEF IInv, TypeOK
<1>2. /\ expectations'[from] = NullPointers
      /\ expectations'[to] = expectations[from]
      /\ \A m \in Objects \ {from, to} : expectations'[m] = expectations[m]
  BY <1>1
<1>3. /\ origin' \in [Objects -> 1 .. MaxMocks \cup {None}]
      /\ origin'[to] = origin[from]
      /\ \A m \in Objects \ {from, to} : origin'[m] = origin[m]
  BY DEF IInv, TypeOK
<1>4. \A m \in Objects : expectations'[m] = None
                      \/ expectations'[m] \in [Overloads -> Collection \cup {None}]
  BY <1>2 DEF IInv, TypeOK, NullPointers
<1>5. OnlyOverloadSets'
  BY DEF IInv, OnlyOverloadSets
<1>6. BasesPointHome'
  <2>1. NullPointers' = NullPointers /\ \A n : MakeCollections(n)' = MakeCollections(n)
    BY DEF NullPointers, MakeCollections, Overloads
  <2> QED BY <1>2, <1>3, <2>1 DEF IInv, BasesPointHome
<1>7. created' \in 0 .. MaxMocks /\ DOMAIN expectations' = Objects
  BY <1>1 DEF IInv, TypeOK
<1> QED BY <1>3, <1>4, <1>5, <1>6, <1>7, QuietStep

\* Mock() makes a mock that points home.
LEMMA ConstructInvariant ==
    ASSUME IInv, NEW m \in Objects, Construct(m)
    PROVE  IInv'
<1>1. /\ created \in 0 .. MaxMocks
      /\ created' = created + 1
      /\ created' \in 1 .. MaxMocks
  BY BoundsAreNat DEF IInv, TypeOK, Construct
<1>2. /\ DOMAIN expectations' = Objects
      /\ expectations'[m] = MakeCollections(created')
      /\ \A k \in Objects \ {m} : expectations'[k] = expectations[k]
  BY DEF IInv, TypeOK, Construct
<1>3. /\ origin' \in [Objects -> 1 .. MaxMocks \cup {None}]
      /\ origin'[m] = created'
      /\ \A k \in Objects \ {m} : origin'[k] = origin[k]
  BY <1>1 DEF IInv, TypeOK, Construct
<1>4. \A k \in Objects : expectations'[k] = None
                      \/ expectations'[k] \in [Overloads -> Collection \cup {None}]
  BY <1>1, <1>2, CollectionsType DEF IInv, TypeOK
<1>5. UNCHANGED <<signatures, scoped>> /\ answer' = None
  BY DEF Construct
<1>6. OnlyOverloadSets'
  BY <1>5 DEF OnlyOverloadSets, Construct, IsOverloadSet
<1>7. BasesPointHome'
  <2>1. NullPointers' = NullPointers /\ \A n : MakeCollections(n)' = MakeCollections(n)
    BY <1>5 DEF NullPointers, MakeCollections, Overloads
  <2>2. SUFFICES ASSUME NEW k \in Objects
                 PROVE  \/ expectations'[k] \in {None, NullPointers}
                        \/ /\ origin'[k] \in 1 .. created'
                           /\ expectations'[k] = MakeCollections(origin'[k])
    BY <2>1 DEF BasesPointHome
  <2>3. CASE k = m
    BY <1>1, <1>2, <1>3, <2>1, <2>3, BoundsAreNat
  <2>4. CASE k # m
    <3>1. \/ expectations[k] \in {None, NullPointers}
          \/ origin[k] \in 1 .. created /\ expectations[k] = MakeCollections(origin[k])
      BY DEF IInv, BasesPointHome
    <3>2. \A n \in 1 .. created : n \in 1 .. created'
      BY <1>1, BoundsAreNat
    <3> QED BY <1>2, <1>3, <2>1, <2>4, <3>1, <3>2
  <2> QED BY <2>3, <2>4
<1> QED BY <1>1, <1>2, <1>3, <1>4, <1>5, <1>6, <1>7, BoundsAreNat, QuietStep

\* The destructor leaves nothing behind that points anywhere.
LEMMA DestroyInvariant ==
    ASSUME IInv, NEW m \in Objects, Destroy(m)
    PROVE  IInv'
<1>1. /\ DOMAIN expectations' = Objects
      /\ expectations'[m] = None
      /\ \A k \in Objects \ {m} : expectations'[k] = expectations[k]
  BY DEF IInv, TypeOK, Destroy
<1>2. /\ origin' \in [Objects -> 1 .. MaxMocks \cup {None}]
      /\ \A k \in Objects \ {m} : origin'[k] = origin[k]
  BY DEF IInv, TypeOK, Destroy
<1>3. UNCHANGED <<signatures, scoped, created>> /\ answer' = None
  BY DEF Destroy
<1>4. OnlyOverloadSets'
  BY <1>3 DEF IInv, OnlyOverloadSets
<1>5. BasesPointHome'
  <2>1. NullPointers' = NullPointers /\ \A n : MakeCollections(n)' = MakeCollections(n)
    BY <1>3 DEF NullPointers, MakeCollections, Overloads
  <2> QED BY <1>1, <1>2, <1>3, <2>1 DEF IInv, BasesPointHome
<1> QED BY <1>1, <1>2, <1>3, <1>4, <1>5, QuietStep DEF IInv, TypeOK

\* expect_call puts the expectation where the calls of its overload look.
LEMMA ExpectCallInvariant ==
    ASSUME IInv, NEW m \in Objects, NEW e \in Expression, ExpectCall(m, e)
    PROVE  IInv'
<1>1. PICK i \in Overloads :
         scoped' = Append(scoped,
                [collection |-> expectations[m][i],
                 category |-> RefQualification(signatures[i]),
                 constness |-> ConstQualification(signatures[i]),
                 saturated |-> FALSE,
                 pushed |-> TRUE,
                 origin |-> origin[m],
                 overload |-> i])
  BY DEF ExpectCall
<1> DEFINE new == [collection |-> expectations[m][i],
                   category |-> RefQualification(signatures[i]),
                   constness |-> ConstQualification(signatures[i]),
                   saturated |-> FALSE,
                   pushed |-> TRUE,
                   origin |-> origin[m],
                   overload |-> i]
<1>2. UNCHANGED <<signatures, expectations, created, origin>> /\ answer' = None
  BY DEF ExpectCall
<1>3. /\ origin[m] \in 1 .. MaxMocks
      /\ expectations[m] = MakeCollections(origin[m])
      /\ signatures \in Seq(Signature)
  BY UsableMock DEF ExpectCall
<1>4. signatures[i] \in Signature
  BY <1>3, ElementOfSeq DEF Overloads
<1>5. new \in Entry
  <2>1. expectations[m][i] \in Collection
    <3>1. SignatureDecay(signatures[i]) \in Signature
      BY <1>4, DefaultIsAConvention
      DEF SignatureDecay, RemoveNoexcept, RemoveCallConvention, RemoveRefQualifier,
          RemoveConstQualifier, Signature, RefQualifiers
    <3> QED BY <1>3, <3>1, BoundsAreNat DEF MakeCollections, Collection
  <2> QED BY <1>3, <1>4, <2>1, PoliciesMatchOwn DEF Entry
<1>6. scoped \in Seq(Entry) /\ Len(scoped) \in Nat
  BY LenProperties DEF IInv, TypeOK
<1>7. /\ scoped' \in Seq(Entry)
      /\ DOMAIN scoped' = DOMAIN scoped \cup {Len(scoped) + 1}
      /\ \A x \in DOMAIN scoped : scoped'[x] = scoped[x]
      /\ scoped'[Len(scoped) + 1] = new
  BY <1>1, <1>5, <1>6, AppendProperties, LenProperties
<1>8. TypeOK'
  BY <1>2, <1>7 DEF IInv, TypeOK, Entry, Overloads
<1>9. OnlyOverloadSets' /\ BasesPointHome'
  BY <1>2 DEF IInv, OnlyOverloadSets, BasesPointHome, NullPointers, MakeCollections, Overloads
<1>10. ExpectationsKeepOverload'
  BY <1>2, <1>3, <1>7 DEF IInv, ExpectationsKeepOverload, MakeCollections, Overloads
<1>11. AnsweredByItsOverload' /\ TurnedDownRightly'
  BY <1>2 DEF AnsweredByItsOverload, TurnedDownRightly
<1> QED BY <1>8, <1>9, <1>10, <1>11 DEF IInv

\* A released expectation keeps what it was set up with.
LEMMA ReleaseInvariant ==
    ASSUME IInv, NEW x \in DOMAIN scoped, Release(x)
    PROVE  IInv'
<1>1. /\ UNCHANGED <<signatures, expectations, created, origin>>
      /\ answer' = None
      /\ scoped' = [scoped EXCEPT ![x] = [scoped[x] EXCEPT !.pushed = FALSE]]
  BY DEF Release
<1>2. scoped \in Seq(Entry) /\ DOMAIN scoped = 1 .. Len(scoped)
  BY LenProperties DEF IInv, TypeOK
<1>3. scoped[x] \in Entry
  BY <1>2, ElementOfSeq
<1>4. /\ [scoped[x] EXCEPT !.pushed = FALSE] \in Entry
      /\ [scoped[x] EXCEPT !.pushed = FALSE].collection = scoped[x].collection
      /\ [scoped[x] EXCEPT !.pushed = FALSE].category = scoped[x].category
      /\ [scoped[x] EXCEPT !.pushed = FALSE].constness = scoped[x].constness
      /\ [scoped[x] EXCEPT !.pushed = FALSE].origin = scoped[x].origin
      /\ [scoped[x] EXCEPT !.pushed = FALSE].overload = scoped[x].overload
  BY <1>3 DEF Entry
<1>5. scoped' \in Seq(Entry)
  BY <1>1, <1>2, <1>4, ExceptSeq
<1>6. /\ DOMAIN scoped' = DOMAIN scoped
      /\ \A y \in DOMAIN scoped :
            /\ scoped'[y].collection = scoped[y].collection
            /\ scoped'[y].category = scoped[y].category
            /\ scoped'[y].constness = scoped[y].constness
            /\ scoped'[y].origin = scoped[y].origin
            /\ scoped'[y].overload = scoped[y].overload
  BY <1>1, <1>2, <1>4
<1>7. TypeOK'
  BY <1>1, <1>5 DEF IInv, TypeOK, Entry, Overloads
<1>8. OnlyOverloadSets' /\ BasesPointHome'
  BY <1>1 DEF IInv, OnlyOverloadSets, BasesPointHome, NullPointers, MakeCollections, Overloads
<1>9. ExpectationsKeepOverload'
  BY <1>1, <1>6 DEF IInv, ExpectationsKeepOverload, MakeCollections, Overloads
<1>10. AnsweredByItsOverload' /\ TurnedDownRightly'
  BY <1>1 DEF AnsweredByItsOverload, TurnedDownRightly
<1> QED BY <1>7, <1>8, <1>9, <1>10 DEF IInv

-----------------------------------------------------------------------------

\* The inductive invariant holds in every reachable state: mocks point to
\* the collections they were constructed with, expectations keep what their
\* overload gave them, and answers are right.
THEOREM Invariance == Spec => []IInv
<1>1. Init => IInv
  <2> SUFFICES ASSUME Init PROVE IInv
    OBVIOUS
  <2>1. TypeOK
    BY EmptySeq, BoundsAreNat DEF Init, TypeOK
  <2>2. OnlyOverloadSets /\ BasesPointHome
    BY DEF Init, OnlyOverloadSets, BasesPointHome
  <2>3. ExpectationsKeepOverload /\ AnsweredByItsOverload /\ TurnedDownRightly
    BY DEF Init, ExpectationsKeepOverload, AnsweredByItsOverload, TurnedDownRightly
  <2> QED BY <2>1, <2>2, <2>3 DEF IInv
<1>2. IInv /\ [Next]_vars => IInv'
  <2> SUFFICES ASSUME IInv, [Next]_vars PROVE IInv'
    OBVIOUS
  <2>1. ASSUME NEW m \in Objects, Construct(m) PROVE IInv'
    BY <2>1, ConstructInvariant
  <2>2. ASSUME NEW m \in Objects, Destroy(m) PROVE IInv'
    BY <2>2, DestroyInvariant
  <2>3. ASSUME NEW from \in Objects, NEW to \in Objects, MoveConstruct(from, to) PROVE IInv'
    BY <2>3, MoveInvariant DEF MoveConstruct
  <2>4. ASSUME NEW from \in Objects, NEW to \in Objects, MoveAssign(from, to) PROVE IInv'
    BY <2>4, MoveInvariant DEF MoveAssign
  <2>5. ASSUME NEW m \in Objects, NEW e \in Expression, ExpectCall(m, e) PROVE IInv'
    BY <2>5, ExpectCallInvariant
  <2>6. ASSUME NEW m \in Objects, NEW e \in Expression, Call(m, e) PROVE IInv'
    BY <2>6, HandleCallInvariant DEF Call
  <2>7. ASSUME NEW x \in DOMAIN scoped, Release(x) PROVE IInv'
    BY <2>7, ReleaseInvariant
  <2>8. CASE UNCHANGED vars
    <3>1. UNCHANGED <<signatures, expectations, created, scoped, origin, answer>>
      BY <2>8 DEF vars
    <3> QED BY <3>1 DEF IInv, TypeOK, Entry, Answer, OnlyOverloadSets, BasesPointHome,
                       ExpectationsKeepOverload, AnsweredByItsOverload, TurnedDownRightly,
                       Own, NullPointers, MakeCollections, Overloads
  <2> QED BY <2>1, <2>2, <2>3, <2>4, <2>5, <2>6, <2>7, <2>8 DEF Next
<1> QED BY <1>1, <1>2, PTL DEF Spec

\* A call is never answered by an expectation of another mock or of another
\* overload, although overloads that differ in qualifiers share a collection.
THEOREM CallsFindTheirOverload == Spec => []AnsweredByItsOverload
<1>1. IInv => AnsweredByItsOverload
  BY DEF IInv
<1> QED BY <1>1, Invariance, PTL

\* A call is turned down only when its overload has no expectation left, and
\* the report tells whether it ever had one that is still in scope.
THEOREM CallsAreTurnedDownRightly == Spec => []TurnedDownRightly
<1>1. IInv => TurnedDownRightly
  BY DEF IInv
<1> QED BY <1>1, Invariance, PTL

-----------------------------------------------------------------------------

\* The table of is_overloadable_with is the rule of C++ for two signatures.
LEMMA OverloadableRule ==
    ASSUME NEW a \in Signature, NEW b \in Signature
    PROVE  IsOverloadableWith(a, b) <=>
             (a.params = b.params =>
                /\ (a.ref = "none") <=> (b.ref = "none")
                /\ Qualifiers(a) # Qualifiers(b))
<1>1. /\ ParamList(NormalizeOverload(a)) = a.params
      /\ ParamList(NormalizeOverload(b)) = b.params
  BY DefaultIsAConvention
  DEF ParamList, SignatureDecay, NormalizeOverload, RemoveNoexcept,
      RemoveCallConvention, RemoveRefQualifier, RemoveConstQualifier, Signature
<1>2. /\ Qualifiers(NormalizeOverload(a)) = <<a.const, a.ref>>
      /\ Qualifiers(NormalizeOverload(b)) = <<b.const, b.ref>>
  BY DefaultIsAConvention
  DEF Qualifiers, NormalizeOverload, RemoveNoexcept, RemoveCallConvention, Signature
<1>3. /\ a.const \in BOOLEAN /\ b.const \in BOOLEAN
      /\ a.ref \in {"none", "&", "&&"} /\ b.ref \in {"none", "&", "&&"}
  BY DEF Signature, RefQualifiers
<1>4. \/ <<<<a.const, a.ref>>, <<b.const, b.ref>>>> \in OverloadablePairs
      \/ <<<<b.const, b.ref>>, <<a.const, a.ref>>>> \in OverloadablePairs
      <=> /\ (a.ref = "none") <=> (b.ref = "none")
          /\ a.const # b.const \/ a.ref # b.ref
  BY <1>3 DEF OverloadablePairs
<1> QED BY <1>1, <1>2, <1>4 DEF IsOverloadableWith, Qualifiers

\* An overload set has a best overload for each expression that has one.
LEMMA BestOverloadExists ==
    ASSUME signatures \in Seq(Signature), IsOverloadSet(signatures),
           NEW e \in Expression, \E i \in Overloads : IsViable(i, e)
    PROVE  \E i \in Overloads : Selects(e, i)
<1> DEFINE V == {i \in Overloads : IsViable(i, e)}
<1>1. \A i \in V : /\ signatures[i] \in Signature
                   /\ signatures[i].const \in BOOLEAN
                   /\ signatures[i].ref \in {"none", "&", "&&"}
  <2>1. \A i \in Overloads : signatures[i] \in Signature
    BY LenProperties DEF Overloads
  <2> QED BY <2>1 DEF Signature, RefQualifiers
<1>2. \A i, j \in V : i # j =>
         /\ (signatures[i].ref = "none") <=> (signatures[j].ref = "none")
         /\ signatures[i].const # signatures[j].const \/ signatures[i].ref # signatures[j].ref
  <2>1. SUFFICES ASSUME NEW i \in V, NEW j \in V, i # j
                 PROVE  /\ (signatures[i].ref = "none") <=> (signatures[j].ref = "none")
                        /\ \/ signatures[i].const # signatures[j].const
                           \/ signatures[i].ref # signatures[j].ref
    OBVIOUS
  <2>2. IsOverloadableWith(signatures[i], signatures[j])
    BY <2>1, OverloadsPairwise DEF Overloads
  <2>3. signatures[i].params = signatures[j].params
    BY DEF IsViable, BindsTo
  <2> QED BY <1>1, <2>2, <2>3, OverloadableRule DEF Qualifiers
<1>3. SUFFICES \E i \in V : \A j \in V \ {i} : IsBetterOverload(i, j)
  BY DEF Selects
<1>4. CASE \E i \in V : ~ signatures[i].const /\ signatures[i].ref = "&&"
  BY <1>1, <1>2, <1>4 DEF IsBetterOverload, IsPreferredTo
<1>5. CASE /\ \A i \in V : signatures[i].ref = "&&" => signatures[i].const
           /\ \E i \in V : signatures[i].ref = "&&"
  BY <1>1, <1>2, <1>5 DEF IsBetterOverload, IsPreferredTo
<1>6. CASE /\ \A i \in V : signatures[i].ref # "&&"
           /\ \E i \in V : ~ signatures[i].const
  BY <1>1, <1>2, <1>6 DEF IsBetterOverload, IsPreferredTo
<1>7. CASE \A i \in V : signatures[i].ref # "&&" /\ signatures[i].const
  BY <1>1, <1>2, <1>7 DEF IsBetterOverload, IsPreferredTo
<1>8. V # {}
  OBVIOUS
<1> QED BY <1>1, <1>4, <1>5, <1>6, <1>7

\* Whatever the signatures, Mock compiles with them exactly if C++ accepts
\* their call operators, and then no call of it is ambiguous.
THEOREM OverloadSetsCompileAlways == Spec => []OverloadSetsCompile
<1>1. IInv => OverloadSetsCompile
  <2> SUFFICES ASSUME IInv PROVE OverloadSetsCompile
    OBVIOUS
  <2>1. signatures \in Seq(Signature)
    BY CandidatesAreSignatures DEF IInv, TypeOK
  <2>2. \A i \in Overloads : i \in Nat /\ signatures[i] \in Signature
    BY <2>1, LenProperties, ElementOfSeq DEF Overloads
  <2> DEFINE Rule(a, b) == a.params = b.params =>
                               /\ (a.ref = "none") <=> (b.ref = "none")
                               /\ Qualifiers(a) # Qualifiers(b)
  <2>3. \A i, j \in Overloads : IsOverloadableWith(signatures[i], signatures[j])
                                <=> Rule(signatures[i], signatures[j])
    BY <2>2, OverloadableRule
  <2>4. IsOverloadSet(signatures) <=>
           \A i, j \in Overloads : i # j => Rule(signatures[i], signatures[j])
    <3>1. \A i, j \in Overloads : Rule(signatures[i], signatures[j])
                                  <=> Rule(signatures[j], signatures[i])
      OBVIOUS
    <3> HIDE DEF Rule
    <3>2. ASSUME IsOverloadSet(signatures), NEW i \in Overloads, NEW j \in Overloads, i # j
          PROVE  Rule(signatures[i], signatures[j])
      <4>1. i < j \/ j < i
        BY <2>2, <3>2
      <4> QED BY <2>3, <3>1, <3>2, <4>1 DEF IsOverloadSet, Overloads
    <3>3. ASSUME \A i, j \in Overloads : i # j => Rule(signatures[i], signatures[j])
          PROVE  IsOverloadSet(signatures)
      BY <2>2, <2>3, <3>3 DEF IsOverloadSet, Overloads
    <3> QED BY <3>2, <3>3
  <2>5. IsOverloadSet(signatures) =>
          \A e \in Expression :
             (\E i \in Overloads : IsViable(i, e)) => \E i \in Overloads : Selects(e, i)
    BY <2>1, BestOverloadExists
  <2> QED BY <2>4, <2>5 DEF OverloadSetsCompile
<1> QED BY <1>1, Invariance, PTL

=============================================================================
