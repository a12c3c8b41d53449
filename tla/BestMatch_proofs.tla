-------------------------- MODULE BestMatch_proofs --------------------------
(***************************************************************************)
(* What pick_best_match makes of any matches and ratings, and that the     *)
(* enumerations it walks list every element of a finite set once, in       *)
(* order; and the principle by which induction on numbers is done in the   *)
(* other proofs.                                                           *)
(***************************************************************************)
EXTENDS BestMatch, Functions, FunctionTheorems, FiniteSetTheorems,
        WellFoundedInduction, TLAPS

\* Of the numbers that lack a property one is the smallest.
LEMMA SmallestExists ==
    ASSUME NEW T \in SUBSET Nat, T # {}
    PROVE  \E n \in T : \A m \in T : n <= m
<1> DEFINE R == OpToRel(<, Nat)
<1>1. PICK n \in T : \A m \in T : ~ (<<m, n>> \in R)
  BY WFMin, NatLessThanWellFounded
<1>2. \A m \in Nat : <<m, n>> \in R <=> m < n
  <2> SUFFICES ASSUME NEW m \in Nat  PROVE <<m, n>> \in R <=> m < n
    OBVIOUS
  <2>1. <<m, n>> \in Nat \X Nat
    OBVIOUS
  <2>2. <<m, n>> \in {ss \in Nat \X Nat : ss[1] < ss[2]} <=> m < n
    BY <2>1
  <2> QED BY Zenon, <2>2 DEF OpToRel
<1> HIDE DEF R
<1>3. \A m \in T : ~ (m < n)
  BY Zenon, <1>1, <1>2
<1>4. \A m \in T : n <= m
  BY <1>3
<1> QED BY <1>4

\* A set of natural numbers below a bound has a largest one.
LEMMA LargestExists ==
    ASSUME NEW n \in Nat, NEW T \in SUBSET (0 .. n), T # {}
    PROVE  \E k \in T : \A m \in T : m <= k
<1> DEFINE D == {d \in 0 .. n : n - d \in T}
<1>1. PICK t \in T : TRUE
  OBVIOUS
<1>2. n - t \in 0 .. n /\ n - (n - t) = t
  OBVIOUS
<1>3. D \in SUBSET Nat /\ D # {}
  BY <1>1, <1>2
<1>4. PICK d \in D : \A m \in D : d <= m
  BY <1>3, SmallestExists
<1>5. ASSUME NEW m \in T  PROVE m <= n - d
  <2>1. n - m \in D
    OBVIOUS
  <2>2. d <= n - m
    BY <1>4, <2>1
  <2> QED BY <2>2
<1> QED BY <1>5

-----------------------------------------------------------------------------
(* Elements and their ranks *)

\* How many elements of S are below e.
Below(S, e) == Cardinality({f \in S : f < e})

LEMMA BelowType ==
    ASSUME NEW S \in SUBSET Int, IsFiniteSet(S), NEW e \in S
    PROVE  Below(S, e) \in 0 .. Cardinality(S) - 1
<1>1. {f \in S : f < e} \in SUBSET (S \ {e})
  OBVIOUS
<1>2. IsFiniteSet(S \ {e}) /\ Cardinality(S \ {e}) = Cardinality(S) - 1
  BY FS_RemoveElement
<1>3. /\ IsFiniteSet({f \in S : f < e})
      /\ Cardinality({f \in S : f < e}) <= Cardinality(S \ {e})
  BY <1>1, <1>2, FS_Subset
<1>4. Cardinality(S) \in Nat /\ Cardinality({f \in S : f < e}) \in Nat
  BY <1>3, FS_CardinalityType
<1> QED BY <1>2, <1>3, <1>4 DEF Below

LEMMA BelowIncreases ==
    ASSUME NEW S \in SUBSET Int, IsFiniteSet(S), NEW e \in S, NEW g \in S, e < g
    PROVE  Below(S, e) < Below(S, g)
<1> DEFINE E == {f \in S : f < e}
           G == {f \in S : f < g}
<1>1. IsFiniteSet(E) /\ IsFiniteSet(G)
  BY FS_Subset
<1>2. e \in G /\ e \notin E /\ E \subseteq G
  <2>1. e \in Int /\ g \in Int /\ ~ (e < e)
    OBVIOUS
  <2>2. \A f \in S : f < e => f < g
    <3> TAKE f \in S
    <3> HAVE f < e
    <3>1. f \in Int
      OBVIOUS
    <3> QED BY <2>1, <3>1
  <2> QED BY Zenon, <2>1, <2>2
<1>3. IsFiniteSet(E \cup {e}) /\ Cardinality(E \cup {e}) = Cardinality(E) + 1
  BY <1>1, <1>2, FS_AddElement
<1>4. Cardinality(E \cup {e}) <= Cardinality(G)
  BY <1>1, <1>2, FS_Subset
<1>5. Cardinality(E) \in Nat /\ Cardinality(G) \in Nat
  BY <1>1, FS_CardinalityType
<1>6. Cardinality(E) < Cardinality(G)
  BY <1>3, <1>4, <1>5
<1> QED BY <1>6 DEF Below

\* Every rank is taken by one element.
LEMMA RanksAreTaken ==
    ASSUME NEW S \in SUBSET Int, IsFiniteSet(S), NEW k \in 1 .. Cardinality(S)
    PROVE  \E e \in S : Below(S, e) = k - 1
<1> DEFINE N == Cardinality(S)
           rank == [e \in S |-> Below(S, e) + 1]
<1>1. N \in Nat
  BY FS_CardinalityType
<1>2. rank \in [S -> 1 .. N]
  BY <1>1, BelowType
<1>3. ASSUME NEW e \in S, NEW g \in S, rank[e] = rank[g]  PROVE e = g
  <2>1. Below(S, e) = Below(S, g)
    BY <1>3, BelowType
  <2> QED BY <2>1, BelowIncreases, BelowType
<1>4. rank \in Injection(S, 1 .. N)
  BY <1>2, <1>3 DEF Injection, IsInjective
<1>5. IsFiniteSet(1 .. N) /\ Cardinality(1 .. N) = N
  BY <1>1, FS_Interval
<1>6. rank \in Surjection(S, 1 .. N)
  BY <1>4, <1>5, FS_Injection
<1>7. PICK e \in S : rank[e] = k
  BY <1>6 DEF Surjection
<1>8. Below(S, e) = k - 1
  BY <1>1, <1>7, BelowType
<1> QED BY <1>8

\* The loops over a finite set of numbers meet every element once and in
\* ascending order.
THEOREM InOrderIsAscending ==
    ASSUME NEW S \in SUBSET Int, IsFiniteSet(S)
    PROVE  /\ Cardinality(S) \in Nat
           /\ InOrder(S) \in [1 .. Cardinality(S) -> S]
           /\ \A e \in S : \E k \in 1 .. Cardinality(S) : InOrder(S)[k] = e
           /\ \A j, k \in 1 .. Cardinality(S) : j < k => InOrder(S)[j] < InOrder(S)[k]
<1> DEFINE N == Cardinality(S)
<1>1. N \in Nat
  BY FS_CardinalityType
<1>2. ASSUME NEW k \in 1 .. N
      PROVE  InOrder(S)[k] \in S /\ Below(S, InOrder(S)[k]) = k - 1
  <2>1. InOrder(S)[k] = CHOOSE e \in S : Below(S, e) = k - 1
    BY DEF InOrder, Below
  <2> QED BY <2>1, RanksAreTaken
<1>3. InOrder(S) \in [1 .. N -> S]
  BY <1>2 DEF InOrder
<1>4. ASSUME NEW e \in S
      PROVE  \E k \in 1 .. N : InOrder(S)[k] = e
  <2>1. Below(S, e) + 1 \in 1 .. N /\ Below(S, e) \in Nat
    BY <1>1, BelowType
  <2>2. PICK k \in 1 .. N : k = Below(S, e) + 1
    BY <2>1
  <2>3. InOrder(S)[k] \in S /\ Below(S, InOrder(S)[k]) = Below(S, e)
    BY <1>2, <2>1, <2>2
  <2>4. PICK g \in S : g = InOrder(S)[k]
    BY <2>3
  <2>5. g = e
    <3>1. g \in Int /\ e \in Int
      OBVIOUS
    <3>2. ~ (Below(S, g) < Below(S, e)) /\ ~ (Below(S, e) < Below(S, g))
      BY <2>1, <2>3, <2>4
    <3>3. ~ (g < e) /\ ~ (e < g)
      BY <3>2, BelowIncreases
    <3> QED BY <3>1, <3>3
  <2> QED BY <2>4, <2>5
<1>5. ASSUME NEW j \in 1 .. N, NEW k \in 1 .. N, j < k
      PROVE  InOrder(S)[j] < InOrder(S)[k]
  <2>1. /\ InOrder(S)[j] \in S /\ Below(S, InOrder(S)[j]) = j - 1
        /\ InOrder(S)[k] \in S /\ Below(S, InOrder(S)[k]) = k - 1
    BY <1>2
  <2>2. PICK e \in S, g \in S : e = InOrder(S)[j] /\ g = InOrder(S)[k]
    BY <2>1
  <2>3. e \in Int /\ g \in Int
    OBVIOUS
  <2>4. Below(S, e) < Below(S, g)
    BY <1>1, <1>5, <2>1, <2>2
  <2>5. e # g /\ ~ (g < e)
    BY <2>4, BelowIncreases, BelowType
  <2> QED BY <2>2, <2>3, <2>5
<1> QED BY <1>1, <1>3, <1>4, <1>5

\* The walk over a collection meets every expectation once, the newest first.
THEOREM NewestFirstIsDescending ==
    ASSUME NEW S \in SUBSET Int, IsFiniteSet(S)
    PROVE  /\ Cardinality(S) \in Nat
           /\ NewestFirst(S) \in [1 .. Cardinality(S) -> S]
           /\ \A e \in S : \E k \in 1 .. Cardinality(S) : NewestFirst(S)[k] = e
           /\ \A j, k \in 1 .. Cardinality(S) :
                 j < k => NewestFirst(S)[j] > NewestFirst(S)[k]
<1> DEFINE N == Cardinality(S)
<1>1. /\ N \in Nat
      /\ InOrder(S) \in [1 .. N -> S]
      /\ \A e \in S : \E k \in 1 .. N : InOrder(S)[k] = e
      /\ \A j, k \in 1 .. N : j < k => InOrder(S)[j] < InOrder(S)[k]
  BY InOrderIsAscending
<1>2. NewestFirst(S) = [k \in 1 .. N |-> InOrder(S)[N + 1 - k]]
  BY DEF NewestFirst
<1>3. \A k \in 1 .. N : N + 1 - k \in 1 .. N /\ N + 1 - (N + 1 - k) = k
  BY <1>1
<1>4. NewestFirst(S) \in [1 .. N -> S]
  BY <1>1, <1>2, <1>3
<1>5. ASSUME NEW e \in S  PROVE \E k \in 1 .. N : NewestFirst(S)[k] = e
  <2>1. PICK k \in 1 .. N : InOrder(S)[k] = e
    BY <1>1
  <2>2. NewestFirst(S)[N + 1 - k] = e
    BY <1>2, <1>3, <2>1
  <2> QED BY <1>3, <2>2
<1>6. ASSUME NEW j \in 1 .. N, NEW k \in 1 .. N, j < k
      PROVE  NewestFirst(S)[j] > NewestFirst(S)[k]
  <2>1. /\ N + 1 - j \in 1 .. N /\ N + 1 - k \in 1 .. N
        /\ N + 1 - k < N + 1 - j
    BY <1>1, <1>3, <1>6
  <2>2. /\ InOrder(S)[N + 1 - k] < InOrder(S)[N + 1 - j]
        /\ InOrder(S)[N + 1 - k] \in Int /\ InOrder(S)[N + 1 - j] \in Int
    BY <1>1, <2>1
  <2> QED BY <1>2, <2>2
<1> QED BY <1>1, <1>4, <1>5, <1>6

-----------------------------------------------------------------------------
(* Which match is picked *)

\* The best matches seen so far, while pick_best_match walks over them.
LEMMA Picking ==
    ASSUME NEW matches, NEW rating, Len(matches) \in Nat \ {0}
    PROVE  \E best :
              /\ best[1] = matches[1]
              /\ \A n \in 2 .. Len(matches) :
                    best[n] = IF HasBetterRating(rating[best[n - 1]], rating[matches[n]])
                              THEN best[n - 1] ELSE matches[n]
              /\ PickBestMatch(matches, rating) = best[Len(matches)]
<1> DEFINE N == Len(matches)
           Pick(b, n) == IF n = 1 \/ ~ HasBetterRating(rating[b[n - 1]], rating[matches[n]])
                         THEN matches[n] ELSE b[n - 1]
           Chain(g, n) == g = [k \in 1 .. n |-> g[k]] /\ \A k \in 1 .. n : g[k] = Pick(g, k)
           Missing == {n \in 1 .. N : ~ \E g : Chain(g, n)}
<1>1. Missing = {}
  <2> SUFFICES ASSUME Missing # {}  PROVE FALSE
    OBVIOUS
  <2>0. Missing \in SUBSET Nat
    OBVIOUS
  <2>1. PICK n \in Missing : \A m \in Missing : n <= m
    BY <2>0, SmallestExists
  <2>2. n \in 1 .. N /\ ~ \E g : Chain(g, n)
    OBVIOUS
  <2>3. n # 1
    <3> DEFINE g == [k \in 1 .. 1 |-> matches[1]]
    <3>1. g = [k \in 1 .. 1 |-> g[k]] /\ g[1] = matches[1]
      OBVIOUS
    <3> HIDE DEF g
    <3>2. Chain(g, 1)
      BY <3>1
    <3> QED BY <3>2, <2>2
  <2>4. n - 1 \in 1 .. N /\ ~ (n <= n - 1)
    BY <2>2, <2>3
  <2>5. PICK g : Chain(g, n - 1)
    BY <2>1, <2>4
  <2> DEFINE h == [k \in 1 .. n |-> IF k = n THEN Pick(g, n) ELSE g[k]]
  <2>6. Chain(h, n)
    <3>1. n \in 1 .. n /\ \A k \in 1 .. n - 1 : k \in 1 .. n /\ k # n
      BY <2>2
    <3>2. h[n] = Pick(g, n) /\ \A k \in 1 .. n - 1 : h[k] = g[k]
      <4> HIDE DEF Pick
      <4> QED BY Zenon, <3>1
    <3>3. h = [k \in 1 .. n |-> h[k]]
      OBVIOUS
    <3> HIDE DEF h
    <3>4. ASSUME NEW k \in 1 .. n  PROVE h[k] = Pick(h, k)
      <4>1. k = 1 \/ h[k - 1] = g[k - 1]
        <5>1. CASE k # 1
          <6>1. k - 1 \in 1 .. n - 1
            BY <2>2, <5>1
          <6> QED BY <3>2, <6>1
        <5> QED BY <5>1
      <4>2. Pick(h, k) = Pick(g, k)
        BY Zenon, <4>1
      <4>3. CASE k = n
        BY Zenon, <3>2, <4>2, <4>3
      <4>4. CASE k # n
        <5>1. k \in 1 .. n - 1
          BY <2>2, <4>4
        <5>2. g[k] = Pick(g, k) /\ h[k] = g[k]
          BY <2>5, <3>2, <5>1
        <5> HIDE DEF Pick
        <5> QED BY <4>2, <5>2
      <4> QED BY <4>3, <4>4
    <3> QED BY <3>3, <3>4
  <2> HIDE DEF h
  <2> QED BY <2>2, <2>6
<1>2. PICK g : Chain(g, N)
  BY <1>1
<1> DEFINE Step(b) == b = [n \in 1 .. N |-> Pick(b, n)]
           best == CHOOSE b : Step(b)
<1>3. Step(g)
  <2> HIDE DEF Pick
  <2> QED BY Zenon, <1>2
<1>4. Step(best)
  <2> HIDE DEF Step
  <2> QED BY Zenon, <1>3
<1>5. PickBestMatch(matches, rating) = best[N]
  BY Zenon DEF PickBestMatch
<1> HIDE DEF best
<1>6. \A n \in 1 .. N : best[n] = Pick(best, n)
  <2> HIDE DEF Pick
  <2> QED BY Zenon, <1>4
<1>7. best[1] = matches[1]
  BY <1>6
<1>8. ASSUME NEW n \in 2 .. N
      PROVE  best[n] = IF HasBetterRating(rating[best[n - 1]], rating[matches[n]])
                       THEN best[n - 1] ELSE matches[n]
  <2>1. n \in 1 .. N /\ n # 1
    OBVIOUS
  <2>2. best[n] = Pick(best, n)
    BY <1>6, <2>1
  <2> QED BY Zenon, <2>1, <2>2
<1> QED BY Zenon, <1>5, <1>7, <1>8

\* The ratings of a match in the sequences S.
AreRatingsOf(ratings, S) == DOMAIN ratings = S /\ IsFiniteSet(S)

\* Of two matches the older one, rhs, has the higher priority in a sequence
\* exactly if that is lazy.
StrategiesOrder(lhs, rhs, lazy) ==
    \A s \in DOMAIN lhs \cap DOMAIN rhs : lhs[s] < rhs[s] <=> s \in lazy

\* What comparing two matches comes to: the newer one is kept unless the
\* older one is in all of its sequences and most of those are lazy.
LEMMA BetterRating ==
    ASSUME NEW lhs, NEW rhs, NEW S, NEW T, NEW lazy,
           AreRatingsOf(lhs, S), AreRatingsOf(rhs, T), StrategiesOrder(lhs, rhs, lazy)
    PROVE  HasBetterRating(lhs, rhs) <=> ~ (S \subseteq T /\ LazyMajority(S, lazy))
<1> DEFINE lost == {s \in S : lhs[s] < rhs[s]}
<1>1. DOMAIN lhs = S /\ DOMAIN rhs = T /\ IsFiniteSet(S)
  BY DEF AreRatingsOf
<1>2. HasBetterRating(lhs, rhs) <=>
        \/ ~ (S \subseteq T)
        \/ Cardinality(lost) <= Cardinality(S \ lost)
  BY Zenon, <1>1 DEF HasBetterRating
<1>3. S \subseteq T => lost = S \cap lazy /\ S \ lost = S \ lazy
  BY Zenon, <1>1 DEF StrategiesOrder
<1>4. Cardinality(S \cap lazy) \in Nat /\ Cardinality(S \ lazy) \in Nat
  <2>1. IsFiniteSet(S \cap lazy) /\ IsFiniteSet(S \ lazy)
    BY <1>1, FS_Subset
  <2> QED BY <2>1, FS_CardinalityType
<1> HIDE DEF lost
<1>5. CASE S \subseteq T
  BY <1>2, <1>3, <1>4, <1>5 DEF LazyMajority
<1>6. CASE ~ (S \subseteq T)
  BY Zenon, <1>2, <1>6
<1> QED BY <1>5, <1>6

\* However many expectations match and however many sequences they are in,
\* the pick follows the strategies, although "better" is not transitive.
\* Of the matches walked over so far, one that a lazy best may give way to
\* is in the same sequences: this is what survives the next comparison.
THEOREM PickFollowsStrategy ==
    ASSUME NEW matches \in SUBSET Int, IsFiniteSet(matches), matches # {},
           NEW attached, NEW lazy, NEW rating,
           \A e \in matches : AreRatingsOf(rating[e], attached[e]),
           \A e, f \in matches : f < e => StrategiesOrder(rating[e], rating[f], lazy)
    PROVE  FollowsStrategy(attached, lazy, matches,
                           PickBestMatch(NewestFirst(matches), rating))
<1> DEFINE walk == NewestFirst(matches)
           N == Cardinality(matches)
<1>2. /\ N \in Nat
      /\ walk \in [1 .. N -> matches]
      /\ \A e \in matches : \E k \in 1 .. N : walk[k] = e
      /\ \A j, k \in 1 .. N : j < k => walk[j] > walk[k]
  BY NewestFirstIsDescending
<1> HIDE DEF walk
<1>3. N # 0
  <2>1. PICK e \in matches : TRUE
    OBVIOUS
  <2>2. PICK k \in 1 .. N : walk[k] = e
    BY <1>2
  <2> QED BY <1>2, <2>2
<1> HIDE DEF N
<1>4. Len(walk) = N
  BY <1>2
<1>5. PICK best :
        /\ best[1] = walk[1]
        /\ \A n \in 2 .. N :
              best[n] = IF HasBetterRating(rating[best[n - 1]], rating[walk[n]])
                        THEN best[n - 1] ELSE walk[n]
        /\ PickBestMatch(walk, rating) = best[N]
  <2>1. Len(walk) \in Nat \ {0}
    BY <1>2, <1>3, <1>4
  <2>2. \E best :
          /\ best[1] = walk[1]
          /\ \A n \in 2 .. Len(walk) :
                best[n] = IF HasBetterRating(rating[best[n - 1]], rating[walk[n]])
                          THEN best[n - 1] ELSE walk[n]
          /\ PickBestMatch(walk, rating) = best[Len(walk)]
    BY <2>1, Picking
  <2> QED BY Zenon, <1>4, <2>2
<1> DEFINE
      In(e) == attached[e]
      Majority(S) == LazyMajority(S, lazy)
      Good(n) ==
        /\ \E j \in 1 .. n : best[n] = walk[j]
        /\ In(walk[1]) \subseteq In(best[n])
        /\ \A j \in 1 .. n :
              /\ In(best[n]) \subseteq In(walk[j]) /\ Majority(In(best[n]))
                    => best[n] <= walk[j] /\ In(walk[j]) = In(best[n])
              /\ In(best[n]) = In(walk[j]) /\ ~ Majority(In(best[n]))
                    => best[n] >= walk[j]
      Bad == {n \in 1 .. N : ~ Good(n)}
<1>6. \A j \in 1 .. N : walk[j] \in matches /\ walk[j] \in Int
  BY <1>2
<1>7. Good(1)
  BY <1>2, <1>3, <1>5, <1>6
<1>8. ASSUME NEW n \in 2 .. N, Good(n - 1)  PROVE Good(n)
  <2> DEFINE b == best[n - 1]
             f == walk[n]
  <2>1. n - 1 \in 1 .. N /\ n \in 1 .. N
    BY <1>2
  <2>2. PICK i \in 1 .. n - 1 : b = walk[i]
    BY <1>8
  <2>3. i \in 1 .. N /\ i < n
    BY <1>2
  <2>4. b \in matches /\ f \in matches /\ f < b /\ b \in Int /\ f \in Int
    BY <1>2, <1>6, <2>1, <2>2, <2>3
  <2>5. best[n] = IF In(b) \subseteq In(f) /\ Majority(In(b)) THEN f ELSE b
    <3>1. AreRatingsOf(rating[b], In(b)) /\ AreRatingsOf(rating[f], In(f))
      BY Zenon, <2>4
    <3>2. StrategiesOrder(rating[b], rating[f], lazy)
      BY Zenon, <2>4
    <3>3. best[n] = IF HasBetterRating(rating[b], rating[f]) THEN b ELSE f
      BY Zenon, <1>5
    <3> HIDE DEF b, f, In, Majority
    <3>4. HasBetterRating(rating[b], rating[f]) <=>
            ~ (In(b) \subseteq In(f) /\ LazyMajority(In(b), lazy))
      BY <3>1, <3>2, BetterRating
    <3> QED BY Zenon, <3>3, <3>4 DEF Majority
  <2>6. \A j \in 1 .. n : j = n \/ j \in 1 .. n - 1
    BY <2>1
  <2>7. \A j \in 1 .. n - 1 : /\ j \in 1 .. N /\ j \in 1 .. n
                              /\ walk[j] > f /\ walk[j] \in Int
    BY <1>2, <1>6, <2>1
  <2>8. n \in 1 .. n /\ In(walk[1]) \subseteq In(b)
    BY <1>8, <2>1
  <2>9. \A j \in 1 .. n - 1 :
           /\ In(b) \subseteq In(walk[j]) /\ Majority(In(b))
                 => b <= walk[j] /\ In(walk[j]) = In(b)
           /\ In(b) = In(walk[j]) /\ ~ Majority(In(b)) => b >= walk[j]
    BY <1>8
  <2> HIDE DEF b, In, Majority
  <2>10. CASE In(b) \subseteq In(f) /\ Majority(In(b))
    <3>1. best[n] = f
      BY Zenon, <2>5, <2>10
    <3>2. ASSUME NEW j \in 1 .. n
          PROVE  /\ In(f) \subseteq In(walk[j]) /\ Majority(In(f))
                       => f <= walk[j] /\ In(walk[j]) = In(f)
                 /\ In(f) = In(walk[j]) /\ ~ Majority(In(f)) => f >= walk[j]
      <4>1. CASE j = n
        BY <2>4, <4>1
      <4>2. CASE j \in 1 .. n - 1
        <5>1. f <= walk[j]
          BY <2>4, <2>7, <4>2
        <5>2. In(f) \subseteq In(walk[j]) => In(walk[j]) = In(b) /\ In(f) = In(b)
          BY Zenon, <2>9, <2>10, <4>2
        <5> QED BY Zenon, <2>10, <5>1, <5>2
      <4> QED BY <2>6, <4>1, <4>2
    <3>3. In(walk[1]) \subseteq In(f)
      BY Zenon, <2>8, <2>10
    <3> QED BY Zenon, <2>8, <3>1, <3>2, <3>3
  <2>11. CASE ~ (In(b) \subseteq In(f) /\ Majority(In(b)))
    <3>1. best[n] = b
      BY Zenon, <2>5, <2>11
    <3>2. ASSUME NEW j \in 1 .. n
          PROVE  /\ In(b) \subseteq In(walk[j]) /\ Majority(In(b))
                       => b <= walk[j] /\ In(walk[j]) = In(b)
                 /\ In(b) = In(walk[j]) /\ ~ Majority(In(b)) => b >= walk[j]
      <4>1. CASE j = n
        <5>1. f <= b /\ b >= f
          BY <2>4
        <5> QED BY Zenon, <2>11, <4>1, <5>1
      <4>2. CASE j \in 1 .. n - 1
        BY Zenon, <2>9, <4>2
      <4> QED BY <2>6, <4>1, <4>2
    <3>3. i \in 1 .. n
      BY <2>7
    <3> QED BY Zenon, <2>2, <2>8, <3>1, <3>2, <3>3
  <2> QED BY Zenon, <2>10, <2>11
<1>9. Bad = {}
  <2> SUFFICES ASSUME Bad # {}  PROVE FALSE
    OBVIOUS
  <2> HIDE DEF Good
  <2>1. Bad \in SUBSET Nat
    BY <1>2
  <2>2. PICK n \in Bad : \A m \in Bad : n <= m
    BY <2>1, SmallestExists
  <2>3. n \in 1 .. N /\ ~ Good(n)
    BY <2>2
  <2>4. n \in 2 .. N /\ n - 1 \in 1 .. N /\ ~ (n <= n - 1)
    BY <1>2, <1>7, <2>3
  <2>5. Good(n - 1)
    BY Zenon, <2>2, <2>4
  <2> QED BY <1>8, <2>3, <2>4, <2>5
<1>10. Good(N) /\ PickBestMatch(walk, rating) = best[N]
  <2>1. N \in 1 .. N
    BY <1>2, <1>3
  <2>2. Good(N)
    <3> HIDE DEF Good
    <3> QED BY <1>9, <2>1
  <2> QED BY Zenon, <1>5, <2>2
<1> DEFINE newest == CHOOSE e \in matches : \A f \in matches : f <= e
<1>11. newest = walk[1]
  <2>1. 1 \in 1 .. N /\ walk[1] \in matches
    BY <1>2, <1>3
  <2>2. ASSUME NEW f \in matches  PROVE f <= walk[1]
    <3>1. PICK k \in 1 .. N : walk[k] = f
      BY <1>2
    <3>2. k = 1 \/ 1 < k
      BY <1>2
    <3> QED BY <1>2, <1>6, <2>1, <3>1, <3>2
  <2>3. newest \in matches /\ \A f \in matches : f <= newest
    <3>1. \E e \in matches : \A f \in matches : f <= e
      BY <2>1, <2>2
    <3> QED BY Zenon, <3>1
  <2> HIDE DEF newest
  <2>4. newest \in Int /\ walk[1] \in Int /\ newest <= walk[1] /\ walk[1] <= newest
    BY <2>1, <2>2, <2>3
  <2> QED BY <2>4
<1>12. best[N] \in matches
  BY <1>2, <1>10
<1>13. ASSUME NEW f \in matches
       PROVE  /\ attached[best[N]] \subseteq attached[f] /\ LazyMajority(attached[best[N]], lazy)
                 => best[N] <= f
              /\ attached[best[N]] = attached[f] /\ ~ LazyMajority(attached[best[N]], lazy)
                 => best[N] >= f
  <2>1. PICK k \in 1 .. N : walk[k] = f
    BY <1>2
  <2> QED BY Zenon, <1>10, <2>1
<1>14. attached[newest] \subseteq attached[best[N]]
  BY Zenon, <1>10, <1>11
<1> HIDE DEF newest
<1> QED BY Zenon, <1>10, <1>12, <1>13, <1>14 DEF FollowsStrategy, newest, walk

=============================================================================
