-------------------- MODULE ExpectationCollection_proofs --------------------
(***************************************************************************)
(* Proofs about ExpectationCollection, for any number of threads, nested   *)
(* calls and expectations, as long as the calls of a thread match only     *)
(* expectations of its own.  The argument: whoever walks the collection    *)
(* holds the mutex, and what a call has chosen then belongs to its thread, *)
(* so that nobody else can use it up, or destroy it, until it is consumed. *)
(***************************************************************************)
EXTENDS ExpectationCollection, SequenceTheorems, TLAPS

Expectations == [min : 0 .. MaxTimes, max : 0 .. MaxTimes, count : 0 .. MaxTimes,
                 owner : Threads, alive : BOOLEAN]

Steps == {"lock", "walk", "consume", "store", "effects", "finalize"}

-----------------------------------------------------------------------------
(* The inductive invariant *)

\* Expectations are not over-saturated, and no more than the bound.
CountsAreLimited ==
    /\ Len(expectations) <= MaxExpectations
    /\ \A e \in Created : expectations[e].count <= expectations[e].max

\* The collection has every living expectation, once.
StoredAreAlive ==
    /\ \A e \in Created : expectations[e].alive <=> Stored(e)
    /\ \A i, j \in 1 .. Len(stored) : stored[i] = stored[j] => i = j

\* The mutex is held by the thread that walks the collection.
MutexHeld ==
    ~ terminated => \A t \in Threads :
        (stack[t] # << >> /\ Top(t).at = "walk") <=> mutex = t

\* The expectation e of xs lives and belongs to t.
IsOwn(xs, t, e) == e \in 1 .. Len(xs) /\ xs[e].alive /\ xs[e].owner = t

\* What a call of t has chosen, however deep the call is.
CallIsGood(xs, t, f) == f.best # 0 => IsOwn(xs, t, f.best)

\* The innermost call of a thread: what it has chosen is not yet saturated,
\* what it has read is still the count, and what it has yet to visit is
\* among the n stored expectations.
TopIsGood(xs, n, f) ==
    /\ f.at = "lock" => f.best = 0
    /\ f.at \in {"consume", "store"} => f.best # 0
    /\ f.at \in {"walk", "consume", "store"} /\ f.best # 0 =>
          xs[f.best].count < xs[f.best].max
    /\ f.at = "store" => f.read = xs[f.best].count
    /\ f.at = "walk" => f.todo <= n

\* Calls that are not innermost are in their side effects or finalizers.
StackIsGood(xs, n, t, frames) ==
    /\ \A i \in 1 .. Len(frames) : CallIsGood(xs, t, frames[i])
    /\ \A i \in 2 .. Len(frames) : frames[i].at \in {"effects", "finalize"}
    /\ frames # << >> => TopIsGood(xs, n, frames[1])

StacksAreGood ==
    \A t \in Threads : StackIsGood(expectations, Len(stored), t, stack[t])

\* t is between the load and the store of an increment.
Storing(t, e) == stack[t] # << >> /\ Top(t).at = "store" /\ Top(t).best = e

TakenIsCounted ==
    \A e \in Created :
        taken[e] = expectations[e].count +
                      IF Storing(expectations[e].owner, e) THEN 1 ELSE 0

IInv ==
    /\ TypeOK
    /\ CountsAreLimited
    /\ StoredAreAlive
    /\ MutexHeld
    /\ StacksAreGood
    /\ TakenIsCounted
    /\ asserted

-----------------------------------------------------------------------------
(* Sequences *)

LEMMA RemoveAtEffect ==
    ASSUME NEW S, NEW s \in Seq(S), NEW k \in 1 .. Len(s)
    PROVE  /\ RemoveAt(s, k) \in Seq(S)
           /\ Len(RemoveAt(s, k)) = Len(s) - 1
           /\ \A i \in 1 .. Len(s) - 1 :
                 RemoveAt(s, k)[i] = IF i < k THEN s[i] ELSE s[i + 1]
<1> DEFINE front == SubSeq(s, 1, k - 1)
           back == SubSeq(s, k + 1, Len(s))
<1>1. Len(s) \in Nat /\ k \in Nat /\ 1 <= k /\ k <= Len(s)
  BY LenProperties
<1>2. \A i \in 1 .. Len(s) : s[i] \in S
  BY ElementOfSeq
<1>3. front \in Seq(S) /\ Len(front) = k - 1 /\ \A i \in 1 .. k - 1 : front[i] = s[i]
  <2>1. \A i \in 1 .. k - 1 : s[i] \in S
    BY <1>1, <1>2
  <2>2. k - 1 \in Int
    BY <1>1
  <2>3. /\ SubSeq(s, 1, k - 1) \in Seq(S)
        /\ Len(SubSeq(s, 1, k - 1)) = IF 1 <= k - 1 THEN (k - 1) - 1 + 1 ELSE 0
        /\ \A i \in 1 .. (k - 1) - 1 + 1 : SubSeq(s, 1, k - 1)[i] = s[1 + i - 1]
    BY <2>1, <2>2, SubSeqProperties
  <2> QED BY <1>1, <2>3
<1>4. back \in Seq(S) /\ Len(back) = Len(s) - k /\ \A i \in 1 .. Len(s) - k : back[i] = s[k + i]
  <2>1. \A i \in k + 1 .. Len(s) : s[i] \in S
    BY <1>1, <1>2
  <2>2. k + 1 \in Int /\ Len(s) \in Int
    BY <1>1
  <2>3. /\ SubSeq(s, k + 1, Len(s)) \in Seq(S)
        /\ Len(SubSeq(s, k + 1, Len(s))) = IF k + 1 <= Len(s) THEN Len(s) - (k + 1) + 1 ELSE 0
        /\ \A i \in 1 .. Len(s) - (k + 1) + 1 : SubSeq(s, k + 1, Len(s))[i] = s[(k + 1) + i - 1]
    BY <2>1, <2>2, SubSeqProperties
  <2> QED BY <1>1, <2>3
<1>5. RemoveAt(s, k) = front \o back
  BY DEF RemoveAt
<1> HIDE DEF front, back
<1>6. /\ front \o back \in Seq(S)
      /\ Len(front \o back) = Len(front) + Len(back)
      /\ \A i \in 1 .. Len(front) + Len(back) :
            (front \o back)[i] = IF i <= Len(front) THEN front[i] ELSE back[i - Len(front)]
  BY <1>3, <1>4, ConcatProperties
<1>7. ASSUME NEW i \in 1 .. Len(s) - 1
      PROVE  (front \o back)[i] = IF i < k THEN s[i] ELSE s[i + 1]
  <2>1. CASE i < k
    BY <1>1, <1>3, <1>4, <1>6, <2>1
  <2>2. CASE ~ (i < k)
    <3>1. ~ (i <= Len(front)) /\ i - Len(front) \in 1 .. Len(s) - k /\ k + (i - Len(front)) = i + 1
      BY <1>1, <1>3, <2>2
    <3>2. i \in 1 .. Len(front) + Len(back)
      BY <1>1, <1>3, <1>4
    <3>3. (front \o back)[i] = back[i - Len(front)]
      BY <1>6, <3>1, <3>2
    <3>4. back[i - Len(front)] = s[k + (i - Len(front))]
      BY <1>4, <3>1
    <3> QED BY <2>2, <3>1, <3>3, <3>4
  <2> QED BY <2>1, <2>2
<1> QED BY <1>1, <1>3, <1>4, <1>5, <1>6, <1>7

LEMMA Types ==
    ASSUME TypeOK
    PROVE  /\ expectations \in Seq(Expectations) /\ Len(expectations) \in Nat
           /\ \A e \in Created : expectations[e] \in Expectations
           /\ stored \in Seq(Created) /\ Len(stored) \in Nat
           /\ \A i \in 1 .. Len(stored) : stored[i] \in Created
           /\ taken \in Seq(Nat) /\ Len(taken) = Len(expectations)
           /\ \A e \in Created : taken[e] \in Nat
           /\ \A t \in Threads : /\ stack[t] \in Seq(Call) /\ Len(stack[t]) \in Nat
                                 /\ \A i \in 1 .. Len(stack[t]) : stack[t][i] \in Call
                                 /\ stack[t] # << >> =>
                                       /\ Len(stack[t]) >= 1
                                       /\ Top(t) \in Call
<1>1. /\ expectations \in Seq(Expectations) /\ stored \in Seq(Created)
      /\ taken \in Seq(Nat) /\ Len(taken) = Len(expectations)
      /\ \A t \in Threads : stack[t] \in Seq(Call)
  BY DEF TypeOK, Expectations
<1>2. Len(expectations) \in Nat /\ \A e \in Created : expectations[e] \in Expectations
  BY <1>1, LenProperties, ElementOfSeq DEF Created
<1>3. Len(stored) \in Nat /\ \A i \in 1 .. Len(stored) : stored[i] \in Created
  BY <1>1, LenProperties, ElementOfSeq
<1>4. \A e \in Created : taken[e] \in Nat
  BY <1>1, ElementOfSeq DEF Created
<1>5. ASSUME NEW t \in Threads
      PROVE  /\ Len(stack[t]) \in Nat
             /\ \A i \in 1 .. Len(stack[t]) : stack[t][i] \in Call
             /\ stack[t] # << >> => Len(stack[t]) >= 1 /\ Top(t) \in Call
  <2>1. stack[t] \in Seq(Call)
    BY <1>1
  <2>2. Len(stack[t]) \in Nat /\ \A i \in 1 .. Len(stack[t]) : stack[t][i] \in Call
    BY <2>1, LenProperties, ElementOfSeq
  <2>3. stack[t] # << >> => Len(stack[t]) \in Nat \ {0}
    BY <2>1, EmptySeq
  <2> QED BY <2>2, <2>3 DEF Top
<1> QED BY <1>1, <1>2, <1>3, <1>4, <1>5

\* How a step of t changes its stack.
LEMMA BecomeEffect ==
    ASSUME TypeOK, NEW t \in Threads, stack[t] # << >>, NEW f \in Call, Become(t, f)
    PROVE  /\ stack' \in [Threads -> Seq(Call)]
           /\ \A u \in Threads \ {t} : stack'[u] = stack[u]
           /\ stack'[t] # << >> /\ stack'[t][1] = f
           /\ Len(stack'[t]) = Len(stack[t])
           /\ \A i \in 2 .. Len(stack[t]) : stack'[t][i] = stack[t][i]
<1> DEFINE new == <<f>> \o Tail(stack[t])
<1>1. /\ stack \in [Threads -> Seq(Call)] /\ stack[t] \in Seq(Call)
      /\ Len(stack[t]) \in Nat /\ Len(stack[t]) >= 1
  BY Types DEF TypeOK
<1>2. stack' = [stack EXCEPT ![t] = new]
  BY DEF Become
<1>3. /\ Tail(stack[t]) \in Seq(Call) /\ Len(Tail(stack[t])) = Len(stack[t]) - 1
      /\ \A i \in 1 .. Len(Tail(stack[t])) : Tail(stack[t])[i] = stack[t][i + 1]
  BY <1>1, HeadTailProperties
<1>4. <<f>> \in Seq(Call) /\ Len(<<f>>) = 1 /\ <<f>>[1] = f
  OBVIOUS
<1>5. /\ new \in Seq(Call) /\ Len(new) = Len(stack[t])
      /\ \A i \in 1 .. Len(stack[t]) : new[i] = IF i <= 1 THEN <<f>>[i] ELSE Tail(stack[t])[i - 1]
  BY <1>1, <1>3, <1>4, ConcatProperties
<1> HIDE DEF new
<1>6. new[1] = f
  BY <1>1, <1>4, <1>5
<1>7. \A i \in 2 .. Len(stack[t]) : new[i] = stack[t][i]
  <2> SUFFICES ASSUME NEW i \in 2 .. Len(stack[t])  PROVE new[i] = stack[t][i]
    OBVIOUS
  <2>1. i \in 1 .. Len(stack[t]) /\ ~ (i <= 1) /\ i - 1 \in 1 .. Len(Tail(stack[t]))
        /\ (i - 1) + 1 = i
    BY <1>1, <1>3
  <2> QED BY <1>3, <1>5, <2>1
<1>8. new # << >>
  BY <1>1, <1>5
<1> QED BY <1>1, <1>2, <1>5, <1>6, <1>7, <1>8

LEMMA ReturnEffect ==
    ASSUME TypeOK, NEW t \in Threads, stack[t] # << >>, Return(t)
    PROVE  /\ stack' \in [Threads -> Seq(Call)]
           /\ \A u \in Threads \ {t} : stack'[u] = stack[u]
           /\ Len(stack'[t]) = Len(stack[t]) - 1
           /\ \A i \in 1 .. Len(stack[t]) - 1 : stack'[t][i] = stack[t][i + 1]
<1>1. /\ stack \in [Threads -> Seq(Call)] /\ stack[t] \in Seq(Call)
  BY DEF TypeOK
<1>2. stack' = [stack EXCEPT ![t] = Tail(stack[t])]
  BY DEF Return
<1>3. /\ Tail(stack[t]) \in Seq(Call) /\ Len(Tail(stack[t])) = Len(stack[t]) - 1
      /\ \A i \in 1 .. Len(Tail(stack[t])) : Tail(stack[t])[i] = stack[t][i + 1]
  BY <1>1, HeadTailProperties
<1> QED BY <1>1, <1>2, <1>3

LEMMA EnterEffect ==
    ASSUME TypeOK, NEW t \in Threads, NEW f \in Call, Enter(t, f)
    PROVE  /\ stack' \in [Threads -> Seq(Call)]
           /\ \A u \in Threads \ {t} : stack'[u] = stack[u]
           /\ stack'[t] # << >> /\ stack'[t][1] = f
           /\ Len(stack'[t]) = Len(stack[t]) + 1
           /\ \A i \in 2 .. Len(stack[t]) + 1 : stack'[t][i] = stack[t][i - 1]
<1> DEFINE new == <<f>> \o stack[t]
<1>1. /\ stack \in [Threads -> Seq(Call)] /\ stack[t] \in Seq(Call) /\ Len(stack[t]) \in Nat
  BY Types DEF TypeOK
<1>2. stack' = [stack EXCEPT ![t] = new]
  BY DEF Enter
<1>3. <<f>> \in Seq(Call) /\ Len(<<f>>) = 1 /\ <<f>>[1] = f
  OBVIOUS
<1>4. /\ new \in Seq(Call) /\ Len(new) = 1 + Len(stack[t])
      /\ \A i \in 1 .. 1 + Len(stack[t]) : new[i] = IF i <= 1 THEN <<f>>[i] ELSE stack[t][i - 1]
  BY <1>1, <1>3, ConcatProperties
<1> HIDE DEF new
<1>5. new[1] = f /\ \A i \in 2 .. Len(stack[t]) + 1 : new[i] = stack[t][i - 1]
  BY <1>1, <1>3, <1>4
<1>6. new # << >>
  BY <1>1, <1>4
<1> QED BY <1>1, <1>2, <1>4, <1>5, <1>6

-----------------------------------------------------------------------------
(* Steps of a call that change no expectation *)

\* A stack after its innermost call has become f, has ended, or has called
\* the mock again.
LEMMA BecomeKeepsGood ==
    ASSUME NEW xs, NEW n, NEW ys, NEW m, NEW t, NEW old, NEW new, NEW f,
           StackIsGood(xs, n, t, old), Len(old) \in Nat,
           Len(new) = Len(old), new # << >>, new[1] = f,
           \A i \in 2 .. Len(old) : new[i] = old[i],
           CallIsGood(ys, t, f), TopIsGood(ys, m, f),
           \A i \in 2 .. Len(old) : IsOwn(xs, t, old[i].best) => IsOwn(ys, t, old[i].best)
    PROVE  StackIsGood(ys, m, t, new)
<1>1. ASSUME NEW i \in 1 .. Len(old), i # 1  PROVE CallIsGood(ys, t, new[i])
  <2>1. i \in 2 .. Len(old)
    BY <1>1
  <2>2. CallIsGood(xs, t, old[i])
    BY DEF StackIsGood
  <2> QED BY <2>1, <2>2 DEF CallIsGood
<1> QED BY <1>1 DEF StackIsGood

LEMMA ReturnKeepsGood ==
    ASSUME NEW xs, NEW n, NEW t, NEW old, NEW new \in Seq(Call),
           StackIsGood(xs, n, t, old), Len(old) \in Nat,
           Len(new) = Len(old) - 1,
           \A i \in 1 .. Len(old) - 1 : new[i] = old[i + 1]
    PROVE  /\ StackIsGood(xs, n, t, new)
           /\ new # << >> => new[1].at \in {"effects", "finalize"}
<1>1. ASSUME NEW i \in 1 .. Len(new)
      PROVE  CallIsGood(xs, t, new[i]) /\ new[i].at \in {"effects", "finalize"}
  <2>1. i + 1 \in 1 .. Len(old) /\ i + 1 \in 2 .. Len(old) /\ new[i] = old[i + 1]
    OBVIOUS
  <2> QED BY <2>1 DEF StackIsGood
<1>2. new # << >> => new[1].at \in {"effects", "finalize"}
  <2>1. new # << >> => Len(new) \in Nat \ {0}
    BY EmptySeq
  <2> QED BY <1>1, <2>1
<1>3. \A i \in 2 .. Len(new) : i \in 1 .. Len(new)
  OBVIOUS
<1>4. new # << >> => TopIsGood(xs, n, new[1])
  BY <1>2 DEF TopIsGood
<1> QED BY <1>1, <1>2, <1>3, <1>4 DEF StackIsGood

LEMMA EnterKeepsGood ==
    ASSUME NEW xs, NEW n, NEW t, NEW old \in Seq(Call), NEW new, NEW f,
           StackIsGood(xs, n, t, old),
           old # << >> => old[1].at \in {"effects", "finalize"},
           Len(new) = Len(old) + 1, new[1] = f,
           \A i \in 2 .. Len(old) + 1 : new[i] = old[i - 1],
           CallIsGood(xs, t, f), TopIsGood(xs, n, f)
    PROVE  StackIsGood(xs, n, t, new)
<1>1. Len(old) \in Nat
  BY LenProperties
<1>2. ASSUME NEW i \in 1 .. Len(old)  PROVE old[i].at \in {"effects", "finalize"}
  <2>1. old # << >>
    OBVIOUS
  <2>2. i = 1 \/ i \in 2 .. Len(old)
    BY <1>1
  <2> QED BY <2>1, <2>2 DEF StackIsGood
<1>3. ASSUME NEW i \in 2 .. Len(new)
      PROVE  CallIsGood(xs, t, new[i]) /\ new[i].at \in {"effects", "finalize"}
  <2>1. i - 1 \in 1 .. Len(old) /\ new[i] = old[i - 1]
    BY <1>1
  <2> QED BY <1>2, <2>1 DEF StackIsGood
<1>4. \A i \in 1 .. Len(new) : i = 1 \/ i \in 2 .. Len(new)
  BY <1>1
<1> QED BY <1>3, <1>4 DEF StackIsGood

LEMMA CallStep ==
    ASSUME IInv, NEW t \in Threads,
           stack' \in [Threads -> Seq(Call)],
           \A u \in Threads \ {t} : stack'[u] = stack[u],
           UNCHANGED <<expectations, stored, taken, asserted>>,
           calls' \in 0 .. MaxCalls, terminated' \in BOOLEAN, terminated => terminated',
           mutex' \in Threads \cup {NoThread}, MutexHeld',
           StackIsGood(expectations, Len(stored), t, stack'[t]),
           stack[t] # << >> => Top(t).at # "store",
           stack'[t] # << >> => stack'[t][1].at # "store"
    PROVE  IInv'
<1>1. /\ TypeOK /\ CountsAreLimited /\ StoredAreAlive /\ TakenIsCounted /\ asserted
      /\ StacksAreGood
  BY DEF IInv
<1>2. TypeOK'
  BY <1>1 DEF TypeOK, Created
<1>3. CountsAreLimited' /\ StoredAreAlive'
  BY <1>1 DEF CountsAreLimited, StoredAreAlive, Created, Stored
<1>4. StacksAreGood'
  BY <1>1 DEF StacksAreGood
<1>5. TakenIsCounted'
  <2> SUFFICES ASSUME NEW e \in Created
               PROVE  taken[e] = expectations[e].count +
                         IF Storing(expectations[e].owner, e)' THEN 1 ELSE 0
    BY DEF TakenIsCounted, Created, Storing, Top
  <2>1. expectations[e].owner \in Threads
    BY <1>1, Types DEF Expectations
  <2>2. Storing(expectations[e].owner, e)' = Storing(expectations[e].owner, e)
    <3>1. CASE expectations[e].owner = t
      BY <3>1 DEF Storing, Top
    <3>2. CASE expectations[e].owner # t
      BY <2>1, <3>2 DEF Storing, Top
    <3> QED BY <3>1, <3>2
  <2> QED BY <1>1, <2>2 DEF TakenIsCounted
<1> QED BY <1>1, <1>2, <1>3, <1>4, <1>5 DEF IInv

\* A step in which no thread starts or ends to walk.
LEMMA MutexKept ==
    ASSUME IInv, NEW t \in Threads, mutex' = mutex, terminated => terminated',
           \A u \in Threads \ {t} : stack'[u] = stack[u],
           (stack[t] # << >> /\ Top(t).at = "walk") <=> (stack'[t] # << >> /\ stack'[t][1].at = "walk")
    PROVE  MutexHeld'
  BY DEF IInv, MutexHeld, Top

-----------------------------------------------------------------------------

LEMMA StartCallPreserves ==
    ASSUME IInv, NEW t \in Threads, StartCall(t)
    PROVE  IInv'
<1>1. TypeOK /\ StackIsGood(expectations, Len(stored), t, stack[t])
  BY DEF IInv, StacksAreGood
<1>2. /\ calls < MaxCalls /\ calls' = calls + 1 /\ Enter(t, NewCall)
      /\ UNCHANGED <<mutex, stored, expectations, asserted, terminated, taken>>
      /\ stack[t] # << >> => stack[t][1].at \in {"effects", "finalize"}
  BY DEF StartCall, MayStart, Top
<1>3. /\ NewCall \in Call /\ NewCall.at = "lock" /\ NewCall.best = 0
  BY BoundAssumption DEF NewCall, Call
<1>4. /\ stack' \in [Threads -> Seq(Call)] /\ stack[t] \in Seq(Call)
      /\ \A u \in Threads \ {t} : stack'[u] = stack[u]
      /\ stack'[t] # << >> /\ stack'[t][1] = NewCall
      /\ Len(stack'[t]) = Len(stack[t]) + 1
      /\ \A i \in 2 .. Len(stack[t]) + 1 : stack'[t][i] = stack[t][i - 1]
  BY <1>1, <1>2, <1>3, EnterEffect, Types
<1>5. StackIsGood(expectations, Len(stored), t, stack'[t])
  <2>1. CallIsGood(expectations, t, NewCall) /\ TopIsGood(expectations, Len(stored), NewCall)
    BY <1>3 DEF CallIsGood, TopIsGood
  <2> QED BY <1>1, <1>2, <1>4, <2>1, EnterKeepsGood
<1>6. MutexHeld'
  BY <1>2, <1>3, <1>4, MutexKept DEF Top
<1>7. /\ stack[t] # << >> => Top(t).at # "store"
      /\ stack'[t] # << >> => stack'[t][1].at # "store"
  BY <1>2, <1>3, <1>4 DEF Top
<1>8. /\ calls' \in 0 .. MaxCalls /\ terminated' \in BOOLEAN
      /\ mutex' \in Threads \cup {NoThread}
  <2>1. calls \in 0 .. MaxCalls
    BY <1>1 DEF TypeOK
  <2>2. calls' \in 0 .. MaxCalls
    BY <1>2, <2>1, BoundAssumption
  <2> QED BY <1>1, <1>2, <2>2 DEF TypeOK
<1> QED BY <1>2, <1>4, <1>5, <1>6, <1>7, <1>8, CallStep

\* A call proceeds within handle_call: t's innermost call becomes f.
LEMMA BecomePreserves ==
    ASSUME IInv, NEW t \in Threads, stack[t] # << >>,
           NEW f \in Call, Become(t, f),
           CallIsGood(expectations, t, f), TopIsGood(expectations, Len(stored), f),
           Top(t).at # "store", f.at # "store",
           UNCHANGED <<stored, expectations, calls, asserted, terminated, taken>>,
           mutex' \in Threads \cup {NoThread}, MutexHeld'
    PROVE  IInv'
<1>1. TypeOK /\ StackIsGood(expectations, Len(stored), t, stack[t]) /\ Len(stack[t]) \in Nat
  BY Types DEF IInv, StacksAreGood
<1>2. /\ stack' \in [Threads -> Seq(Call)]
      /\ \A u \in Threads \ {t} : stack'[u] = stack[u]
      /\ stack'[t] # << >> /\ stack'[t][1] = f
      /\ Len(stack'[t]) = Len(stack[t])
      /\ \A i \in 2 .. Len(stack[t]) : stack'[t][i] = stack[t][i]
  BY <1>1, BecomeEffect
<1>3. StackIsGood(expectations, Len(stored), t, stack'[t])
  BY <1>1, <1>2, BecomeKeepsGood
<1>4. calls' \in 0 .. MaxCalls /\ terminated' \in BOOLEAN /\ (terminated => terminated')
  BY <1>1 DEF TypeOK
<1> QED BY <1>2, <1>3, <1>4, CallStep

\* What is known of the innermost call of a thread.
LEMMA TopFacts ==
    ASSUME IInv, NEW t \in Threads, stack[t] # << >>
    PROVE  /\ Top(t) \in Call
           /\ Top(t).at \in Steps /\ Top(t).todo \in Nat
           /\ Top(t).best \in 0 .. MaxExpectations /\ Top(t).read \in Nat
           /\ CallIsGood(expectations, t, Top(t))
           /\ TopIsGood(expectations, Len(stored), Top(t))
<1>1. TypeOK /\ StackIsGood(expectations, Len(stored), t, stack[t])
  BY DEF IInv, StacksAreGood
<1>2. Top(t) \in Call /\ Len(stack[t]) \in Nat /\ Len(stack[t]) >= 1
  BY <1>1, Types
<1>3. 1 \in 1 .. Len(stack[t])
  BY <1>2
<1> QED BY <1>1, <1>2, <1>3 DEF StackIsGood, Top, Call, Steps

LEMMA LockPreserves ==
    ASSUME IInv, NEW t \in Threads, Lock(t)
    PROVE  IInv'
<1> DEFINE f == [Top(t) EXCEPT !.at = "walk", !.todo = Len(stored)]
<1>1. /\ stack[t] # << >> /\ Top(t).at = "lock" /\ ~ terminated
      /\ mutex = NoThread /\ mutex' = t /\ Become(t, f)
      /\ UNCHANGED <<stored, expectations, calls, asserted, terminated, taken>>
  BY DEF Lock, At
<1>2. /\ Top(t) \in Call /\ TopIsGood(expectations, Len(stored), Top(t))
      /\ Len(stored) \in Nat /\ TypeOK
  BY <1>1, TopFacts, Types DEF IInv
<1>3. f \in Call /\ f.at = "walk" /\ f.todo = Len(stored) /\ f.best = Top(t).best
  BY <1>2 DEF Call
<1> HIDE DEF f
<1>4. CallIsGood(expectations, t, f) /\ TopIsGood(expectations, Len(stored), f)
  BY <1>1, <1>2, <1>3 DEF CallIsGood, TopIsGood
<1>5. MutexHeld'
  <2>1. /\ stack'[t] # << >> /\ stack'[t][1] = f
        /\ \A u \in Threads \ {t} : stack'[u] = stack[u]
    BY <1>1, <1>2, <1>3, BecomeEffect
  <2>2. \A u \in Threads : ~ (stack[u] # << >> /\ Top(u).at = "walk")
    BY <1>1, ThreadAssumption DEF IInv, MutexHeld
  <2> QED BY <1>1, <1>3, <2>1, <2>2 DEF MutexHeld, Top
<1> QED BY <1>1, <1>3, <1>4, <1>5, BecomePreserves

LEMMA VisitPreserves ==
    ASSUME IInv, NEW t \in Threads, ~ Shared, Visit(t)
    PROVE  IInv'
<1> DEFINE f == [Top(t) EXCEPT !.todo = @ - 1]
           e == stored[Top(t).todo]
           g == [f EXCEPT !.best = IF @ = 0 THEN e ELSE @]
<1>1. /\ stack[t] # << >> /\ Top(t).at = "walk" /\ ~ terminated /\ Top(t).todo > 0
      /\ \/ Become(t, f)
         \/ MayAccept(t, e) /\ ~ IsSaturated(e) /\ Become(t, g)
      /\ UNCHANGED <<mutex, stored, expectations, calls, asserted, terminated, taken>>
  BY DEF Visit, At
<1>2. /\ Top(t) \in Call /\ Top(t).todo \in Nat /\ Top(t).best \in 0 .. MaxExpectations
      /\ CallIsGood(expectations, t, Top(t))
      /\ TopIsGood(expectations, Len(stored), Top(t)) /\ TypeOK
  BY <1>1, TopFacts DEF IInv
<1>3. /\ f \in Call /\ f.at = "walk" /\ f.todo = Top(t).todo - 1 /\ f.best = Top(t).best
  BY <1>1, <1>2 DEF Call
<1>4. Top(t).todo \in 1 .. Len(stored) /\ Len(stored) \in Nat
  BY <1>1, <1>2, Types DEF TopIsGood
<1>5. e \in Created /\ expectations[e] \in Expectations
  BY <1>2, <1>4, Types
<1>6. e \in 1 .. MaxExpectations /\ e # 0
  BY <1>2, <1>5, BoundAssumption, Types DEF IInv, CountsAreLimited, Created
<1> HIDE DEF f, e
<1>7. /\ g \in Call /\ g.at = "walk" /\ g.todo = f.todo
      /\ g.best = IF Top(t).best = 0 THEN e ELSE Top(t).best
  BY <1>2, <1>3, <1>6 DEF Call
<1> HIDE DEF g
<1>8. CallIsGood(expectations, t, f) /\ TopIsGood(expectations, Len(stored), f)
  BY <1>1, <1>2, <1>3, <1>4 DEF CallIsGood, TopIsGood
<1>9. ASSUME MayAccept(t, e), ~ IsSaturated(e)
      PROVE  CallIsGood(expectations, t, g) /\ TopIsGood(expectations, Len(stored), g)
  <2>1. expectations[e].alive
    BY <1>4, <1>5 DEF IInv, StoredAreAlive, Stored, e
  <2>2. expectations[e].owner = t
    BY <1>9 DEF MayAccept
  <2>3. expectations[e].count < expectations[e].max
    <3>1. expectations[e].count <= expectations[e].max
      BY <1>5 DEF IInv, CountsAreLimited
    <3>2. expectations[e].count # expectations[e].max
      BY <1>9 DEF IsSaturated
    <3>3. expectations[e].count \in Int /\ expectations[e].max \in Int
      BY <1>5 DEF Expectations
    <3> QED BY <3>1, <3>2, <3>3
  <2>4. g.best = e \/ g.best = Top(t).best
    BY <1>7
  <2>5. IsOwn(expectations, t, e)
    BY <1>5, <2>1, <2>2 DEF IsOwn, Created
  <2>6. g.todo <= Len(stored)
    BY <1>2, <1>3, <1>4, <1>7
  <2> QED BY <1>1, <1>2, <1>6, <1>7, <2>3, <2>4, <2>5, <2>6 DEF CallIsGood, TopIsGood
<1>10. ASSUME NEW h \in {f, g}, Become(t, h)  PROVE MutexHeld'
  <2>1. /\ stack'[t] # << >> /\ stack'[t][1] = h
        /\ \A u \in Threads \ {t} : stack'[u] = stack[u]
    BY <1>1, <1>2, <1>3, <1>7, <1>10, BecomeEffect
  <2>2. h.at = "walk"
    BY <1>3, <1>7
  <2> QED BY <1>1, <2>1, <2>2, MutexKept
<1>11. mutex' \in Threads \cup {NoThread}
  BY <1>1, <1>2 DEF TypeOK
<1>12. CASE Become(t, f)
  <2>1. MutexHeld'
    BY <1>10, <1>12
  <2> QED BY <1>1, <1>3, <1>8, <1>11, <1>12, <2>1, BecomePreserves
<1>13. CASE MayAccept(t, e) /\ ~ IsSaturated(e) /\ Become(t, g)
  <2>1. MutexHeld'
    BY <1>10, <1>13
  <2> QED BY <1>1, <1>7, <1>9, <1>11, <1>13, <2>1, BecomePreserves
<1> QED BY <1>1, <1>12, <1>13

\* Walking has ended: nobody holds the mutex.
LEMMA WalkDoneFrees ==
    ASSUME IInv, NEW t \in Threads, At(t, "walk"), mutex' = NoThread,
           \A u \in Threads \ {t} : stack'[u] = stack[u],
           stack'[t] # << >> => stack'[t][1].at # "walk"
    PROVE  MutexHeld'
<1>1. \A u \in Threads : (stack[u] # << >> /\ Top(u).at = "walk") <=> mutex = u
  BY DEF IInv, MutexHeld, At
<1>2. mutex = t
  BY <1>1 DEF At
<1>3. \A u \in Threads : ~ (stack'[u] # << >> /\ stack'[u][1].at = "walk")
  BY <1>1, <1>2 DEF Top
<1> QED BY <1>3, ThreadAssumption DEF MutexHeld, Top

LEMMA MatchedPreserves ==
    ASSUME IInv, NEW t \in Threads, Matched(t)
    PROVE  IInv'
<1> DEFINE f == [Top(t) EXCEPT !.at = "consume"]
<1>1. /\ stack[t] # << >> /\ Top(t).at = "walk" /\ ~ terminated /\ At(t, "walk")
      /\ mutex' = NoThread /\ Top(t).best # 0 /\ Become(t, f)
      /\ UNCHANGED <<stored, expectations, calls, asserted, terminated, taken>>
  BY DEF Matched, WalkDone, At
<1>2. /\ Top(t) \in Call /\ CallIsGood(expectations, t, Top(t))
      /\ TopIsGood(expectations, Len(stored), Top(t)) /\ TypeOK
  BY <1>1, TopFacts DEF IInv
<1>3. f \in Call /\ f.at = "consume" /\ f.best = Top(t).best
  BY <1>2 DEF Call
<1> HIDE DEF f
<1>4. CallIsGood(expectations, t, f) /\ TopIsGood(expectations, Len(stored), f)
  BY <1>1, <1>2, <1>3 DEF CallIsGood, TopIsGood
<1>5. MutexHeld'
  BY <1>1, <1>2, <1>3, BecomeEffect, WalkDoneFrees
<1> QED BY <1>1, <1>3, <1>4, <1>5, BecomePreserves

LEMMA EffectsDonePreserves ==
    ASSUME IInv, NEW t \in Threads, EffectsDone(t)
    PROVE  IInv'
<1> DEFINE f == [Top(t) EXCEPT !.at = "finalize"]
<1>1. /\ stack[t] # << >> /\ Top(t).at = "effects" /\ ~ terminated /\ Become(t, f)
      /\ UNCHANGED <<mutex, stored, expectations, calls, asserted, terminated, taken>>
  BY DEF EffectsDone, At
<1>2. Top(t) \in Call /\ CallIsGood(expectations, t, Top(t)) /\ TypeOK
  BY <1>1, TopFacts DEF IInv
<1>3. f \in Call /\ f.at = "finalize" /\ f.best = Top(t).best
  BY <1>2 DEF Call
<1> HIDE DEF f
<1>4. CallIsGood(expectations, t, f) /\ TopIsGood(expectations, Len(stored), f)
  BY <1>2, <1>3 DEF CallIsGood, TopIsGood
<1>5. MutexHeld'
  <2>1. /\ stack'[t] # << >> /\ stack'[t][1] = f
        /\ \A u \in Threads \ {t} : stack'[u] = stack[u]
    BY <1>1, <1>2, <1>3, BecomeEffect
  <2> QED BY <1>1, <1>3, <2>1, MutexKept
<1>6. mutex' \in Threads \cup {NoThread}
  BY <1>1, <1>2 DEF TypeOK
<1> QED BY <1>1, <1>3, <1>4, <1>5, <1>6, BecomePreserves

LEMMA UnmatchedPreserves ==
    ASSUME IInv, NEW t \in Threads, Unmatched(t)
    PROVE  IInv'
<1>1. /\ stack[t] # << >> /\ Top(t).at = "walk" /\ ~ terminated /\ At(t, "walk")
      /\ mutex' = NoThread
      /\ \/ Return(t) /\ terminated' = terminated
         \/ terminated' = TRUE /\ stack' = stack
      /\ UNCHANGED <<stored, expectations, calls, asserted, taken>>
  BY DEF Unmatched, WalkDone, At, EndCall
<1>2. /\ TypeOK /\ StackIsGood(expectations, Len(stored), t, stack[t])
      /\ stack \in [Threads -> Seq(Call)] /\ Len(stack[t]) \in Nat
      /\ calls' \in 0 .. MaxCalls /\ mutex' \in Threads \cup {NoThread}
      /\ terminated \in BOOLEAN
  BY <1>1, Types DEF IInv, StacksAreGood, TypeOK
<1>3. CASE Return(t) /\ terminated' = terminated
  <2>1. /\ stack' \in [Threads -> Seq(Call)]
        /\ \A u \in Threads \ {t} : stack'[u] = stack[u]
        /\ Len(stack'[t]) = Len(stack[t]) - 1
        /\ \A i \in 1 .. Len(stack[t]) - 1 : stack'[t][i] = stack[t][i + 1]
    BY <1>1, <1>2, <1>3, ReturnEffect
  <2>2. /\ StackIsGood(expectations, Len(stored), t, stack'[t])
        /\ stack'[t] # << >> => stack'[t][1].at \in {"effects", "finalize"}
    BY <1>2, <2>1, ReturnKeepsGood
  <2>3. MutexHeld'
    BY <1>1, <2>1, <2>2, WalkDoneFrees
  <2> QED BY <1>1, <1>2, <1>3, <2>1, <2>2, <2>3, CallStep
<1>4. CASE terminated' = TRUE /\ stack' = stack
  <2>1. MutexHeld'
    BY <1>4 DEF MutexHeld
  <2> QED BY <1>1, <1>2, <1>4, <2>1, CallStep DEF Top
<1> QED BY <1>1, <1>3, <1>4

LEMMA FinalizePreserves ==
    ASSUME IInv, NEW t \in Threads, Finalize(t)
    PROVE  IInv'
<1>1. /\ stack[t] # << >> /\ Top(t).at = "finalize" /\ ~ terminated
      /\ \/ Return(t) /\ terminated' = terminated
         \/ terminated' = TRUE /\ stack' = stack
      /\ UNCHANGED <<mutex, stored, expectations, calls, asserted, taken>>
  BY DEF Finalize, At, EndCall
<1>2. /\ TypeOK /\ StackIsGood(expectations, Len(stored), t, stack[t])
      /\ stack \in [Threads -> Seq(Call)] /\ Len(stack[t]) \in Nat
      /\ calls' \in 0 .. MaxCalls /\ mutex' \in Threads \cup {NoThread}
      /\ terminated \in BOOLEAN
  BY <1>1, Types DEF IInv, StacksAreGood, TypeOK
<1>3. CASE Return(t) /\ terminated' = terminated
  <2>1. /\ stack' \in [Threads -> Seq(Call)]
        /\ \A u \in Threads \ {t} : stack'[u] = stack[u]
        /\ Len(stack'[t]) = Len(stack[t]) - 1
        /\ \A i \in 1 .. Len(stack[t]) - 1 : stack'[t][i] = stack[t][i + 1]
    BY <1>1, <1>2, <1>3, ReturnEffect
  <2>2. /\ StackIsGood(expectations, Len(stored), t, stack'[t])
        /\ stack'[t] # << >> => stack'[t][1].at \in {"effects", "finalize"}
    BY <1>2, <2>1, ReturnKeepsGood
  <2>3. MutexHeld'
    BY <1>1, <1>3, <2>1, <2>2, MutexKept
  <2> QED BY <1>1, <1>2, <1>3, <2>1, <2>2, <2>3, CallStep
<1>4. CASE terminated' = TRUE /\ stack' = stack
  <2>1. MutexHeld'
    BY <1>4 DEF MutexHeld
  <2> QED BY <1>1, <1>2, <1>4, <2>1, CallStep DEF Top
<1> QED BY <1>1, <1>3, <1>4

-----------------------------------------------------------------------------
(* consume *)

LEMMA BeginConsumePreserves ==
    ASSUME IInv, NEW t \in Threads, BeginConsume(t)
    PROVE  /\ IInv'
           /\ expectations[Top(t).best].alive
           /\ Top(t).best \in Created
           /\ taken[Top(t).best] < expectations[Top(t).best].max
<1> DEFINE e == Top(t).best
           f == [Top(t) EXCEPT !.at = "store", !.read = expectations[e].count]
<1>1. /\ stack[t] # << >> /\ Top(t).at = "consume" /\ ~ terminated /\ Become(t, f)
      /\ asserted' = (asserted /\ expectations[e].count < expectations[e].max)
      /\ taken' = [taken EXCEPT ![e] = @ + 1]
      /\ UNCHANGED <<mutex, stored, expectations, calls, terminated>>
  BY DEF BeginConsume, At
<1>2. /\ Top(t) \in Call /\ CallIsGood(expectations, t, Top(t))
      /\ TopIsGood(expectations, Len(stored), Top(t))
      /\ TypeOK /\ StacksAreGood /\ Len(stack[t]) \in Nat
  BY <1>1, TopFacts, Types DEF IInv
<1>3. /\ e # 0 /\ e \in Created /\ expectations[e].alive /\ expectations[e].owner = t
      /\ expectations[e].count < expectations[e].max
  BY <1>1, <1>2 DEF CallIsGood, TopIsGood, IsOwn, Created
<1>4. expectations[e] \in Expectations /\ taken[e] \in Nat
      /\ taken \in Seq(Nat) /\ Len(taken) = Len(expectations)
  BY <1>2, <1>3, Types
<1>5. f \in Call /\ f.at = "store" /\ f.best = e /\ f.read = expectations[e].count
  <2>1. expectations[e].count \in Nat
    BY <1>4, BoundAssumption DEF Expectations
  <2> QED BY <1>2, <2>1 DEF Call
<1>6. CallIsGood(expectations, t, f) /\ TopIsGood(expectations, Len(stored), f)
  <2> HIDE DEF f
  <2> QED BY <1>3, <1>5 DEF CallIsGood, TopIsGood, IsOwn, Created
<1> HIDE DEF f, e
<1>7. /\ stack' \in [Threads -> Seq(Call)]
      /\ \A u \in Threads \ {t} : stack'[u] = stack[u]
      /\ stack'[t] # << >> /\ stack'[t][1] = f
      /\ Len(stack'[t]) = Len(stack[t])
      /\ \A i \in 2 .. Len(stack[t]) : stack'[t][i] = stack[t][i]
  BY <1>1, <1>2, <1>5, BecomeEffect
<1>8. StackIsGood(expectations, Len(stored), t, stack'[t])
  <2>1. StackIsGood(expectations, Len(stored), t, stack[t])
    BY <1>2 DEF StacksAreGood
  <2> QED BY <1>2, <1>6, <1>7, <2>1, BecomeKeepsGood
<1>9. StacksAreGood'
  BY <1>1, <1>2, <1>7, <1>8 DEF StacksAreGood
<1>10. /\ taken' \in Seq(Nat) /\ Len(taken') = Len(taken)
       /\ \A g \in Created : taken'[g] = IF g = e THEN taken[e] + 1 ELSE taken[g]
  <2>1. taken[e] + 1 \in Nat /\ e \in 1 .. Len(taken)
    BY <1>3, <1>4 DEF Created
  <2> QED BY <1>1, <1>4, <2>1, ExceptSeq DEF Created
<1>11. TypeOK'
  BY <1>1, <1>2, <1>7, <1>10 DEF TypeOK, Created
<1>12. MutexHeld'
  BY <1>1, <1>5, <1>7, MutexKept
<1>13. CountsAreLimited' /\ StoredAreAlive'
  BY <1>1 DEF IInv, CountsAreLimited, StoredAreAlive, Created, Stored
<1>14. taken[e] = expectations[e].count
  <2>1. taken[e] = expectations[e].count + IF Storing(t, e) THEN 1 ELSE 0
    BY <1>3 DEF IInv, TakenIsCounted
  <2>2. ~ Storing(t, e)
    BY <1>1 DEF Storing
  <2>3. expectations[e].count \in Int
    BY <1>4 DEF Expectations
  <2> QED BY <2>1, <2>2, <2>3
<1>15. TakenIsCounted'
  <2> SUFFICES ASSUME NEW g \in Created
               PROVE  taken'[g] = expectations[g].count +
                         IF Storing(expectations[g].owner, g)' THEN 1 ELSE 0
    BY <1>1 DEF TakenIsCounted, Created, Storing, Top
  <2>1. CASE g = e
    <3>1. Storing(expectations[g].owner, g)'
      BY <1>1, <1>3, <1>5, <1>7, <2>1 DEF Storing, Top
    <3>2. taken'[g] = taken[e] + 1
      BY <1>10, <2>1
    <3> QED BY <1>14, <2>1, <3>1, <3>2
  <2>2. CASE g # e
    <3>1. expectations[g].owner \in Threads
      BY <1>2, Types DEF Expectations
    <3>2. Storing(expectations[g].owner, g)' = Storing(expectations[g].owner, g)
      <4>1. CASE expectations[g].owner = t
        BY <1>1, <1>5, <1>7, <2>2, <4>1 DEF Storing, Top
      <4>2. CASE expectations[g].owner # t
        BY <1>1, <1>7, <3>1, <4>2 DEF Storing, Top
      <4> QED BY <4>1, <4>2
    <3>3. taken'[g] = taken[g]
      BY <1>10, <2>2
    <3> QED BY <3>2, <3>3 DEF IInv, TakenIsCounted
  <2> QED BY <2>1, <2>2
<1>16. asserted'
  BY <1>1, <1>3 DEF IInv
<1>17. IInv'
  BY <1>9, <1>11, <1>12, <1>13, <1>15, <1>16 DEF IInv
<1> QED BY <1>3, <1>14, <1>17 DEF e

\* One expectation changes in its count only, or dies.
LEMMA ChangeEffect ==
    ASSUME TypeOK, NEW e \in Created, NEW y \in Expectations,
           expectations' = [expectations EXCEPT ![e] = y]
    PROVE  /\ expectations' \in Seq(Expectations)
           /\ Len(expectations') = Len(expectations) /\ Created' = Created
           /\ expectations'[e] = y
           /\ \A g \in Created \ {e} : expectations'[g] = expectations[g]
<1>1. expectations \in Seq(Expectations)
  BY Types
<1>2. /\ expectations' \in Seq(Expectations)
      /\ Len(expectations') = Len(expectations)
      /\ \A g \in Created : expectations'[g] = IF g = e THEN y ELSE expectations[g]
  BY <1>1, ExceptSeq DEF Created
<1>3. Created' = Created
  BY <1>2 DEF Created
<1> QED BY <1>2, <1>3

LEMMA EndConsumePreserves ==
    ASSUME IInv, NEW t \in Threads, EndConsume(t)
    PROVE  /\ IInv'
           /\ Len(expectations') = Len(expectations)
           /\ \A g \in Created : /\ expectations'[g].min = expectations[g].min
                                 /\ expectations'[g].max = expectations[g].max
                                 /\ expectations'[g].alive = expectations[g].alive
<1> DEFINE e == Top(t).best
           f == [Top(t) EXCEPT !.at = "effects"]
           y == [expectations[e] EXCEPT !.count = Top(t).read + 1]
<1>1. /\ stack[t] # << >> /\ Top(t).at = "store" /\ ~ terminated /\ Become(t, f)
      /\ expectations' = [expectations EXCEPT ![e] = y]
      /\ UNCHANGED <<mutex, stored, calls, asserted, terminated, taken>>
  BY DEF EndConsume, At
<1>2. /\ Top(t) \in Call /\ CallIsGood(expectations, t, Top(t))
      /\ TopIsGood(expectations, Len(stored), Top(t))
      /\ TypeOK /\ StacksAreGood /\ Len(stack[t]) \in Nat
  BY <1>1, TopFacts, Types DEF IInv
<1>3. /\ e # 0 /\ e \in Created /\ expectations[e].alive /\ expectations[e].owner = t
      /\ expectations[e].count < expectations[e].max
      /\ Top(t).read = expectations[e].count
  BY <1>1, <1>2 DEF CallIsGood, TopIsGood, IsOwn, Created
<1>4. expectations[e] \in Expectations
  BY <1>2, <1>3, Types
<1>5. /\ y \in Expectations /\ y.count = expectations[e].count + 1 /\ y.count <= y.max
      /\ y.min = expectations[e].min /\ y.max = expectations[e].max
      /\ y.alive = expectations[e].alive /\ y.owner = expectations[e].owner
  <2>1. /\ expectations[e].count \in 0 .. MaxTimes /\ expectations[e].max \in 0 .. MaxTimes
        /\ expectations[e].min \in 0 .. MaxTimes
    BY <1>4 DEF Expectations
  <2>2. expectations[e].count + 1 \in 0 .. MaxTimes
        /\ expectations[e].count + 1 <= expectations[e].max
    BY <1>3, <2>1, BoundAssumption
  <2> QED BY <1>3, <1>4, <2>2 DEF Expectations
<1>6. f \in Call /\ f.at = "effects" /\ f.best = e
  BY <1>2 DEF Call
<1> HIDE DEF f, e, y
<1>7. /\ expectations' \in Seq(Expectations)
      /\ Len(expectations') = Len(expectations) /\ Created' = Created
      /\ expectations'[e] = y
      /\ \A g \in Created \ {e} : expectations'[g] = expectations[g]
  BY <1>1, <1>2, <1>3, <1>5, ChangeEffect
<1>8. /\ stack' \in [Threads -> Seq(Call)]
      /\ \A u \in Threads \ {t} : stack'[u] = stack[u]
      /\ stack'[t] # << >> /\ stack'[t][1] = f
      /\ Len(stack'[t]) = Len(stack[t])
      /\ \A i \in 2 .. Len(stack[t]) : stack'[t][i] = stack[t][i]
  BY <1>1, <1>2, <1>6, BecomeEffect
<1>9. \A g \in Created : /\ expectations'[g].min = expectations[g].min
                         /\ expectations'[g].max = expectations[g].max
                         /\ expectations'[g].alive = expectations[g].alive
                         /\ expectations'[g].owner = expectations[g].owner
  BY <1>5, <1>7
<1>10. \A u : \A g : IsOwn(expectations, u, g) => IsOwn(expectations', u, g)
  BY <1>7, <1>9 DEF IsOwn, Created
<1>11. StackIsGood(expectations', Len(stored), t, stack'[t])
  <2>1. StackIsGood(expectations, Len(stored), t, stack[t])
    BY <1>2 DEF StacksAreGood
  <2>2. IsOwn(expectations, t, e)
    BY <1>3 DEF IsOwn, Created
  <2>3. CallIsGood(expectations', t, f) /\ TopIsGood(expectations', Len(stored), f)
    BY <1>6, <1>10, <2>2 DEF CallIsGood, TopIsGood
  <2> QED BY <1>2, <1>8, <1>10, <2>1, <2>3, BecomeKeepsGood
<1>12. StacksAreGood'
  <2> SUFFICES ASSUME NEW u \in Threads, u # t
               PROVE  StackIsGood(expectations', Len(stored), u, stack[u])
    BY <1>1, <1>8, <1>11 DEF StacksAreGood
  <2>1. StackIsGood(expectations, Len(stored), u, stack[u])
    BY <1>2 DEF StacksAreGood
  <2>2. Len(stack[u]) \in Nat /\ (stack[u] # << >> => 1 \in 1 .. Len(stack[u]))
    BY <1>2, Types
  <2>3. ASSUME stack[u] # << >>, stack[u][1].best # 0
        PROVE  expectations'[stack[u][1].best] = expectations[stack[u][1].best]
    <3>1. IsOwn(expectations, u, stack[u][1].best)
      BY <2>1, <2>2, <2>3 DEF StackIsGood, CallIsGood
    <3>2. stack[u][1].best \in Created /\ stack[u][1].best # e
      BY <1>3, <3>1 DEF IsOwn, Created
    <3> QED BY <1>7, <3>2
  <2>4. \A i \in 1 .. Len(stack[u]) : CallIsGood(expectations', u, stack[u][i])
    BY <1>10, <2>1 DEF StackIsGood, CallIsGood
  <2>5. stack[u] # << >> => TopIsGood(expectations', Len(stored), stack[u][1])
    BY <2>1, <2>3 DEF StackIsGood, TopIsGood
  <2> QED BY <2>1, <2>4, <2>5 DEF StackIsGood
<1>13. TypeOK'
  BY <1>1, <1>2, <1>7, <1>8 DEF TypeOK, Expectations
<1>14. MutexHeld'
  BY <1>1, <1>6, <1>8, MutexKept
<1>15. CountsAreLimited'
  BY <1>5, <1>7 DEF IInv, CountsAreLimited
<1>16. StoredAreAlive'
  BY <1>1, <1>7, <1>9 DEF IInv, StoredAreAlive, Stored
<1>17. TakenIsCounted'
  <2> SUFFICES ASSUME NEW g \in Created
               PROVE  taken[g] = expectations'[g].count +
                         IF Storing(expectations[g].owner, g)' THEN 1 ELSE 0
    BY <1>1, <1>7, <1>9 DEF TakenIsCounted, Storing, Top
  <2>0. taken[g] = expectations[g].count + IF Storing(expectations[g].owner, g) THEN 1 ELSE 0
    BY DEF IInv, TakenIsCounted
  <2>1. CASE g = e
    <3>1. Storing(expectations[g].owner, g) /\ ~ Storing(t, g)'
      BY <1>1, <1>3, <1>6, <1>8, <2>1 DEF Storing, Top, e
    <3>2. ~ Storing(expectations[g].owner, g)'
      BY <1>3, <1>9, <2>1, <3>1
    <3>3. expectations[g].count \in Int
      BY <1>4, <2>1 DEF Expectations
    <3> QED BY <1>5, <1>7, <2>0, <2>1, <3>1, <3>2, <3>3
  <2>2. CASE g # e
    <3>1. expectations[g].owner \in Threads /\ expectations'[g] = expectations[g]
      BY <1>2, <1>7, <2>2, Types DEF Expectations
    <3>2. Storing(expectations[g].owner, g)' = Storing(expectations[g].owner, g)
      <4>1. CASE expectations[g].owner = t
        BY <1>1, <1>6, <1>8, <2>2, <3>1, <4>1 DEF Storing, Top, e
      <4>2. CASE expectations[g].owner # t
        BY <1>8, <3>1, <4>2 DEF Storing, Top
      <4> QED BY <4>1, <4>2
    <3> QED BY <2>0, <3>1, <3>2
  <2> QED BY <2>1, <2>2
<1>18. IInv'
  BY <1>1, <1>12, <1>13, <1>14, <1>15, <1>16, <1>17 DEF IInv
<1> QED BY <1>7, <1>9, <1>18

-----------------------------------------------------------------------------
(* push and remove *)

\* Nobody walks while the mutex is free.
LEMMA NobodyWalks ==
    ASSUME IInv, ~ terminated, mutex = NoThread, NEW u \in Threads, stack[u] # << >>
    PROVE  stack[u][1].at # "walk"
  BY ThreadAssumption DEF IInv, MutexHeld, Top

LEMMA PushPreserves ==
    ASSUME IInv, NEW t \in Threads,
           NEW limits \in (0 .. MaxTimes) \X (0 .. MaxTimes), Push(t, limits)
    PROVE  IInv'
<1> DEFINE n == Len(expectations)
           x == [min |-> limits[1], max |-> limits[2], count |-> 0,
                 owner |-> t, alive |-> TRUE]
<1>1. /\ ~ terminated /\ mutex = NoThread /\ n < MaxExpectations
      /\ limits[1] <= limits[2]
      /\ expectations' = Append(expectations, x)
      /\ stored' = Append(stored, n + 1)
      /\ taken' = Append(taken, 0)
      /\ asserted' = (asserted /\ ~ Stored(n + 1))
      /\ UNCHANGED <<mutex, stack, calls, terminated>>
  BY DEF Push, MayStart
<1>2. /\ TypeOK /\ CountsAreLimited /\ StoredAreAlive /\ StacksAreGood
      /\ TakenIsCounted /\ asserted
  BY DEF IInv
<1>3. /\ expectations \in Seq(Expectations) /\ n \in Nat
      /\ stored \in Seq(Created) /\ Len(stored) \in Nat
      /\ \A i \in 1 .. Len(stored) : stored[i] \in Created
      /\ taken \in Seq(Nat) /\ Len(taken) = n
  BY <1>2, Types
<1>4. /\ x \in Expectations /\ x.count = 0 /\ x.alive = TRUE /\ x.owner = t
      /\ x.count <= x.max
  BY BoundAssumption DEF Expectations
<1> HIDE DEF x
<1>5. /\ expectations' \in Seq(Expectations) /\ Len(expectations') = n + 1
      /\ \A e \in Created : expectations'[e] = expectations[e]
      /\ expectations'[n + 1] = x
  BY <1>1, <1>3, <1>4, AppendProperties DEF Created
<1>6. Created' = Created \cup {n + 1} /\ n + 1 \notin Created
  BY <1>3, <1>5 DEF Created
<1>7. /\ stored' \in Seq(Created') /\ Len(stored') = Len(stored) + 1
      /\ \A i \in 1 .. Len(stored) : stored'[i] = stored[i]
      /\ stored'[Len(stored) + 1] = n + 1
  <2>1. stored \in Seq(Created \cup {n + 1})
    BY <1>3, SeqMonotonic
  <2> HIDE DEF n
  <2>2. n + 1 \in Created \cup {n + 1}
    OBVIOUS
  <2> QED BY <1>1, <1>6, <2>1, <2>2, AppendProperties
<1>8. /\ taken' \in Seq(Nat) /\ Len(taken') = n + 1
      /\ \A e \in Created : taken'[e] = taken[e]
      /\ taken'[n + 1] = 0
  BY <1>1, <1>3, AppendProperties DEF Created
<1> HIDE DEF n
<1>9. TypeOK'
  BY <1>1, <1>2, <1>5, <1>7, <1>8 DEF TypeOK, Expectations
<1>10. CountsAreLimited'
  <2>1. n + 1 <= MaxExpectations
    BY <1>1, <1>3, BoundAssumption
  <2> QED BY <1>2, <1>4, <1>5, <1>6, <2>1 DEF CountsAreLimited
<1>11. ASSUME NEW e \in Created'
       PROVE  Stored(e)' <=> e = n + 1 \/ Stored(e)
  <2>1. ASSUME NEW i \in 1 .. Len(stored'), stored'[i] = e
        PROVE  e = n + 1 \/ Stored(e)
    <3>1. i = Len(stored) + 1 \/ i \in 1 .. Len(stored)
      BY <1>3, <1>7
    <3> QED BY <1>7, <2>1, <3>1 DEF Stored
  <2>2. CASE e = n + 1
    <3>1. Len(stored) + 1 \in 1 .. Len(stored')
      BY <1>3, <1>7
    <3> QED BY <1>7, <2>2, <3>1 DEF Stored
  <2>3. ASSUME Stored(e)  PROVE Stored(e)'
    <3>1. PICK i \in 1 .. Len(stored) : stored[i] = e
      BY <2>3 DEF Stored
    <3>2. i \in 1 .. Len(stored') /\ stored'[i] = e
      BY <1>3, <1>7, <3>1
    <3> QED BY <3>2 DEF Stored
  <2> QED BY <2>1, <2>2, <2>3 DEF Stored
<1>12. ~ Stored(n + 1)
  BY <1>3, <1>6 DEF Stored
<1>13. StoredAreAlive'
  <2>1. \A e \in Created' : expectations'[e].alive <=> Stored(e)'
    BY <1>2, <1>4, <1>5, <1>6, <1>11 DEF StoredAreAlive
  <2>2. ASSUME NEW i \in 1 .. Len(stored'), NEW j \in 1 .. Len(stored'),
               stored'[i] = stored'[j]
        PROVE  i = j
    <3>1. /\ i = Len(stored) + 1 \/ i \in 1 .. Len(stored)
          /\ j = Len(stored) + 1 \/ j \in 1 .. Len(stored)
      BY <1>3, <1>7
    <3>2. \A k \in 1 .. Len(stored) : stored'[k] = stored[k] /\ stored[k] # n + 1
      BY <1>7, <1>12 DEF Stored
    <3> QED BY <1>2, <1>7, <2>2, <3>1, <3>2 DEF StoredAreAlive
  <2> QED BY <2>1, <2>2 DEF StoredAreAlive
<1>14. MutexHeld'
  BY <1>1 DEF IInv, MutexHeld, Top
<1>15. StacksAreGood'
  <2> SUFFICES ASSUME NEW u \in Threads
               PROVE  StackIsGood(expectations', Len(stored'), u, stack[u])
    BY <1>1 DEF StacksAreGood
  <2>1. StackIsGood(expectations, Len(stored), u, stack[u]) /\ Len(stack[u]) \in Nat
        /\ (stack[u] # << >> => 1 \in 1 .. Len(stack[u]))
    BY <1>2, Types DEF StacksAreGood
  <2>2. \A e : IsOwn(expectations, u, e) =>
           IsOwn(expectations', u, e) /\ expectations'[e] = expectations[e]
    BY <1>3, <1>5 DEF IsOwn, Created, n
  <2>3. \A i \in 1 .. Len(stack[u]) : CallIsGood(expectations', u, stack[u][i])
    BY <2>1, <2>2 DEF StackIsGood, CallIsGood
  <2>4. ASSUME stack[u] # << >>  PROVE TopIsGood(expectations', Len(stored'), stack[u][1])
    <3>1. stack[u][1].at # "walk"
      BY <1>1, <2>4, NobodyWalks
    <3>2. /\ TopIsGood(expectations, Len(stored), stack[u][1])
          /\ CallIsGood(expectations, u, stack[u][1])
      BY <2>1, <2>4 DEF StackIsGood
    <3>3. stack[u][1].best # 0 => expectations'[stack[u][1].best] = expectations[stack[u][1].best]
      BY <2>2, <3>2 DEF CallIsGood
    <3> QED BY <3>1, <3>2, <3>3 DEF TopIsGood
  <2> QED BY <2>1, <2>3, <2>4 DEF StackIsGood
<1>16. TakenIsCounted'
  <2> SUFFICES ASSUME NEW e \in Created'
               PROVE  taken'[e] = expectations'[e].count +
                         IF Storing(expectations'[e].owner, e) THEN 1 ELSE 0
    BY <1>1 DEF TakenIsCounted, Storing, Top
  <2>1. CASE e = n + 1
    <3>1. ~ Storing(t, e)
      <4>1. ASSUME Storing(t, e)  PROVE FALSE
        <5>1. CallIsGood(expectations, t, Top(t))
          BY <4>1, TopFacts DEF Storing
        <5>2. e # 0
          BY <1>3, <2>1
        <5> QED BY <1>6, <2>1, <4>1, <5>1, <5>2 DEF Storing, CallIsGood, IsOwn, Created
      <4> QED BY <4>1
    <3> QED BY <1>4, <1>5, <1>8, <2>1, <3>1
  <2>2. CASE e \in Created
    BY <1>2, <1>5, <1>8, <2>2 DEF TakenIsCounted
  <2> QED BY <1>6, <2>1, <2>2
<1>17. asserted'
  BY <1>1, <1>2, <1>12
<1> QED BY <1>9, <1>10, <1>13, <1>14, <1>15, <1>16, <1>17 DEF IInv

LEMMA RemovePreserves ==
    ASSUME IInv, NEW t \in Threads, NEW e \in Created, RemoveAndDestroy(t, e)
    PROVE  IInv'
<1> DEFINE y == [expectations[e] EXCEPT !.alive = FALSE]
           k == Position(e)
<1>1. /\ ~ terminated /\ mutex = NoThread
      /\ \A i \in 1 .. Len(stack[t]) : stack[t][i].best # e
      /\ expectations[e].owner = t /\ expectations[e].alive
      /\ asserted' = (asserted /\ Stored(e))
      /\ stored' = RemoveAt(stored, k)
      /\ expectations' = [expectations EXCEPT ![e] = y]
      /\ UNCHANGED <<mutex, stack, calls, terminated, taken>>
  BY DEF RemoveAndDestroy, MayStart
<1>2. /\ TypeOK /\ CountsAreLimited /\ StoredAreAlive /\ StacksAreGood
      /\ TakenIsCounted /\ asserted
  BY DEF IInv
<1>3. /\ expectations[e] \in Expectations
      /\ stored \in Seq(Created) /\ Len(stored) \in Nat
  BY <1>2, Types
<1>4. Stored(e)
  BY <1>1, <1>2 DEF StoredAreAlive
<1>5. k \in 1 .. Len(stored) /\ stored[k] = e
  BY <1>4 DEF Stored, Position
<1> HIDE DEF k
<1>6. /\ stored' \in Seq(Created) /\ Len(stored') = Len(stored) - 1
      /\ \A i \in 1 .. Len(stored) - 1 : stored'[i] = IF i < k THEN stored[i] ELSE stored[i + 1]
  BY <1>1, <1>3, <1>5, RemoveAtEffect
<1>7. /\ y \in Expectations /\ y.alive = FALSE /\ y.count = expectations[e].count
      /\ y.max = expectations[e].max /\ y.owner = expectations[e].owner
  BY <1>3 DEF Expectations
<1> HIDE DEF y
<1>8. /\ expectations' \in Seq(Expectations)
      /\ Len(expectations') = Len(expectations) /\ Created' = Created
      /\ expectations'[e] = y
      /\ \A g \in Created \ {e} : expectations'[g] = expectations[g]
  BY <1>1, <1>2, <1>7, ChangeEffect
<1>9. TypeOK'
  BY <1>1, <1>2, <1>6, <1>8 DEF TypeOK, Expectations
<1>10. CountsAreLimited'
  BY <1>2, <1>7, <1>8 DEF CountsAreLimited
<1>11. \A i, j \in 1 .. Len(stored) : stored[i] = stored[j] => i = j
  BY <1>2 DEF StoredAreAlive
<1>12. ASSUME NEW i \in 1 .. Len(stored')
       PROVE  \E m \in 1 .. Len(stored) : /\ stored'[i] = stored[m] /\ m # k
                                          /\ m = IF i < k THEN i ELSE i + 1
  <2>1. i \in 1 .. Len(stored) - 1
    BY <1>6
  <2>2. CASE i < k
    BY <1>3, <1>5, <1>6, <2>1, <2>2
  <2>3. CASE ~ (i < k)
    <3>1. i + 1 \in 1 .. Len(stored) /\ i + 1 # k
      BY <1>3, <1>5, <2>1, <2>3
    <3> QED BY <1>6, <2>1, <2>3, <3>1
  <2> QED BY <2>2, <2>3
<1>13. ASSUME NEW g \in Created  PROVE Stored(g)' <=> Stored(g) /\ g # e
  <2>1. ASSUME NEW i \in 1 .. Len(stored'), stored'[i] = g  PROVE Stored(g) /\ g # e
    BY <1>5, <1>11, <1>12, <2>1 DEF Stored
  <2>2. ASSUME Stored(g), g # e  PROVE \E i \in 1 .. Len(stored') : stored'[i] = g
    <3>1. PICK m \in 1 .. Len(stored) : stored[m] = g
      BY <2>2 DEF Stored
    <3>2. m # k
      BY <1>5, <2>2, <3>1
    <3>3. CASE m < k
      <4>1. m \in 1 .. Len(stored) - 1 /\ m \in 1 .. Len(stored')
        BY <1>3, <1>5, <1>6, <3>3
      <4> QED BY <1>6, <3>1, <3>3, <4>1
    <3>4. CASE ~ (m < k)
      <4>1. m - 1 \in 1 .. Len(stored) - 1 /\ m - 1 \in 1 .. Len(stored')
            /\ ~ (m - 1 < k) /\ (m - 1) + 1 = m
        BY <1>3, <1>5, <1>6, <3>2, <3>4
      <4>2. stored'[m - 1] = stored[(m - 1) + 1]
        BY <1>6, <4>1
      <4> QED BY <3>1, <4>1, <4>2
    <3> QED BY <3>3, <3>4
  <2> QED BY <2>1, <2>2 DEF Stored
<1>14. StoredAreAlive'
  <2>1. \A g \in Created' : expectations'[g].alive <=> Stored(g)'
    BY <1>2, <1>7, <1>8, <1>13 DEF StoredAreAlive
  <2>2. ASSUME NEW i \in 1 .. Len(stored'), NEW j \in 1 .. Len(stored'),
               stored'[i] = stored'[j]
        PROVE  i = j
    <3>1. PICK m \in 1 .. Len(stored) : /\ stored'[i] = stored[m]
                                        /\ m = IF i < k THEN i ELSE i + 1
      BY <1>12
    <3>2. PICK l \in 1 .. Len(stored) : /\ stored'[j] = stored[l]
                                        /\ l = IF j < k THEN j ELSE j + 1
      BY <1>12
    <3>3. m = l
      BY <1>11, <2>2, <3>1, <3>2
    <3>4. i \in Int /\ j \in Int /\ k \in Int
      BY <1>3, <1>5, <1>6
    <3> QED BY <3>1, <3>2, <3>3, <3>4
  <2> QED BY <2>1, <2>2 DEF StoredAreAlive
<1>15. MutexHeld'
  BY <1>1 DEF IInv, MutexHeld, Top
<1>16. StacksAreGood'
  <2> SUFFICES ASSUME NEW u \in Threads
               PROVE  StackIsGood(expectations', Len(stored'), u, stack[u])
    BY <1>1 DEF StacksAreGood
  <2>1. StackIsGood(expectations, Len(stored), u, stack[u]) /\ Len(stack[u]) \in Nat
        /\ (stack[u] # << >> => 1 \in 1 .. Len(stack[u]))
    BY <1>2, Types DEF StacksAreGood
  <2>2. \A g : IsOwn(expectations, u, g) /\ g # e =>
           IsOwn(expectations', u, g) /\ expectations'[g] = expectations[g]
    BY <1>8 DEF IsOwn, Created
  <2>3. \A i \in 1 .. Len(stack[u]) : stack[u][i].best # 0 =>
           stack[u][i].best # e /\ IsOwn(expectations, u, stack[u][i].best)
    <3>1. \A i \in 1 .. Len(stack[u]) : stack[u][i].best # 0 =>
             IsOwn(expectations, u, stack[u][i].best)
      BY <2>1 DEF StackIsGood, CallIsGood
    <3>2. CASE u = t
      BY <1>1, <3>1, <3>2
    <3>3. CASE u # t
      BY <1>1, <3>1, <3>3 DEF IsOwn
    <3> QED BY <3>2, <3>3
  <2>4. \A i \in 1 .. Len(stack[u]) : CallIsGood(expectations', u, stack[u][i])
    BY <2>2, <2>3 DEF CallIsGood
  <2>5. ASSUME stack[u] # << >>  PROVE TopIsGood(expectations', Len(stored'), stack[u][1])
    <3>1. stack[u][1].at # "walk"
      BY <1>1, <2>5, NobodyWalks
    <3>2. TopIsGood(expectations, Len(stored), stack[u][1])
      BY <2>1, <2>5 DEF StackIsGood
    <3>3. stack[u][1].best # 0 => expectations'[stack[u][1].best] = expectations[stack[u][1].best]
      BY <2>1, <2>2, <2>3, <2>5
    <3> QED BY <3>1, <3>2, <3>3 DEF TopIsGood
  <2> QED BY <2>1, <2>4, <2>5 DEF StackIsGood
<1>17. TakenIsCounted'
  <2> SUFFICES ASSUME NEW g \in Created
               PROVE  taken[g] = expectations'[g].count +
                         IF Storing(expectations'[g].owner, g) THEN 1 ELSE 0
    BY <1>1, <1>8 DEF TakenIsCounted, Storing, Top
  <2> QED BY <1>2, <1>7, <1>8 DEF TakenIsCounted
<1>18. asserted'
  BY <1>1, <1>2, <1>4
<1> QED BY <1>9, <1>10, <1>14, <1>15, <1>16, <1>17, <1>18 DEF IInv

-----------------------------------------------------------------------------
(* Theorems *)

LEMMA InitEstablishes == Init => IInv
<1> SUFFICES ASSUME Init  PROVE IInv
  OBVIOUS
<1>1. /\ mutex = NoThread /\ stored = << >> /\ expectations = << >> /\ taken = << >>
      /\ stack = [t \in Threads |-> << >>]
      /\ calls = 0 /\ asserted = TRUE /\ terminated = FALSE
  BY DEF Init
<1>2. Created = {} /\ Len(expectations) = 0
  BY <1>1 DEF Created
<1>3. TypeOK
  <2>1. expectations \in Seq(Expectations) /\ stored \in Seq(Created) /\ taken \in Seq(Nat)
        /\ Len(taken) = Len(expectations)
    BY <1>1, EmptySeq
  <2>2. stack \in [Threads -> Seq(Call)]
    BY <1>1, EmptySeq
  <2>3. calls \in 0 .. MaxCalls
    BY <1>1, BoundAssumption
  <2> QED BY <1>1, <2>1, <2>2, <2>3 DEF TypeOK, Expectations
<1>4. CountsAreLimited /\ TakenIsCounted
  BY <1>2, BoundAssumption DEF CountsAreLimited, TakenIsCounted
<1>5. StoredAreAlive
  <2>1. Len(stored) = 0
    BY <1>1
  <2> QED BY <1>2, <2>1 DEF StoredAreAlive
<1>6. MutexHeld
  BY <1>1, ThreadAssumption DEF MutexHeld
<1>7. StacksAreGood
  <2> SUFFICES ASSUME NEW t \in Threads
               PROVE  StackIsGood(expectations, Len(stored), t, << >>)
    BY <1>1 DEF StacksAreGood
  <2>1. Len(<< >>) = 0
    OBVIOUS
  <2> QED BY <2>1 DEF StackIsGood
<1> QED BY <1>1, <1>3, <1>4, <1>5, <1>6, <1>7 DEF IInv

LEMMA StutterPreserves ==
    ASSUME IInv, UNCHANGED vars
    PROVE  IInv'
<1>1. UNCHANGED <<mutex, stored, expectations, stack, calls, asserted, terminated, taken>>
  BY DEF vars
<1>2. TypeOK' /\ CountsAreLimited' /\ asserted'
  BY <1>1 DEF IInv, TypeOK, CountsAreLimited, Created
<1>3. StoredAreAlive' /\ MutexHeld'
  BY <1>1 DEF IInv, StoredAreAlive, Stored, MutexHeld, Created, Top
<1>4. StacksAreGood' /\ TakenIsCounted'
  BY <1>1 DEF IInv, StacksAreGood, TakenIsCounted, Storing, Created, Top
<1> QED BY <1>2, <1>3, <1>4 DEF IInv

LEMMA Invariance ==
    ASSUME ~ Shared
    PROVE  Spec => []IInv
<1>1. IInv /\ [Next]_vars => IInv'
  <2> SUFFICES ASSUME IInv, Next  PROVE IInv'
    BY StutterPreserves
  <2>1. ASSUME NEW t \in Threads, NEW limits \in (0 .. MaxTimes) \X (0 .. MaxTimes),
               Push(t, limits)
        PROVE  IInv'
    BY <2>1, PushPreserves
  <2>2. ASSUME NEW t \in Threads, NEW e \in Created, RemoveAndDestroy(t, e)
        PROVE  IInv'
    BY <2>2, RemovePreserves
  <2>3. ASSUME NEW t \in Threads, StartCall(t)  PROVE IInv'
    BY <2>3, StartCallPreserves
  <2>4. ASSUME NEW t \in Threads, Continue(t)  PROVE IInv'
    BY <2>4, LockPreserves, VisitPreserves, MatchedPreserves, UnmatchedPreserves,
       BeginConsumePreserves, EndConsumePreserves, EffectsDonePreserves,
       FinalizePreserves
    DEF Continue
  <2> QED BY <2>1, <2>2, <2>3, <2>4 DEF Next
<1> QED BY <1>1, InitEstablishes, PTL DEF Spec

\* Calls of several threads and from within side effects leave every field
\* in its range: no count exceeds its limit, and handle_call never refers
\* to an expectation there is not.
THEOREM TypesHold ==
    ASSUME ~ Shared
    PROVE  Spec => []TypeOK
<1>1. IInv => TypeOK
  BY DEF IInv
<1> QED BY <1>1, Invariance, PTL

\* The assertions of consume (ControlPolicies.hpp:198), push and remove
\* (Expectation.hpp:263, 282) hold, although handle_call consumes the
\* expectation after it has released the mutex.
THEOREM NoAssertionFails ==
    ASSUME ~ Shared
    PROVE  Spec => []AssertionsHold
<1>1. IInv => AssertionsHold
  BY DEF IInv, AssertionsHold
<1> QED BY <1>1, Invariance, PTL

\* What a call reads of m_Count while it walks the collection includes every
\* match handed out before, also to the calls in whose side effects it is
\* made (Expectation.hpp:344, 510-516): the innermost call of the thread is
\* not between the load and the store of an increment, and the others are
\* past theirs.
THEOREM CountsStayCurrent ==
    ASSUME ~ Shared
    PROVE  Spec => []CountsAreCurrent
<1>1. IInv => CountsAreCurrent
  <2> SUFFICES ASSUME IInv, NEW t \in Threads, At(t, "walk"),
                      NEW e \in Created, expectations[e].owner = t
               PROVE  expectations[e].count = taken[e]
    BY DEF CountsAreCurrent
  <2>1. ~ Storing(t, e)
    BY DEF At, Storing
  <2>2. expectations[e].count \in Nat
    BY Types DEF IInv, Expectations, Created
  <2> QED BY <2>1, <2>2 DEF IInv, TakenIsCounted
<1> QED BY <1>1, Invariance, PTL

\* The vector does not change while a thread walks it
\* (Expectation.hpp:308-309): whoever pushes or removes holds the mutex.
THEOREM CollectionIsStable ==
    ASSUME ~ Shared
    PROVE  Spec => CollectionStableDuringWalk
<1>1. IInv /\ [Next]_vars =>
         [(\E t \in Threads : At(t, "walk") /\ At(t, "walk")') => UNCHANGED stored]_vars
  <2> SUFFICES ASSUME IInv, Next, NEW t \in Threads, At(t, "walk")
               PROVE  UNCHANGED stored
    OBVIOUS
  <2>1. mutex # NoThread
    BY ThreadAssumption DEF IInv, MutexHeld, At
  <2> QED BY <2>1
          DEF Next, Push, RemoveAndDestroy, StartCall, Continue, Lock, Visit, Matched,
              Unmatched, BeginConsume, EndConsume, EffectsDone, Finalize
<1> QED BY <1>1, Invariance, PTL DEF Spec, CollectionStableDuringWalk

-----------------------------------------------------------------------------
(* The collection implements OrderedExpectations *)

\* What is promised for an expectation x that was chosen n times.
PromiseIn(x, n, in) ==
    [min |-> x.min, max |-> x.max, count |-> n, in |-> in, alive |-> x.alive]

Promise(x, n) == PromiseIn(x, n, {})
\* What is promised for the expectations xs, chosen as often as ns tells.
Promises(xs, ns) == [e \in 1 .. Len(xs) |-> Promise(xs[e], ns[e])]

\* The promises ps, with e matched once more, or dropped.
WithMatch(ps, e) == [ps EXCEPT ![e].count = @ + 1]
WithDrop(ps, e) == [ps EXCEPT ![e].alive = FALSE]

\* What becomes of a promise when its expectation is matched or dropped.
LEMMA PromiseChanges ==
    ASSUME NEW x, NEW n \in Nat, NEW in
    PROVE  /\ [PromiseIn(x, n, in) EXCEPT !.count = @ + 1] = PromiseIn(x, n + 1, in)
           /\ \A g : [PromiseIn(x, n, in) EXCEPT !.alive = g] =
                        [min |-> x.min, max |-> x.max, count |-> n, in |-> in, alive |-> g]
BY DEF PromiseIn

\* The same, for expectations without sequences.
LEMMA PromiseFields ==
    ASSUME NEW x, NEW n \in Nat
    PROVE  /\ [Promise(x, n) EXCEPT !.count = @ + 1] = Promise(x, n + 1)
           /\ \A g : [Promise(x, n) EXCEPT !.alive = g] =
                        [min |-> x.min, max |-> x.max, count |-> n, in |-> {}, alive |-> g]
<1> DEFINE none == {}
<1>1. /\ [PromiseIn(x, n, none) EXCEPT !.count = @ + 1] = PromiseIn(x, n + 1, none)
      /\ \A g : [PromiseIn(x, n, none) EXCEPT !.alive = g] =
                   [min |-> x.min, max |-> x.max, count |-> n, in |-> none, alive |-> g]
  <2> HIDE DEF none
  <2> QED BY PromiseChanges
<1> QED BY <1>1 DEF Promise

\* A new expectation is a new promise.
LEMMA PromiseAppended ==
    ASSUME NEW S, NEW xs \in Seq(S), NEW x \in S,
           NEW ns \in Seq(Nat), NEW n \in Nat, Len(ns) = Len(xs)
    PROVE  Promises(Append(xs, x), Append(ns, n)) = Append(Promises(xs, ns), Promise(x, n))
<1> DEFINE k == Len(xs)
<1>1. /\ k \in Nat /\ Len(Append(xs, x)) = k + 1
      /\ \A e \in 1 .. k : Append(xs, x)[e] = xs[e] /\ Append(ns, n)[e] = ns[e]
      /\ Append(xs, x)[k + 1] = x /\ Append(ns, n)[k + 1] = n
  OBVIOUS
<1>2. Promises(xs, ns) \in Seq({Promise(xs[e], ns[e]) : e \in 1 .. k} \cup {Promise(x, n)})
      /\ Len(Promises(xs, ns)) = k
  <2> HIDE DEF k
  <2>1. k = Len(xs)
    BY DEF k
  <2> QED BY <1>1, <2>1 DEF Promises
<1> DEFINE T == {Promise(xs[e], ns[e]) : e \in 1 .. k} \cup {Promise(x, n)}
<1>3. /\ Len(Append(Promises(xs, ns), Promise(x, n))) = k + 1
      /\ Append(Promises(xs, ns), Promise(x, n)) \in Seq(T)
      /\ \A e \in 1 .. k + 1 : Append(Promises(xs, ns), Promise(x, n))[e] =
             IF e = k + 1 THEN Promise(x, n) ELSE Promises(xs, ns)[e]
  <2>1. Promise(x, n) \in T
    OBVIOUS
  <2> HIDE DEF T
  <2>2. Promises(xs, ns) \in Seq(T)
    BY <1>2 DEF T
  <2> QED BY <1>1, <1>2, <2>1, <2>2, AppendProperties
<1> HIDE DEF k, T
<1>4. \A e \in 1 .. k + 1 : Promise(Append(xs, x)[e], Append(ns, n)[e]) =
             IF e = k + 1 THEN Promise(x, n) ELSE Promises(xs, ns)[e]
  <2> SUFFICES ASSUME NEW e \in 1 .. k + 1
               PROVE  Promise(Append(xs, x)[e], Append(ns, n)[e]) =
                        IF e = k + 1 THEN Promise(x, n) ELSE Promises(xs, ns)[e]
    OBVIOUS
  <2>1. CASE e = k + 1
    BY <1>1, <2>1
  <2>2. CASE e \in 1 .. k
    <3>1. Promises(xs, ns)[e] = Promise(xs[e], ns[e])
      BY <2>2 DEF Promises, k
    <3>2. e # k + 1
      BY <1>1, <2>2
    <3> QED BY <1>1, <2>2, <3>1, <3>2
  <2> QED BY <1>1, <2>1, <2>2
<1>5. Promises(Append(xs, x), Append(ns, n)) =
        [e \in 1 .. k + 1 |-> Promise(Append(xs, x)[e], Append(ns, n)[e])]
  BY <1>1 DEF Promises
<1>6. Append(Promises(xs, ns), Promise(x, n)) =
        [e \in 1 .. k + 1 |-> Append(Promises(xs, ns), Promise(x, n))[e]]
  <2> DEFINE a == Append(Promises(xs, ns), Promise(x, n))
  <2>1. a \in Seq(T) /\ Len(a) = k + 1
    BY <1>3
  <2> HIDE DEF a
  <2>2. a = [e \in 1 .. k + 1 |-> a[e]]
    BY <2>1
  <2> QED BY <2>2 DEF a
<1> QED BY <1>3, <1>4, <1>5, <1>6

\* An expectation that dies is a promise that is dropped.
LEMMA PromiseDropped ==
    ASSUME NEW xs \in Seq(Expectations), NEW ns \in Seq(Nat), Len(ns) = Len(xs),
           NEW e \in 1 .. Len(xs), NEW y \in Expectations,
           y.min = xs[e].min, y.max = xs[e].max, y.alive = FALSE
    PROVE  Promises([xs EXCEPT ![e] = y], ns) = WithDrop(Promises(xs, ns), e)
<1>1. /\ xs[e] \in Expectations /\ ns[e] \in Nat
      /\ Len([xs EXCEPT ![e] = y]) = Len(xs) /\ DOMAIN xs = 1 .. Len(xs)
  OBVIOUS
<1>2. Promise(y, ns[e]) = [min |-> xs[e].min, max |-> xs[e].max, count |-> ns[e],
                           in |-> {}, alive |-> FALSE]
  BY Zenon DEF Promise, PromiseIn
<1>3. \A g : [Promise(xs[e], ns[e]) EXCEPT !.alive = g] =
               [min |-> xs[e].min, max |-> xs[e].max, count |-> ns[e],
                in |-> {}, alive |-> g]
  BY <1>1, PromiseFields
<1>4. Promise(y, ns[e]) = [Promise(xs[e], ns[e]) EXCEPT !.alive = FALSE]
  BY <1>2, <1>3, Zenon
<1>5. Promises([xs EXCEPT ![e] = y], ns) =
        [f \in 1 .. Len(xs) |-> Promise(IF f = e THEN y ELSE xs[f], ns[f])]
  BY <1>1 DEF Promises
<1> QED BY <1>4, <1>5 DEF Promises, WithDrop

\* An expectation that is chosen is a promise that is matched.
LEMMA PromiseMatched ==
    ASSUME NEW xs \in Seq(Expectations), NEW ns \in Seq(Nat), NEW e \in 1 .. Len(xs),
           Len(ns) = Len(xs)
    PROVE  Promises(xs, [ns EXCEPT ![e] = @ + 1]) = WithMatch(Promises(xs, ns), e)
<1>1. xs[e] \in Expectations /\ ns[e] \in Nat /\ DOMAIN ns = 1 .. Len(xs)
  OBVIOUS
<1>2. Promise(xs[e], ns[e] + 1) = [Promise(xs[e], ns[e]) EXCEPT !.count = @ + 1]
  BY <1>1, PromiseFields
<1>3. Promises(xs, [ns EXCEPT ![e] = @ + 1]) =
        [f \in 1 .. Len(xs) |-> Promise(xs[f], IF f = e THEN ns[e] + 1 ELSE ns[f])]
  BY <1>1 DEF Promises
<1> QED BY <1>2, <1>3 DEF Promises, WithMatch

\* What OrderedExpectations sees of the collection.
Promised == [e \in Created |->
                [min |-> expectations[e].min, max |-> expectations[e].max,
                 count |-> taken[e], in |-> {}, alive |-> expectations[e].alive]]

\* The step that matches is consume's first; the mutex, the walk and the
\* rest of the call are invisible.
THEOREM Refinement ==
    ASSUME ~ Shared
    PROVE  Spec => OrderedSpec
<1>1. Init => Ordered!Init
  <2> SUFFICES ASSUME Init  PROVE Promised = << >>
    BY DEF Ordered!Init, Promised
  <2>1. Created = {}
    BY EmptySeq DEF Init, Created
  <2> QED BY <2>1 DEF Promised
<1>2. IInv /\ IInv' /\ [Next]_vars => [Ordered!Next]_Promised
  <2> SUFFICES ASSUME IInv, IInv', [Next]_vars
               PROVE  Ordered!Next \/ Promised' = Promised
    OBVIOUS
  <2>1. /\ TypeOK /\ expectations \in Seq(Expectations) /\ Len(expectations) \in Nat
        /\ taken \in Seq(Nat) /\ Len(taken) = Len(expectations)
        /\ \A e \in Created : expectations[e] \in Expectations /\ taken[e] \in Nat
    BY Types DEF IInv
  <2>2. Len(Promised) = Len(expectations) /\ Created = 1 .. Len(expectations)
    BY <2>1 DEF Promised, Created
  <2>3. /\ Promised = Promises(expectations, taken)
        /\ Promised' = Promises(expectations', taken')
    BY DEF Promised, Promises, Promise, PromiseIn, Created
  <2>4. /\ expectations \in Seq(Expectations) /\ taken \in Seq(Nat)
        /\ Len(taken) = Len(expectations)
        /\ \A e \in Created : e \in 1 .. Len(expectations)
    BY <2>1 DEF Created
  <2>5. ASSUME NEW t \in Threads, NEW limits \in (0 .. MaxTimes) \X (0 .. MaxTimes),
               Push(t, limits)
        PROVE  Ordered!Next
    <3> DEFINE x == [min |-> limits[1], max |-> limits[2], count |-> 0,
                     owner |-> t, alive |-> TRUE]
               p == [min |-> limits[1], max |-> limits[2], count |-> 0,
                     in |-> {}, alive |-> TRUE]
    <3>1. /\ expectations' = Append(expectations, x) /\ taken' = Append(taken, 0)
          /\ limits[1] <= limits[2]
          /\ limits[1] \in 0 .. MaxTimes /\ limits[2] \in 0 .. MaxTimes
      BY <2>5 DEF Push
    <3>2. x \in Expectations /\ Promise(x, 0) = p
      <4>1. x \in Expectations
        BY <3>1, BoundAssumption DEF Expectations
      <4>2. x.min = limits[1] /\ x.max = limits[2] /\ x.alive = TRUE
        OBVIOUS
      <4>3. Promise(x, 0) = p
        <5> HIDE DEF x
        <5> QED BY <4>2, Zenon DEF Promise, PromiseIn
      <4> QED BY <4>1, <4>3
    <3>3. Promised' = Append(Promised, p)
      <4> HIDE DEF x, p
      <4> QED BY <2>1, <2>3, <3>1, <3>2, PromiseAppended
    <3>4. Ordered!Promised(limits[1], limits[2], {})
      BY <3>1, <3>3 DEF Ordered!Promised, Promised
    <3> QED BY <3>1, <3>4 DEF Ordered!Next
  <2>6. ASSUME NEW t \in Threads, NEW e \in Created, RemoveAndDestroy(t, e)
        PROVE  Ordered!Next
    <3> DEFINE y == [expectations[e] EXCEPT !.alive = FALSE]
    <3>1. /\ expectations' = [expectations EXCEPT ![e] = y] /\ taken' = taken
          /\ expectations[e].alive /\ expectations[e] \in Expectations
      BY <2>1, <2>6 DEF RemoveAndDestroy
    <3>2. y \in Expectations /\ y.alive = FALSE /\ y.min = expectations[e].min
          /\ y.max = expectations[e].max
      BY <3>1 DEF Expectations
    <3> HIDE DEF y
    <3>3. Promised' = [Promised EXCEPT ![e].alive = FALSE]
      <4>1. Promises([expectations EXCEPT ![e] = y], taken) =
              WithDrop(Promises(expectations, taken), e)
        BY <2>4, <3>2, PromiseDropped
      <4> QED BY <2>3, <3>1, <4>1, Zenon DEF WithDrop
    <3>4. Promised[e].alive
      BY <2>3, <3>1 DEF Promised
    <3>5. Ordered!Dropped(e)
      BY <3>3, <3>4 DEF Ordered!Dropped, Promised
    <3> QED BY <2>2, <3>5 DEF Ordered!Next, Promised
  <2>7. ASSUME NEW e \in Created, Ordered!Matched(e)  PROVE Ordered!Next
    BY <2>2, <2>7 DEF Ordered!Next, Promised
  <2>8. ASSUME NEW t \in Threads, BeginConsume(t)
        PROVE  Ordered!Next
    <3> DEFINE best == Top(t).best
    <3>1. /\ best \in Created /\ expectations[best].alive
          /\ taken[best] < expectations[best].max
          /\ expectations' = expectations
          /\ taken' = [taken EXCEPT ![best] = @ + 1]
      BY <2>8, BeginConsumePreserves DEF BeginConsume
    <3> HIDE DEF best
    <3>2. PICK e \in Created :
             /\ expectations[e].alive /\ taken[e] < expectations[e].max
             /\ expectations' = expectations
             /\ taken' = [taken EXCEPT ![e] = @ + 1]
      BY <3>1
    <3>3. e \in 1 .. Len(Promised)
      BY <2>2, <3>2
    <3>4. Promised' = [Promised EXCEPT ![e].count = @ + 1]
      <4>1. Promises(expectations, [taken EXCEPT ![e] = @ + 1]) =
              WithMatch(Promises(expectations, taken), e)
        BY <2>4, <3>2, PromiseMatched
      <4> QED BY <2>3, <3>2, <4>1, Zenon DEF WithMatch
    <3>5. Ordered!InTurn(e)
      BY <2>2, <3>2 DEF Ordered!InTurn, Promised
    <3>6. Ordered!Matched(e)
      BY <3>4, <3>5 DEF Ordered!Matched, Promised
    <3> QED BY <2>7, <3>2, <3>6
  <2>9. ASSUME NEW t \in Threads, EndConsume(t)
        PROVE  Promised' = Promised
    <3>1. /\ Len(expectations') = Len(expectations)
          /\ \A g \in Created : /\ expectations'[g].min = expectations[g].min
                                /\ expectations'[g].max = expectations[g].max
                                /\ expectations'[g].alive = expectations[g].alive
      BY <2>9, EndConsumePreserves
    <3>2. taken' = taken
      BY <2>9 DEF EndConsume
    <3> QED BY <3>1, <3>2 DEF Promised, Created
  <2>10. ASSUME expectations' = expectations, taken' = taken  PROVE Promised' = Promised
    BY <2>10 DEF Promised, Created
  <2> QED BY <2>5, <2>6, <2>8, <2>9, <2>10
          DEF Next, StartCall, Continue, Lock, Visit, Matched, Unmatched,
              EffectsDone, Finalize, vars
<1> QED BY <1>1, <1>2, Invariance, PTL DEF Spec, OrderedSpec, Ordered!Spec, Promised

=============================================================================
