--------------------- MODULE ScopedExpectations_proofs ---------------------
(***************************************************************************)
(* Proofs about ScopedExpectations, for tests of any size.  The argument   *)
(* is about where a broken promise is while the test runs: an expectation  *)
(* that lives is on the stack, and one that died unsatisfied has made an   *)
(* exception that is still on its way or has failed the test, or it was    *)
(* dead when the test caught one.                                          *)
(***************************************************************************)
EXTENDS ScopedExpectations, SequenceTheorems, TLAPS

Promises == [min : 0 .. MaxTimes, max : 0 .. MaxTimes, count : 0 .. MaxTimes,
             in : SUBSET SequenceNames, alive : BOOLEAN]

\* The objects of a test that has made n promises.
Frames(n) == [kind : {"try"}, of : {0}]
             \cup [kind : {"sequence"}, of : SequenceNames]
             \cup [kind : {"expectation", "members"}, of : 1 .. n]

\* An expectation lives as long as the scope it is declared in.
AliveOnStack == \A e \in Created : promised[e].alive => OnStack(Frame("expectation", e))

\* An expectation whose members are being destroyed is dead.
MembersOfTheDead ==
    \A e \in Created : OnStack(Frame("members", e)) => ~ promised[e].alive

\* No exception is on its way, nor has one failed the test.
NothingHappened == mode = "running" \/ (mode = "done" /\ ~ failed)

DeadKeptPromises ==
    NothingHappened =>
        \A e \in Created : promised[e].alive \/ IsSatisfied(promised[e]) \/ e \in excused

NoneAliveAfterwards == mode = "done" => \A e \in Created : ~ promised[e].alive

ErrorsTerminate == cause # "none" => mode = "terminated"

IInv ==
    /\ TypeOK
    /\ AliveOnStack
    /\ MembersOfTheDead
    /\ DeadKeptPromises
    /\ NoneAliveAfterwards
    /\ ErrorsTerminate
    /\ SequenceErrorNeedsCaughtFailure

-----------------------------------------------------------------------------
(* Sequences and stacks *)

LEMMA FunctionIsSeq ==
    ASSUME NEW S, NEW n \in Nat, NEW f \in [1 .. n -> S]
    PROVE  f \in Seq(S) /\ Len(f) = n
<1>1. f \in Seq(S)
  BY SeqDef
<1>2. Len(f) \in Nat /\ DOMAIN f = 1 .. Len(f)
  BY <1>1, LenProperties
<1>3. 1 .. Len(f) = 1 .. n
  BY <1>2
<1>4. Len(f) = n
  BY <1>2, <1>3
<1> QED BY <1>1, <1>4

LEMMA Types ==
    ASSUME TypeOK
    PROVE  /\ promised \in Seq(Promises)
           /\ Len(promised) \in Nat
           /\ \A e \in Created : promised[e] \in Promises
           /\ stack \in Seq(Frames(Len(promised)))
           /\ Len(stack) \in Nat
<1>1. promised \in Seq(Promises) /\ stack \in Seq(Frames(Len(promised)))
  BY DEF TypeOK, Promises, Frames, Created
<1>2. Len(promised) \in Nat /\ Len(stack) \in Nat
  BY <1>1, LenProperties
<1>3. \A e \in Created : promised[e] \in Promises
  BY <1>1, ElementOfSeq DEF Created
<1> QED BY <1>1, <1>2, <1>3

\* The innermost object goes, the others stay.
LEMMA Pop ==
    ASSUME TypeOK, stack # << >>
    PROVE  /\ Top \in Frames(Len(promised))
           /\ Tail(stack) \in Seq(Frames(Len(promised)))
           /\ \A frame : OnStack(frame) /\ frame # Top =>
                 \E i \in 1 .. Len(Tail(stack)) : Tail(stack)[i] = frame
           /\ \A i \in 1 .. Len(Tail(stack)) : OnStack(Tail(stack)[i])
           /\ OnStack(Top)
<1>1. stack \in Seq(Frames(Len(promised))) /\ Len(stack) \in Nat
  BY Types
<1>2. /\ Top \in Frames(Len(promised)) /\ Tail(stack) \in Seq(Frames(Len(promised)))
      /\ Len(Tail(stack)) = Len(stack) - 1
      /\ \A i \in 1 .. Len(Tail(stack)) : Tail(stack)[i] = stack[i + 1]
  BY <1>1, HeadTailProperties DEF Top
<1>3. Top = stack[1]
  BY <1>1 DEF Top
<1>4. ASSUME NEW frame, OnStack(frame), frame # Top
      PROVE  \E i \in 1 .. Len(Tail(stack)) : Tail(stack)[i] = frame
  <2>1. PICK i \in 1 .. Len(stack) : stack[i] = frame
    BY <1>4 DEF OnStack
  <2>2. i # 1
    BY <1>3, <1>4, <2>1
  <2>3. i - 1 \in 1 .. Len(Tail(stack)) /\ (i - 1) + 1 = i
    BY <1>1, <1>2, <2>2
  <2> QED BY <1>2, <2>1, <2>3
<1>5. ASSUME NEW i \in 1 .. Len(Tail(stack))  PROVE OnStack(Tail(stack)[i])
  <2>1. i + 1 \in 1 .. Len(stack)
    BY <1>1, <1>2
  <2> QED BY <1>2, <2>1 DEF OnStack
<1>6. OnStack(Top)
  <2>1. 1 \in 1 .. Len(stack)
    BY <1>1
  <2> QED BY <1>3, <2>1 DEF OnStack
<1> QED BY <1>2, <1>4, <1>5, <1>6

\* A frame on top of others.
LEMMA Pushed ==
    ASSUME NEW n \in Nat, NEW base \in Seq(Frames(n)), NEW frame \in Frames(n)
    PROVE  /\ <<frame>> \o base \in Seq(Frames(n))
           /\ \A g : g = frame \/ (\E i \in 1 .. Len(base) : base[i] = g) =>
                 \E i \in 1 .. Len(<<frame>> \o base) : (<<frame>> \o base)[i] = g
           /\ \A i \in 1 .. Len(<<frame>> \o base) :
                 \/ (<<frame>> \o base)[i] = frame
                 \/ \E j \in 1 .. Len(base) : base[j] = (<<frame>> \o base)[i]
<1>1. <<frame>> \in Seq(Frames(n)) /\ Len(<<frame>>) = 1 /\ <<frame>>[1] = frame
  OBVIOUS
<1> DEFINE one == <<frame>>
           new == one \o base
<1>2. /\ new \in Seq(Frames(n)) /\ Len(new) = 1 + Len(base)
      /\ \A i \in 1 .. 1 + Len(base) :
            new[i] = IF i <= 1 THEN one[i] ELSE base[i - 1]
  <2> HIDE DEF one
  <2> QED BY <1>1, ConcatProperties DEF one
<1>3. Len(base) \in Nat
  BY LenProperties
<1> HIDE DEF new
<1>4. new[1] = frame /\ 1 \in 1 .. Len(new)
  BY <1>1, <1>2, <1>3
<1>5. ASSUME NEW g, \E i \in 1 .. Len(base) : base[i] = g
      PROVE  \E i \in 1 .. Len(new) : new[i] = g
  <2>1. PICK i \in 1 .. Len(base) : base[i] = g
    BY <1>5
  <2>2. i + 1 \in 1 .. Len(new) /\ ~ (i + 1 <= 1) /\ (i + 1) - 1 = i
    BY <1>2, <1>3
  <2>3. new[i + 1] = base[i]
    BY <1>2, <2>2
  <2> QED BY <2>1, <2>2, <2>3
<1>6. ASSUME NEW i \in 1 .. Len(new), new[i] # frame
      PROVE  \E j \in 1 .. Len(base) : base[j] = new[i]
  <2>1. i # 1
    BY <1>4, <1>6
  <2>2. i - 1 \in 1 .. Len(base) /\ ~ (i <= 1) /\ i \in 1 .. 1 + Len(base)
    BY <1>2, <1>3, <2>1
  <2>3. new[i] = base[i - 1]
    BY <1>2, <2>2
  <2> QED BY <2>2, <2>3
<1> QED BY <1>2, <1>4, <1>5, <1>6 DEF new

\* A new object is on top of those there are.
LEMMA PushFrame ==
    ASSUME TypeOK, NEW n \in Nat, Len(promised) <= n, NEW frame \in Frames(n)
    PROVE  /\ <<frame>> \o stack \in Seq(Frames(n))
           /\ \A g : OnStack(g) \/ g = frame =>
                 \E i \in 1 .. Len(<<frame>> \o stack) : (<<frame>> \o stack)[i] = g
           /\ \A i \in 1 .. Len(<<frame>> \o stack) :
                 (<<frame>> \o stack)[i] = frame \/ OnStack((<<frame>> \o stack)[i])
<1>1. stack \in Seq(Frames(n))
  <2>1. stack \in Seq(Frames(Len(promised)))
    BY Types
  <2>2. Frames(Len(promised)) \subseteq Frames(n)
    <3>1. 1 .. Len(promised) \subseteq 1 .. n
      BY Types
    <3> QED BY <3>1 DEF Frames
  <2> QED BY <2>1, <2>2, SeqMonotonic
<1> DEFINE new == <<frame>> \o stack
<1>2. /\ new \in Seq(Frames(n))
      /\ \A g : g = frame \/ (\E i \in 1 .. Len(stack) : stack[i] = g) =>
            \E i \in 1 .. Len(new) : new[i] = g
      /\ \A i \in 1 .. Len(new) :
            new[i] = frame \/ \E j \in 1 .. Len(stack) : stack[j] = new[i]
  BY <1>1, Pushed
<1> HIDE DEF new
<1>3. /\ \A g : OnStack(g) \/ g = frame => \E i \in 1 .. Len(new) : new[i] = g
      /\ \A i \in 1 .. Len(new) : new[i] = frame \/ OnStack(new[i])
  BY <1>2 DEF OnStack
<1> QED BY <1>2, <1>3 DEF new

\* What the death of an expectation does to the promises.
LEMMA DropEffect ==
    ASSUME TypeOK, NEW e \in Created
    PROVE  LET rest == [promised EXCEPT ![e].alive = FALSE] IN
           /\ rest \in Seq(Promises) /\ Len(rest) = Len(promised)
           /\ rest[e].alive = FALSE
           /\ IsSatisfied(rest[e]) = IsSatisfied(promised[e])
           /\ \A f \in Created \ {e} : rest[f] = promised[f]
<1> DEFINE x == [promised[e] EXCEPT !.alive = FALSE]
           rest == [promised EXCEPT ![e] = x]
<1>1. promised \in Seq(Promises) /\ promised[e] \in Promises
  BY Types
<1>2. /\ x \in Promises /\ x.alive = FALSE
      /\ x.min = promised[e].min /\ x.max = promised[e].max /\ x.count = promised[e].count
  BY <1>1 DEF Promises
<1>3. /\ rest \in Seq(Promises) /\ Len(rest) = Len(promised)
      /\ \A f \in 1 .. Len(promised) : rest[f] = IF f = e THEN x ELSE promised[f]
  <2> HIDE DEF x
  <2> QED BY <1>1, <1>2, ExceptSeq DEF Created
<1>4. rest[e] = x /\ \A f \in Created \ {e} : rest[f] = promised[f]
  <2> HIDE DEF rest, x
  <2> QED BY <1>3 DEF Created
<1>5. IsSatisfied(rest[e]) = IsSatisfied(promised[e])
  <2> HIDE DEF rest, x
  <2> QED BY <1>2, <1>4 DEF IsSatisfied
<1> QED BY <1>2, <1>3, <1>4, <1>5

\* A new promise comes last, with no match yet.
NewPromise(times, S) == [min |-> times[1], max |-> times[2], count |-> 0,
                         in |-> S, alive |-> TRUE]

LEMMA PromiseEffect ==
    ASSUME FrameAssumption, NEW base \in Seq(Promises),
           NEW times \in (0 .. MaxTimes) \X (0 .. MaxTimes),
           NEW S \in SUBSET SequenceNames
    PROVE  LET new == Append(base, NewPromise(times, S)) IN
           /\ new \in Seq(Promises) /\ Len(new) = Len(base) + 1
           /\ \A e \in 1 .. Len(base) : new[e] = base[e]
           /\ new[Len(base) + 1].alive = TRUE
<1>1. NewPromise(times, S) \in Promises /\ NewPromise(times, S).alive = TRUE
  BY DEF NewPromise, Promises, FrameAssumption
<1> QED BY <1>1, AppendProperties

LEMMA InitEstablishes == Init => IInv
<1> SUFFICES ASSUME Init  PROVE IInv
  OBVIOUS
<1>1. promised = << >> /\ stack = << >> /\ mode = "running"
      /\ failed = FALSE /\ blamed = 0 /\ excused = {} /\ cause = "none"
  BY DEF Init
<1>2. Created = {}
  BY <1>1 DEF Created
<1>3. TypeOK
  <2>1. promised \in Seq(Promises) /\ stack \in Seq(Frames(Len(promised)))
    BY <1>1
  <2> QED BY <1>1, <2>1 DEF TypeOK, Promises, Frames, Created
<1> QED BY <1>1, <1>2, <1>3
        DEF IInv, AliveOnStack, MembersOfTheDead, DeadKeptPromises, NoneAliveAfterwards,
            ErrorsTerminate, SequenceErrorNeedsCaughtFailure

\* A step of the running test that ends no life.
RunningStep == mode = "running" /\ UNCHANGED <<mode, failed, blamed, excused, cause>>

LEMMA PushPreserves ==
    ASSUME IInv, NEW frame \in Frames(Len(promised)), frame.kind # "members",
           stack' = <<frame>> \o stack, promised' = promised, RunningStep
    PROVE  IInv'
<1>1. TypeOK
  BY DEF IInv
<1>2. /\ stack' \in Seq(Frames(Len(promised)))
      /\ \A g : OnStack(g) => OnStack(g)'
      /\ \A g : OnStack(g)' => g = frame \/ OnStack(g)
  <2>1. Len(promised) \in Nat /\ Len(promised) <= Len(promised)
    BY <1>1, Types
  <2> QED BY <1>1, <2>1, PushFrame DEF OnStack
<1>3. TypeOK'
  BY <1>1, <1>2 DEF TypeOK, Frames, Created, RunningStep
<1>4. AliveOnStack'
  BY <1>2 DEF IInv, AliveOnStack, Created
<1>5. MembersOfTheDead'
  BY <1>2 DEF IInv, MembersOfTheDead, Created, Frame
<1> QED BY <1>3, <1>4, <1>5
        DEF IInv, DeadKeptPromises, NothingHappened, NoneAliveAfterwards, Created,
            ErrorsTerminate, SequenceErrorNeedsCaughtFailure, RunningStep, IsSatisfied

\* An expectation on the stack is one of those created.
LEMMA MembersOfCreated ==
    ASSUME TypeOK, NEW f, OnStack(Frame("members", f))
    PROVE  f \in Created
<1>1. PICK i \in 1 .. Len(stack) : stack[i] = Frame("members", f)
  BY DEF OnStack
<1>2. stack[i] \in Frames(Len(promised))
  BY Types, ElementOfSeq
<1>3. stack[i].kind = "members" /\ stack[i].of = f
  BY <1>1 DEF Frame
<1> QED BY <1>2, <1>3 DEF Frames, Created

LEMMA DeclareExpectationPreserves ==
    ASSUME IInv, NEW times \in (0 .. MaxTimes) \X (0 .. MaxTimes),
           NEW S \in SUBSET SequenceNames, DeclareExpectation(times, S)
    PROVE  IInv'
<1> DEFINE n == Len(promised) + 1
           frame == Frame("expectation", n)
<1>1. TypeOK
  BY DEF IInv
<1>2. /\ promised' = Append(promised, NewPromise(times, S))
      /\ stack' = <<frame>> \o stack
      /\ RunningStep
  BY DEF DeclareExpectation, MakesPromise, Running, Ordered!Promised, NewPromise, RunningStep
<1>3. promised \in Seq(Promises) /\ Len(promised) \in Nat
  BY <1>1, Types
<1>4. /\ promised' \in Seq(Promises) /\ Len(promised') = n
      /\ \A e \in Created : promised'[e] = promised[e]
      /\ promised'[n].alive = TRUE
  BY <1>2, <1>3, FrameAssumption, PromiseEffect DEF Created
<1>5. /\ stack' \in Seq(Frames(n))
      /\ \A g : OnStack(g) \/ g = frame => OnStack(g)'
      /\ \A g : OnStack(g)' => g = frame \/ OnStack(g)
  <2>1. n \in Nat /\ Len(promised) <= n
    BY <1>3
  <2>2. frame \in Frames(n)
    BY <2>1 DEF Frames, Frame
  <2> HIDE DEF n, frame
  <2> QED BY <1>1, <1>2, <2>1, <2>2, PushFrame DEF OnStack
<1>6. Created' = 1 .. n /\ Created' = Created \cup {n}
  BY <1>3, <1>4 DEF Created
<1>7. TypeOK'
  <2>1. blamed' \in Created' \cup {0} /\ excused' \subseteq Created'
    BY <1>1, <1>2, <1>6 DEF TypeOK, RunningStep
  <2>2. /\ mode' \in {"running", "unwinding", "done", "terminated"}
        /\ cause' \in {"none", "unwinding", "sequence", "move assignment"}
        /\ failed' \in BOOLEAN
    BY <1>1, <1>2 DEF TypeOK, RunningStep
  <2> QED BY <1>4, <1>5, <1>6, <2>1, <2>2 DEF TypeOK, Frames, Promises
<1>8. MembersOfTheDead'
  <2> SUFFICES ASSUME NEW f \in Created', OnStack(Frame("members", f))'
               PROVE  ~ promised'[f].alive
    BY DEF MembersOfTheDead
  <2>1. Frame("members", f) # frame
    BY DEF Frame
  <2>2. OnStack(Frame("members", f))
    BY <1>5, <2>1
  <2>3. f \in Created
    BY <1>1, <2>2, MembersOfCreated
  <2> QED BY <1>4, <2>2, <2>3 DEF IInv, MembersOfTheDead
<1> HIDE DEF n, frame
<1>9. AliveOnStack'
  <2> SUFFICES ASSUME NEW e \in Created', promised'[e].alive
               PROVE  OnStack(Frame("expectation", e))'
    BY DEF AliveOnStack
  <2>1. CASE e = n
    BY <1>5, <2>1 DEF frame
  <2>2. CASE e \in Created
    <3>1. OnStack(Frame("expectation", e))
      BY <1>4, <2>2 DEF IInv, AliveOnStack
    <3> QED BY <1>5, <3>1
  <2> QED BY <1>6, <2>1, <2>2
<1>10. DeadKeptPromises'
  BY <1>2, <1>4, <1>6 DEF IInv, DeadKeptPromises, NothingHappened, RunningStep, IsSatisfied
<1> QED BY <1>2, <1>7, <1>9, <1>10, <1>8
        DEF IInv, NoneAliveAfterwards, ErrorsTerminate,
            SequenceErrorNeedsCaughtFailure, RunningStep

LEMMA CallMatchedPreserves ==
    ASSUME IInv, NEW e \in Created, CallMatched(e)
    PROVE  IInv'
<1> DEFINE x == [promised[e] EXCEPT !.count = promised[e].count + 1]
<1>1. TypeOK
  BY DEF IInv
<1>2. /\ promised' = [promised EXCEPT ![e] = x] /\ stack' = stack /\ RunningStep
      /\ promised[e].alive /\ promised[e].count < promised[e].max
  BY DEF CallMatched, Running, Ordered!Matched, Ordered!InTurn, RunningStep
<1>3. promised \in Seq(Promises) /\ promised[e] \in Promises
  BY <1>1, Types
<1>4. x \in Promises /\ x.alive = promised[e].alive
  <2>1. promised[e].count + 1 \in 0 .. MaxTimes
    BY <1>2, <1>3, FrameAssumption DEF Promises, FrameAssumption
  <2> QED BY <1>3, <2>1 DEF Promises
<1> HIDE DEF x
<1>5. /\ promised' \in Seq(Promises) /\ Len(promised') = Len(promised)
      /\ promised'[e].alive
      /\ \A f \in Created \ {e} : promised'[f] = promised[f]
  <2>1. /\ promised' \in Seq(Promises) /\ Len(promised') = Len(promised)
        /\ \A f \in 1 .. Len(promised) : promised'[f] = IF f = e THEN x ELSE promised[f]
    BY <1>2, <1>3, <1>4, ExceptSeq DEF Created
  <2>2. promised'[e] = x /\ \A f \in Created \ {e} : promised'[f] = promised[f]
    BY <2>1 DEF Created
  <2> QED BY <1>2, <1>4, <2>1, <2>2
<1>6. TypeOK'
  BY <1>1, <1>2, <1>5 DEF TypeOK, Promises, Created, RunningStep
<1>7. AliveOnStack'
  BY <1>2, <1>5 DEF IInv, AliveOnStack, Created, OnStack
<1>8. MembersOfTheDead'
  BY <1>2, <1>5 DEF IInv, MembersOfTheDead, Created, OnStack
<1>9. DeadKeptPromises'
  BY <1>2, <1>5 DEF IInv, DeadKeptPromises, NothingHappened, RunningStep, Created
<1> QED BY <1>2, <1>6, <1>7, <1>9, <1>8
        DEF IInv, NoneAliveAfterwards, ErrorsTerminate,
            SequenceErrorNeedsCaughtFailure, RunningStep

LEMMA ThrowPreserves ==
    ASSUME IInv, Throw
    PROVE  IInv'
  BY DEF IInv, Throw, Running, TypeOK, AliveOnStack, MembersOfTheDead,
         DeadKeptPromises, NothingHappened,
         NoneAliveAfterwards, ErrorsTerminate, SequenceErrorNeedsCaughtFailure,
         Created, OnStack, IsSatisfied

\* The error of a sequence that no living expectation holds whose minimum
\* is missing is about an expectation that was dead when the test last
\* caught an exception.
LEMMA SequenceErrorIsLate ==
    ASSUME IInv, Active, NEW S,
           \A s \in S : \A e \in Created :
              promised[e].alive => s \notin promised[e].in \/ IsSatisfied(promised[e]),
           SequenceThrows(S)
    PROVE  mode = "running" /\ \E e \in excused : ~ IsSatisfied(promised[e])
<1>1. PICK s \in S : \E e \in Created : s \in promised[e].in /\ ~ IsSatisfied(promised[e])
  BY DEF SequenceThrows, Throws, IsUnfulfilled
<1>2. PICK e \in Created : s \in promised[e].in /\ ~ IsSatisfied(promised[e])
  BY <1>1
<1>3. ~ promised[e].alive
  BY <1>2
<1>4. mode = "running"
  BY DEF SequenceThrows, Throws, Active
<1>5. e \in excused
  BY <1>2, <1>3, <1>4 DEF IInv, DeadKeptPromises, NothingHappened
<1> QED BY <1>2, <1>4, <1>5

\* Removing an expectation that missed its minimum makes an exception,
\* unless one is on its way already.
LEMMA RemoveExpectationPreserves ==
    ASSUME IInv, RemoveExpectation
    PROVE  IInv'
<1> DEFINE e == Top.of
           broken == ~ IsSatisfied(promised[e])
           members == Frame("members", e)
<1>1. /\ TypeOK /\ Active /\ stack # << >> /\ Top.kind = "expectation"
      /\ cause = "none"
  BY DEF IInv, ErrorsTerminate, RemoveExpectation, Active
<1>2. /\ stack' = <<members>> \o Tail(stack)
      /\ promised' = [promised EXCEPT ![e].alive = FALSE]
      /\ excused' = excused /\ failed' = failed
      /\ AfterDestructor(Throws(broken), e)
  BY DEF RemoveExpectation, Ordered!Dropped
<1>3. /\ Top \in Frames(Len(promised)) /\ Tail(stack) \in Seq(Frames(Len(promised)))
      /\ \A frame : OnStack(frame) /\ frame # Top =>
            \E i \in 1 .. Len(Tail(stack)) : Tail(stack)[i] = frame
      /\ \A i \in 1 .. Len(Tail(stack)) : OnStack(Tail(stack)[i])
  BY <1>1, Pop
<1>4. e \in Created /\ Top = Frame("expectation", e)
  BY <1>1, <1>3 DEF Frames, Created, Frame
<1>5. members \in Frames(Len(promised))
  BY <1>4 DEF Frames, Created, Frame
<1> HIDE DEF e, members
<1>6. /\ stack' \in Seq(Frames(Len(promised)))
      /\ \A frame : OnStack(frame) /\ frame # Top => OnStack(frame)'
      /\ \A frame : OnStack(frame)' => frame = members \/ OnStack(frame)
  <2>1. Len(promised) \in Nat
    BY <1>1, Types
  <2>2. /\ stack' \in Seq(Frames(Len(promised)))
        /\ \A g : g = members \/ (\E i \in 1 .. Len(Tail(stack)) : Tail(stack)[i] = g) =>
              \E i \in 1 .. Len(stack') : stack'[i] = g
        /\ \A i \in 1 .. Len(stack') :
              stack'[i] = members \/ \E j \in 1 .. Len(Tail(stack)) : Tail(stack)[j] = stack'[i]
    <3> DEFINE n == Len(promised)
               base == Tail(stack)
    <3>1. n \in Nat /\ base \in Seq(Frames(n)) /\ members \in Frames(n)
      BY <1>3, <1>5, <2>1
    <3> HIDE DEF n, base
    <3>2. /\ <<members>> \o base \in Seq(Frames(n))
          /\ \A g : g = members \/ (\E i \in 1 .. Len(base) : base[i] = g) =>
                \E i \in 1 .. Len(<<members>> \o base) : (<<members>> \o base)[i] = g
          /\ \A i \in 1 .. Len(<<members>> \o base) :
                \/ (<<members>> \o base)[i] = members
                \/ \E j \in 1 .. Len(base) : base[j] = (<<members>> \o base)[i]
      BY <3>1, Pushed
    <3>3. stack' = <<members>> \o base
      BY <1>2 DEF base
    <3> QED BY <3>2, <3>3 DEF n, base
  <2>3. \A frame : OnStack(frame) /\ frame # Top => OnStack(frame)'
    BY <1>3, <2>2 DEF OnStack
  <2>4. ASSUME NEW frame, OnStack(frame)'  PROVE frame = members \/ OnStack(frame)
    <3>1. PICK i \in 1 .. Len(stack') : stack'[i] = frame
      BY <2>4 DEF OnStack
    <3> QED BY <1>3, <2>2, <3>1
  <2> QED BY <2>2, <2>3, <2>4
<1>7. /\ promised' \in Seq(Promises) /\ Len(promised') = Len(promised)
      /\ promised'[e].alive = FALSE
      /\ IsSatisfied(promised'[e]) = IsSatisfied(promised[e])
      /\ \A f \in Created \ {e} : promised'[f] = promised[f]
  BY <1>1, <1>2, <1>4, DropEffect
<1>8. Created' = Created
  BY <1>7 DEF Created
<1>9. /\ mode' \in {mode, "unwinding"} /\ cause' = "none"
      /\ blamed' \in {blamed, e}
      /\ Throws(broken) => mode' = "unwinding"
  <2>1. CASE Throws(broken)
    <3>1. mode # "unwinding"
      BY <2>1 DEF Throws
    <3> QED BY <1>1, <1>2, <2>1, <3>1 DEF AfterDestructor
  <2>2. CASE ~ Throws(broken)
    BY <1>1, <1>2, <2>2 DEF AfterDestructor
  <2> QED BY <2>1, <2>2
<1>10. TypeOK'
  <2>1. mode' \in {"running", "unwinding", "done", "terminated"}
        /\ cause' \in {"none", "unwinding", "sequence", "move assignment"}
        /\ failed' \in BOOLEAN
    BY <1>1, <1>2, <1>9 DEF TypeOK
  <2>2. blamed' \in Created' \cup {0} /\ excused' \subseteq Created'
    BY <1>1, <1>2, <1>4, <1>8, <1>9 DEF TypeOK
  <2>3. stack' \in Seq(Frames(Len(promised')))
    BY <1>6, <1>7
  <2> QED BY <1>7, <2>1, <2>2, <2>3 DEF TypeOK, Frames, Promises, Created
<1>11. AliveOnStack'
  <2> SUFFICES ASSUME NEW f \in Created, promised'[f].alive
               PROVE  OnStack(Frame("expectation", f))'
    BY <1>8 DEF AliveOnStack
  <2>1. f # e
    BY <1>7
  <2>2. OnStack(Frame("expectation", f))
    BY <1>7, <2>1 DEF IInv, AliveOnStack
  <2>3. Frame("expectation", f) # Top
    BY <1>4, <2>1 DEF Frame
  <2> QED BY <1>6, <2>2, <2>3
<1>12. DeadKeptPromises'
  <2> SUFFICES ASSUME NothingHappened', NEW f \in Created
               PROVE  promised'[f].alive \/ IsSatisfied(promised'[f]) \/ f \in excused
    BY <1>2, <1>8 DEF DeadKeptPromises, IsSatisfied
  <2>1. mode = "running" /\ NothingHappened /\ ~ Throws(broken)
    BY <1>1, <1>9 DEF NothingHappened, Active
  <2>2. ~ broken
    BY <2>1 DEF Throws
  <2>3. promised[f].alive \/ IsSatisfied(promised[f]) \/ f \in excused
    BY <2>1 DEF IInv, DeadKeptPromises
  <2> QED BY <1>7, <2>2, <2>3
<1>13. MembersOfTheDead'
  <2> SUFFICES ASSUME NEW f \in Created, OnStack(Frame("members", f))', f # e
               PROVE  ~ promised'[f].alive
    BY <1>7, <1>8 DEF MembersOfTheDead
  <2>1. Frame("members", f) # members
    BY DEF members, Frame
  <2>2. OnStack(Frame("members", f))
    BY <1>6, <2>1
  <2> QED BY <1>7, <2>2 DEF IInv, MembersOfTheDead
<1>14. NoneAliveAfterwards' /\ ErrorsTerminate' /\ SequenceErrorNeedsCaughtFailure'
  BY <1>1, <1>9
  DEF NoneAliveAfterwards, ErrorsTerminate, SequenceErrorNeedsCaughtFailure, Active
<1> QED BY <1>10, <1>11, <1>12, <1>14, <1>13 DEF IInv

\* A sequence, the members of an expectation, or a try block goes; no
\* living expectation is on the stack for it.
LEMMA PopPreserves ==
    ASSUME IInv, Active, stack # << >>, Top.kind # "expectation",
           stack' = Tail(stack), promised' = promised, failed' = failed,
           blamed' \in {blamed, 0}, excused' \subseteq Created,
           \/ mode' = mode /\ cause' = cause /\ excused' = excused
           \/ /\ mode' = "running" /\ cause' = cause
              /\ \A e \in Created :
                    promised[e].alive \/ IsSatisfied(promised[e]) \/ e \in excused'
           \/ /\ mode' = "terminated" /\ cause' = "sequence"
              /\ \E e \in excused' : ~ IsSatisfied(promised[e])
    PROVE  IInv'
<1>1. TypeOK /\ cause = "none"
  BY DEF IInv, ErrorsTerminate, Active
<1>2. /\ Top \in Frames(Len(promised)) /\ Tail(stack) \in Seq(Frames(Len(promised)))
      /\ \A frame : OnStack(frame) /\ frame # Top => OnStack(frame)'
      /\ \A frame : OnStack(frame)' => OnStack(frame)
  BY <1>1, Pop DEF OnStack
<1>3. TypeOK'
  BY <1>1, <1>2 DEF TypeOK, Frames, Created
<1>4. MembersOfTheDead'
  BY <1>2 DEF IInv, MembersOfTheDead, Created
<1>5. AliveOnStack'
  <2> SUFFICES ASSUME NEW f \in Created, promised[f].alive
               PROVE  OnStack(Frame("expectation", f))'
    BY DEF AliveOnStack, Created
  <2>1. OnStack(Frame("expectation", f)) /\ Frame("expectation", f) # Top
    BY DEF IInv, AliveOnStack, Frame
  <2> QED BY <1>2, <2>1
<1>6. DeadKeptPromises'
  <2> SUFFICES ASSUME NothingHappened', NEW f \in Created
               PROVE  promised[f].alive \/ IsSatisfied(promised[f]) \/ f \in excused'
    BY DEF DeadKeptPromises, Created, IsSatisfied
  <2>1. CASE mode' = mode /\ excused' = excused
    BY <2>1 DEF IInv, DeadKeptPromises, NothingHappened, Active
  <2>2. CASE mode' = "terminated"
    BY <2>2 DEF NothingHappened
  <2> QED BY <2>1, <2>2
<1>7. NoneAliveAfterwards' /\ ErrorsTerminate'
  BY <1>1 DEF NoneAliveAfterwards, ErrorsTerminate, Active
<1>8. SequenceErrorNeedsCaughtFailure'
  BY <1>1 DEF SequenceErrorNeedsCaughtFailure, IsSatisfied
<1> QED BY <1>3, <1>5, <1>6, <1>7, <1>8, <1>4 DEF IInv

LEMMA LeaveSequencePreserves ==
    ASSUME IInv, LeaveSequence
    PROVE  IInv'
<1>1. /\ Active /\ stack # << >> /\ Top.kind = "sequence"
      /\ stack' = Tail(stack) /\ promised' = promised
      /\ failed' = failed /\ blamed' = blamed /\ excused' = excused
  BY DEF LeaveSequence
<1>2. excused' \subseteq Created
  BY <1>1 DEF IInv, TypeOK
<1>3. CASE /\ \A e \in Created : promised[e].alive => Top.of \notin promised[e].in
           /\ SequenceThrows({Top.of})
           /\ Terminate("sequence")
  <2>1. \E e \in excused : ~ IsSatisfied(promised[e])
    BY <1>1, <1>3, SequenceErrorIsLate
  <2> QED BY <1>1, <1>2, <1>3, <2>1, PopPreserves DEF Terminate
<1>4. CASE UNCHANGED <<mode, cause>>
  BY <1>1, <1>2, <1>4, PopPreserves
<1> QED BY <1>3, <1>4 DEF LeaveSequence

\* The exception of the expectation itself, if there is one, is on its way
\* when its sequences are let go of.
LEMMA ReleaseMembersPreserves ==
    ASSUME IInv, ReleaseMembers
    PROVE  IInv'
<1> DEFINE e == Top.of
<1>1. /\ Active /\ stack # << >> /\ Top.kind = "members"
      /\ stack' = Tail(stack) /\ promised' = promised
      /\ failed' = failed /\ blamed' = blamed /\ excused' = excused
      /\ \/ SequenceThrows(HeldOnlyBy(e)) /\ Terminate("sequence")
         \/ UNCHANGED <<mode, cause>>
  BY DEF ReleaseMembers
<1>2. excused' \subseteq Created
  BY <1>1 DEF IInv, TypeOK
<1>3. CASE SequenceThrows(HeldOnlyBy(e)) /\ Terminate("sequence")
  <2>1. ~ promised[e].alive
    <3>1. OnStack(Top) /\ Top \in Frames(Len(promised))
      BY <1>1, Pop DEF IInv
    <3>2. Top = Frame("members", e) /\ e \in Created
      BY <1>1, <3>1 DEF Frames, Created, Frame
    <3> QED BY <3>1, <3>2 DEF IInv, MembersOfTheDead
  <2>2. \A s \in HeldOnlyBy(e) : \A f \in Created :
           promised[f].alive => s \notin promised[f].in \/ IsSatisfied(promised[f])
    BY <2>1 DEF HeldOnlyBy
  <2>3. \E f \in excused : ~ IsSatisfied(promised[f])
    BY <1>1, <1>3, <2>2, SequenceErrorIsLate
  <2> QED BY <1>1, <1>2, <1>3, <2>3, PopPreserves DEF Terminate
<1>4. CASE UNCHANGED <<mode, cause>>
  BY <1>1, <1>2, <1>4, PopPreserves
<1> QED BY <1>1, <1>3, <1>4

LEMMA LeaveTryPreserves ==
    ASSUME IInv, LeaveTry
    PROVE  IInv'
<1>1. /\ Active /\ stack # << >> /\ Top.kind = "try" /\ stack' = Tail(stack)
      /\ mode' = "running" /\ blamed' = 0
      /\ excused' = IF mode = "unwinding" THEN {e \in Created : ~ promised[e].alive}
                    ELSE excused
      /\ promised' = promised /\ failed' = failed /\ cause' = cause
  BY DEF LeaveTry
<1>2. excused' \subseteq Created
  BY <1>1 DEF IInv, TypeOK
<1>3. \A e \in Created :
         promised[e].alive \/ IsSatisfied(promised[e]) \/ e \in excused'
  <2>1. CASE mode = "unwinding"
    BY <1>1, <2>1
  <2>2. CASE mode = "running"
    BY <1>1, <2>2 DEF IInv, DeadKeptPromises, NothingHappened
  <2> QED BY <1>1, <2>1, <2>2 DEF Active
<1> QED BY <1>1, <1>2, <1>3, PopPreserves

LEMMA EndTestPreserves ==
    ASSUME IInv, EndTest
    PROVE  IInv'
<1>1. /\ Active /\ stack = << >> /\ mode' = "done" /\ failed' = (mode = "unwinding")
      /\ UNCHANGED <<promised, stack, blamed, excused, cause>>
      /\ cause = "none"
  BY DEF IInv, ErrorsTerminate, EndTest, Active
<1>2. \A e \in Created : ~ promised[e].alive
  <2>1. Len(stack) = 0
    BY <1>1
  <2> QED BY <2>1 DEF IInv, AliveOnStack, OnStack
<1>3. TypeOK' /\ AliveOnStack' /\ MembersOfTheDead'
  BY <1>1 DEF IInv, TypeOK, AliveOnStack, MembersOfTheDead, Created, OnStack
<1>4. DeadKeptPromises'
  <2>1. NothingHappened' => NothingHappened
    BY <1>1 DEF NothingHappened, Active
  <2> QED BY <1>1, <2>1 DEF IInv, DeadKeptPromises, Created, IsSatisfied
<1>5. NoneAliveAfterwards' /\ ErrorsTerminate' /\ SequenceErrorNeedsCaughtFailure'
  BY <1>1, <1>2
  DEF NoneAliveAfterwards, ErrorsTerminate, SequenceErrorNeedsCaughtFailure, Created
<1> QED BY <1>3, <1>4, <1>5 DEF IInv

\* The new expectation takes the place of the old one on the stack.
LEMMA ReplaceExpectationPreserves ==
    ASSUME IInv, NEW e \in Created, NEW times \in (0 .. MaxTimes) \X (0 .. MaxTimes),
           NEW S \in SUBSET SequenceNames, ReplaceExpectation(e, times, S)
    PROVE  IInv'
<1> DEFINE n == Len(promised) + 1
           old == Frame("expectation", e)
           new == Frame("expectation", n)
           rest == [promised EXCEPT ![e].alive = FALSE]
           broken == ~ IsSatisfied(promised[e])
<1>1. TypeOK
  BY DEF IInv
<1>2. /\ OnStack(old) /\ mode = "running"
      /\ promised' = Append(rest, NewPromise(times, S))
      /\ stack' = [i \in 1 .. Len(stack) |-> IF stack[i] = old THEN new ELSE stack[i]]
      /\ excused' = excused /\ failed' = failed /\ blamed' \in {blamed, e}
      /\ \/ Throws(broken) /\ Terminate("move assignment")
         \/ ~ Throws(broken) /\ SequenceThrows(HeldOnlyBy(e) \ S) /\ Terminate("sequence")
         \/ ~ Throws(broken) /\ UNCHANGED <<mode, cause>>
  BY DEF ReplaceExpectation, Replaced, Running, NewPromise
<1>3. /\ promised \in Seq(Promises) /\ Len(promised) \in Nat
      /\ stack \in Seq(Frames(Len(promised))) /\ Len(stack) \in Nat
  BY <1>1, Types
<1>4. /\ rest \in Seq(Promises) /\ Len(rest) = Len(promised)
      /\ rest[e].alive = FALSE
      /\ IsSatisfied(rest[e]) = IsSatisfied(promised[e])
      /\ \A f \in Created \ {e} : rest[f] = promised[f]
  BY <1>1, DropEffect
<1> HIDE DEF rest
<1>5. /\ promised' \in Seq(Promises) /\ Len(promised') = n
      /\ \A f \in Created : promised'[f] = rest[f]
      /\ promised'[n].alive = TRUE
  <2>1. LET grown == Append(rest, NewPromise(times, S)) IN
        /\ grown \in Seq(Promises) /\ Len(grown) = Len(rest) + 1
        /\ \A f \in 1 .. Len(rest) : grown[f] = rest[f]
        /\ grown[Len(rest) + 1].alive = TRUE
    BY <1>4, FrameAssumption, PromiseEffect
  <2> QED BY <1>2, <1>4, <2>1 DEF Created
<1>6. Created' = 1 .. n /\ Created' = Created \cup {n} /\ n \notin Created
  <2>1. 1 .. Len(promised) + 1 = (1 .. Len(promised)) \cup {Len(promised) + 1}
        /\ Len(promised) + 1 \notin 1 .. Len(promised)
    BY <1>3
  <2>2. Created' = 1 .. Len(promised')
    BY DEF Created
  <2> QED BY <1>5, <2>1, <2>2 DEF Created
<1>7. new \in Frames(n) /\ \A i \in 1 .. Len(stack) : stack[i] \in Frames(n)
  <2>1. \A i \in 1 .. Len(stack) : stack[i] \in Frames(Len(promised))
    BY <1>3, ElementOfSeq
  <2>2. Frames(Len(promised)) \subseteq Frames(n)
    <3>1. 1 .. Len(promised) \subseteq 1 .. n
      BY <1>3
    <3> QED BY <3>1 DEF Frames
  <2>3. new \in Frames(n)
    <3>1. n \in 1 .. n
      BY <1>3
    <3> QED BY <3>1 DEF Frames, Frame
  <2> QED BY <2>1, <2>2, <2>3
<1> HIDE DEF n, old, new
<1>8. stack' \in Seq(Frames(n)) /\ Len(stack') = Len(stack)
      /\ \A i \in 1 .. Len(stack) : stack'[i] = IF stack[i] = old THEN new ELSE stack[i]
  <2>1. stack' \in [1 .. Len(stack) -> Frames(n)]
    BY <1>2, <1>7
  <2>2. stack' \in Seq(Frames(n)) /\ Len(stack') = Len(stack)
    BY <1>3, <2>1, FunctionIsSeq
  <2> QED BY <1>2, <2>2
<1>9. \A g : OnStack(g) /\ g # old => OnStack(g)'
  BY <1>8 DEF OnStack
<1>10. \A g : g = new => OnStack(g)'
  <2>1. PICK i \in 1 .. Len(stack) : stack[i] = old
    BY <1>2 DEF OnStack
  <2> QED BY <1>8, <2>1 DEF OnStack
<1>11. /\ cause = "none" /\ mode' \in {"running", "terminated"}
       /\ \/ cause' = "none"
          \/ cause' \in {"move assignment", "sequence"} /\ mode' = "terminated"
  BY <1>2 DEF IInv, ErrorsTerminate, Terminate
<1>12. TypeOK'
  <2>1. blamed' \in Created' \cup {0} /\ excused' \subseteq Created'
    BY <1>1, <1>2, <1>6 DEF TypeOK
  <2> QED BY <1>1, <1>2, <1>5, <1>6, <1>8, <1>11, <2>1 DEF TypeOK, Frames, Promises
<1>13. AliveOnStack'
  <2> SUFFICES ASSUME NEW f \in Created', promised'[f].alive
               PROVE  OnStack(Frame("expectation", f))'
    BY DEF AliveOnStack
  <2>1. CASE f = n
    BY <1>10, <2>1 DEF new
  <2>2. CASE f \in Created
    <3>1. f # e /\ promised[f].alive
      BY <1>4, <1>5, <2>2
    <3>2. OnStack(Frame("expectation", f)) /\ Frame("expectation", f) # old
      BY <2>2, <3>1 DEF IInv, AliveOnStack, Frame, old
    <3> QED BY <1>9, <3>2
  <2> QED BY <1>6, <2>1, <2>2
<1>14. DeadKeptPromises'
  <2> SUFFICES ASSUME NothingHappened', NEW f \in Created
               PROVE  promised'[f].alive \/ IsSatisfied(promised'[f]) \/ f \in excused
    BY <1>2, <1>5, <1>6 DEF DeadKeptPromises, IsSatisfied
  <2>1. NothingHappened /\ ~ Throws(broken)
    BY <1>2, <1>11 DEF NothingHappened, Terminate
  <2>2. ~ broken
    BY <1>2, <2>1 DEF Throws
  <2>3. promised[f].alive \/ IsSatisfied(promised[f]) \/ f \in excused
    BY <2>1 DEF IInv, DeadKeptPromises
  <2> QED BY <1>4, <1>5, <2>2, <2>3
<1>15. NoneAliveAfterwards' /\ ErrorsTerminate'
  BY <1>11 DEF NoneAliveAfterwards, ErrorsTerminate
<1>16. MembersOfTheDead'
  <2> SUFFICES ASSUME NEW f \in Created', OnStack(Frame("members", f))'
               PROVE  ~ promised'[f].alive
    BY DEF MembersOfTheDead
  <2>1. Frame("members", f) # new
    BY DEF Frame, new
  <2>2. OnStack(Frame("members", f))
    BY <1>8, <2>1 DEF OnStack
  <2>3. f \in Created
    BY <1>1, <2>2, MembersOfCreated
  <2>4. ~ promised[f].alive
    BY <2>2, <2>3 DEF IInv, MembersOfTheDead
  <2> QED BY <1>4, <1>5, <2>3, <2>4
<1>17. SequenceErrorNeedsCaughtFailure'
  <2> SUFFICES ASSUME ~ Throws(broken), SequenceThrows(HeldOnlyBy(e) \ S)
               PROVE  \E f \in excused : ~ IsSatisfied(promised'[f])
    BY <1>2, <1>11 DEF SequenceErrorNeedsCaughtFailure, Terminate, IsSatisfied
  <2>1. \A s \in HeldOnlyBy(e) \ S : \A f \in Created :
           promised[f].alive => s \notin promised[f].in \/ IsSatisfied(promised[f])
    BY <1>2 DEF HeldOnlyBy, Throws
  <2>2. Active
    BY <1>2 DEF Active
  <2>3. PICK f \in excused : ~ IsSatisfied(promised[f])
    BY <2>1, <2>2, SequenceErrorIsLate
  <2>4. f \in Created
    BY <1>1 DEF TypeOK
  <2>5. ~ IsSatisfied(promised'[f])
    BY <1>4, <1>5, <2>3, <2>4
  <2> QED BY <2>5
<1> QED BY <1>12, <1>13, <1>14, <1>15, <1>17, <1>16 DEF IInv

-----------------------------------------------------------------------------
(* Theorems *)

LEMMA Invariance == Spec => []IInv
<1>1. IInv /\ [Next]_vars => IInv'
  <2> SUFFICES ASSUME IInv, [Next]_vars  PROVE IInv'
    OBVIOUS
  <2>1. CASE UNCHANGED vars
    BY <2>1 DEF IInv, TypeOK, AliveOnStack, MembersOfTheDead, DeadKeptPromises,
                NothingHappened, NoneAliveAfterwards, ErrorsTerminate, SequenceErrorNeedsCaughtFailure,
                Created, OnStack, IsSatisfied, vars
  <2>2. CASE OpenTry
    <3>1. Frame("try", 0) \in Frames(Len(promised)) /\ Frame("try", 0).kind # "members"
      BY DEF Frame, Frames
    <3> QED BY <2>2, <3>1, PushPreserves DEF OpenTry, Running, RunningStep
  <2>3. ASSUME NEW s \in SequenceNames, DeclareSequence(s)  PROVE IInv'
    <3>1. /\ Frame("sequence", s) \in Frames(Len(promised))
          /\ Frame("sequence", s).kind # "members"
      BY DEF Frame, Frames
    <3> QED BY <2>3, <3>1, PushPreserves DEF DeclareSequence, Running, RunningStep
  <2>4. ASSUME NEW times \in (0 .. MaxTimes) \X (0 .. MaxTimes),
               NEW S \in SUBSET SequenceNames, DeclareExpectation(times, S)
        PROVE  IInv'
    BY <2>4, DeclareExpectationPreserves
  <2>5. ASSUME NEW times \in (0 .. MaxTimes) \X (0 .. MaxTimes),
               NEW S \in SUBSET SequenceNames,
               NEW e \in Created, ReplaceExpectation(e, times, S)
        PROVE  IInv'
    BY <2>5, ReplaceExpectationPreserves
  <2>6. ASSUME NEW e \in Created, CallMatched(e)  PROVE IInv'
    BY <2>6, CallMatchedPreserves
  <2>7. CASE Throw
    BY <2>7, ThrowPreserves
  <2>8. CASE RemoveExpectation
    BY <2>8, RemoveExpectationPreserves
  <2>9. CASE ReleaseMembers
    BY <2>9, ReleaseMembersPreserves
  <2>10. CASE LeaveSequence
    BY <2>10, LeaveSequencePreserves
  <2>11. CASE LeaveTry
    BY <2>11, LeaveTryPreserves
  <2>12. CASE EndTest
    BY <2>12, EndTestPreserves
  <2> QED BY <2>1, <2>2, <2>3, <2>4, <2>5, <2>6, <2>7, <2>8, <2>9, <2>10,
            <2>11, <2>12 DEF Next
<1> QED BY <1>1, InitEstablishes, PTL DEF Spec

\* The stack holds the objects of the test, the promises what the test has
\* asked for: no operation leaves the range of its fields.
THEOREM TypesHold == Spec => []TypeOK
<1>1. IInv => TypeOK
  BY DEF IInv
<1> QED BY <1>1, Invariance, PTL

\* However the scopes of a test are nested, and whatever it throws: if it
\* ends without an exception, every expectation was satisfied or dead when
\* the test last caught one (Expectation.hpp:285-289, Reporter.hpp:378-393,
\* 498-526).
THEOREM GreenTestsKeepPromises == Spec => []GreenTestKeptPromises
<1>1. IInv => GreenTestKeptPromises
  BY DEF IInv, GreenTestKeptPromises, DeadKeptPromises, NothingHappened, NoneAliveAfterwards
<1> QED BY <1>1, Invariance, PTL

\* An exception that reports an unsatisfied expectation is about the first
\* one that died since the test last caught an exception: it is thrown only
\* while the test runs, and then no earlier one has gone unreported
\* (Expectation.hpp:277-290, 633-637, 692).
THEOREM FirstFailuresAreReported == Spec => FirstFailureIsReported
<1> DEFINE kept == \A e \in Created :
                promised[e].alive \/ IsSatisfied(promised[e]) \/ e \in excused
<1>1. IInv /\ [Next]_vars => [blamed' \notin {0, blamed} => kept]_vars
  <2> SUFFICES ASSUME IInv, Next, blamed' \notin {0, blamed}  PROVE kept
    OBVIOUS
  <2>1. mode = "running"
    <3>1. CASE RemoveExpectation
      <4>1. AfterDestructor(Throws(~ IsSatisfied(promised[Top.of])), Top.of) /\ Active
        BY <3>1 DEF RemoveExpectation
      <4> QED BY <4>1 DEF AfterDestructor, Throws, Active
    <3>2. CASE ~ RemoveExpectation
      BY <3>2
      DEF Next, OpenTry, DeclareSequence, DeclareExpectation, ReplaceExpectation,
          Replaced, Running, CallMatched, Throw, ReleaseMembers, LeaveSequence,
          LeaveTry, EndTest
    <3> QED BY <3>1, <3>2
  <2> QED BY <2>1 DEF IInv, DeadKeptPromises, NothingHappened
<1> QED BY <1>1, Invariance, PTL DEF Spec, FirstFailureIsReported

\* The error of a sequence (Sequence.hpp:90-108) is about a failure that the
\* test has caught before.
THEOREM SequenceErrorsAreLate == Spec => []SequenceErrorNeedsCaughtFailure
<1>1. IInv => SequenceErrorNeedsCaughtFailure
  BY DEF IInv
<1> QED BY <1>1, Invariance, PTL

=============================================================================
