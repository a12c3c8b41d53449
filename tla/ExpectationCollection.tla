----------------------- MODULE ExpectationCollection -----------------------
(***************************************************************************)
(* One mock's ExpectationCollection (Expectation.hpp) under several        *)
(* threads, step by step: what m_ExpectationsMx protects, and what is done *)
(* after it has been released.                                             *)
(*                                                                         *)
(* handle_call holds the mutex while it walks the collection, and no       *)
(* longer: the match is reported, consumed and finalized through a plain   *)
(* reference.  Side effects run inside consume and may call the mock       *)
(* again, so that every thread has a stack of calls.  The expectations     *)
(* here belong to no sequence (sequences are documented as not             *)
(* thread-safe), so that pick_best_match takes the first match, the newest *)
(* one.  Matchers do not call the mock: under the mutex they could not.    *)
(*                                                                         *)
(* Every expectation belongs to the thread that created it, in whose scope *)
(* it is also destroyed.  Shared says whether the calls of one thread may  *)
(* match the expectations of another.                                      *)
(***************************************************************************)
EXTENDS Integers, Sequences, SequencesExt

CONSTANTS
    Threads,
    NoThread,        \* the owner of a free mutex
    Shared,          \* may a call match an expectation of another thread?
    MaxExpectations, \* bound: expectations ever created
    MaxTimes,        \* bound: the largest upper times limit
    MaxDepth,        \* bound: calls nested in each other's side effects
    MaxCalls         \* bound: calls of the mock

ASSUME ThreadAssumption == NoThread \notin Threads
ASSUME BoundAssumption ==
    /\ Shared \in BOOLEAN
    /\ MaxExpectations \in Nat /\ MaxTimes \in Nat
    /\ MaxDepth \in Nat /\ MaxCalls \in Nat

VARIABLES
    mutex,        \* m_ExpectationsMx: the thread that holds it
    stored,       \* m_Expectations, oldest first
    expectations, \* all expectations ever created, oldest first
    stack,        \* per thread, the calls it is executing, innermost first
    calls,        \* calls started so far
    asserted,     \* did every assert() evaluated so far hold?
    terminated,   \* has std::terminate been called?
    taken         \* history: per expectation, the calls it was chosen for

vars == <<mutex, stored, expectations, stack, calls, asserted, terminated, taken>>

Created == 1 .. Len(expectations)

\* A call of the mock.  todo: the elements of stored not yet visited; best:
\* the newest match so far, 0 if none; rejected: has an inapplicable one
\* been seen; read: m_Count as loaded by the increment in consume.
Call == [at : {"lock", "walk", "consume", "store", "effects", "finalize"},
         todo : Nat, best : 0 .. MaxExpectations, read : Nat]

NewCall == [at |-> "lock", todo |-> 0, best |-> 0, read |-> 0]

Top(t) == stack[t][1]

\* t is executing a call that has reached step "at".
At(t, at) == ~ terminated /\ stack[t] # << >> /\ Top(t).at = at

\* t may start something new: it is outside of any call, or in a side
\* effect or a finalizer of one.
MayStart(t) ==
    /\ ~ terminated
    /\ stack[t] # << >> => Top(t).at \in {"effects", "finalize"}

\* t's innermost call changes to f; it ends; another one is put on top.
Become(t, f) == stack' = [stack EXCEPT ![t] = <<f>> \o Tail(@)]
Return(t) == stack' = [stack EXCEPT ![t] = Tail(@)]
Enter(t, f) == stack' = [stack EXCEPT ![t] = <<f>> \o @]

\* The innermost call returns or throws.  Side effects run within a
\* noexcept part of BasicExpectation::consume: an exception of a nested
\* call that the side effect does not handle calls std::terminate.
EndCall(t) ==
    \/ Return(t) /\ UNCHANGED terminated
    \/ /\ Len(stack[t]) > 1 /\ stack[t][2].at = "effects"
       /\ terminated' = TRUE
       /\ UNCHANGED stack

Init ==
    /\ mutex = NoThread
    /\ stored = << >>
    /\ expectations = << >>
    /\ stack = [t \in Threads |-> << >>]
    /\ calls = 0
    /\ asserted = TRUE
    /\ terminated = FALSE
    /\ taken = << >>

-----------------------------------------------------------------------------
(* push and remove hold the mutex from their first to their last step and  *)
(* are one step of the model.  Both assert whether the collection has the  *)
(* expectation.                                                            *)

Stored(e) == \E i \in 1 .. Len(stored) : stored[i] = e
Position(e) == CHOOSE i \in 1 .. Len(stored) : stored[i] = e

\* A ScopedExpectation is created: ExpectationCollection::push.
Push(t, limits) ==
    /\ MayStart(t)
    /\ Len(expectations) < MaxExpectations
    /\ limits[1] <= limits[2]
    /\ mutex = NoThread
    /\ expectations' = Append(expectations,
                              [min |-> limits[1], max |-> limits[2], count |-> 0,
                               owner |-> t, alive |-> TRUE])
    /\ stored' = Append(stored, Len(expectations) + 1)
    /\ taken' = Append(taken, 0)
    /\ asserted' = (asserted /\ ~ Stored(Len(expectations) + 1))
    /\ UNCHANGED <<mutex, stack, calls, terminated>>

\* Faulty: the expectation stays in the collection.
DestroyOnly(t, e) ==
    /\ MayStart(t)
    /\ \A i \in 1 .. Len(stack[t]) : stack[t][i].best # e
    /\ expectations[e].owner = t /\ expectations[e].alive
    /\ mutex = NoThread
    /\ expectations' = [expectations EXCEPT ![e].alive = FALSE]
    /\ UNCHANGED <<mutex, stored, stack, calls, asserted, terminated, taken>>

\* A ScopedExpectation is destroyed: ExpectationCollection::remove, after
\* which the last reference to the expectation is gone.  Its owner does not
\* do so in a side effect or finalizer of that expectation.
RemoveAndDestroy(t, e) ==
    /\ MayStart(t)
    /\ \A i \in 1 .. Len(stack[t]) : stack[t][i].best # e
    /\ expectations[e].owner = t /\ expectations[e].alive
    /\ mutex = NoThread
    /\ asserted' = (asserted /\ Stored(e))
    /\ stored' = RemoveAt(stored, Position(e))
    /\ expectations' = [expectations EXCEPT ![e].alive = FALSE]
    /\ UNCHANGED <<mutex, stack, calls, terminated, taken>>

-----------------------------------------------------------------------------
(* handle_call *)

\* The mock is called, by the test or from within a side effect.
StartCall(t) ==
    /\ MayStart(t)
    /\ calls < MaxCalls /\ Len(stack[t]) < MaxDepth
    /\ calls' = calls + 1
    /\ Enter(t, NewCall)
    /\ UNCHANGED <<mutex, stored, expectations, asserted, terminated, taken>>

\* Faulty: the collection is walked without the mutex.
WalkUnlocked(t) ==
    /\ At(t, "lock")
    /\ Become(t, [Top(t) EXCEPT !.at = "walk", !.todo = Len(stored)])
    /\ UNCHANGED <<mutex, stored, expectations, calls, asserted, terminated, taken>>

Lock(t) ==
    /\ At(t, "lock")
    /\ mutex = NoThread
    /\ mutex' = t
    /\ Become(t, [Top(t) EXCEPT !.at = "walk", !.todo = Len(stored)])
    /\ UNCHANGED <<stored, expectations, calls, asserted, terminated, taken>>

\* Faulty: one match too many.
IsOverSaturated(e) == expectations[e].count > expectations[e].max

\* make_control_state, for an expectation without sequences.
IsSaturated(e) == expectations[e].count = expectations[e].max

\* The expectations whose matchers may accept a call of thread t.
MayAccept(t, e) == Shared \/ expectations[e].owner = t

\* One round of the loop, from the newest expectation to the oldest: a
\* matcher rejects the call, or the expectation matches, unless saturated.
Visit(t) ==
    /\ At(t, "walk") /\ Top(t).todo > 0
    /\ LET f == [Top(t) EXCEPT !.todo = @ - 1]
           e == stored[Top(t).todo]
       IN  \/ Become(t, f)
           \/ /\ MayAccept(t, e) /\ ~ IsSaturated(e)
              /\ Become(t, [f EXCEPT !.best = IF @ = 0 THEN e ELSE @])
    /\ UNCHANGED <<mutex, stored, expectations, calls, asserted, terminated, taken>>

\* Faulty: the mutex is not released.
WalkDoneLocked(t) == At(t, "walk") /\ Top(t).todo = 0 /\ mutex' = mutex

\* The end of the loop releases the mutex.
WalkDone(t) == At(t, "walk") /\ Top(t).todo = 0 /\ mutex' = NoThread

\* With a match, the full match is reported and consume comes next.
Matched(t) ==
    /\ WalkDone(t)
    /\ Top(t).best # 0
    /\ Become(t, [Top(t) EXCEPT !.at = "consume"])
    /\ UNCHANGED <<stored, expectations, calls, asserted, terminated, taken>>

\* Without one, the reporter ends the call with an exception.
Unmatched(t) ==
    /\ WalkDone(t)
    /\ Top(t).best = 0
    /\ EndCall(t)
    /\ UNCHANGED <<stored, expectations, calls, asserted, taken>>

\* ControlPolicy::consume: the assertion, and the load of ++m_Count.
BeginConsume(t) ==
    /\ At(t, "consume")
    /\ LET e == Top(t).best
           x == expectations[e]
       IN  /\ asserted' = (asserted /\ x.count < x.max)
           /\ taken' = [taken EXCEPT ![e] = @ + 1]
           /\ Become(t, [Top(t) EXCEPT !.at = "store", !.read = x.count])
    /\ UNCHANGED <<mutex, stored, expectations, calls, terminated>>

\* The store of ++m_Count.
EndConsume(t) ==
    /\ At(t, "store")
    /\ expectations' = [expectations EXCEPT ![Top(t).best].count = Top(t).read + 1]
    /\ Become(t, [Top(t) EXCEPT !.at = "effects"])
    /\ UNCHANGED <<mutex, stored, calls, asserted, terminated, taken>>

\* Faulty: the count is written back after the side effects, as it was
\* loaded before them.
EffectsDoneWritesBack(t) ==
    /\ At(t, "effects")
    /\ expectations' = [expectations EXCEPT ![Top(t).best].count = Top(t).read + 1]
    /\ Become(t, [Top(t) EXCEPT !.at = "finalize"])
    /\ UNCHANGED <<mutex, stored, calls, asserted, terminated, taken>>

\* The side effects have run.
EffectsDone(t) ==
    /\ At(t, "effects")
    /\ Become(t, [Top(t) EXCEPT !.at = "finalize"])
    /\ UNCHANGED <<mutex, stored, expectations, calls, asserted, terminated, taken>>

\* The finalizer returns or throws.
Finalize(t) ==
    /\ At(t, "finalize")
    /\ EndCall(t)
    /\ UNCHANGED <<mutex, stored, expectations, calls, asserted, taken>>

\* What a thread does inside a call it has started.
Continue(t) ==
    \/ Lock(t) \/ Visit(t) \/ Matched(t) \/ Unmatched(t)
    \/ BeginConsume(t) \/ EndConsume(t) \/ EffectsDone(t) \/ Finalize(t)

Next ==
    \E t \in Threads :
        \/ \E limits \in (0 .. MaxTimes) \X (0 .. MaxTimes) : Push(t, limits)
        \/ \E e \in Created : RemoveAndDestroy(t, e)
        \/ StartCall(t)
        \/ Continue(t)

Spec == Init /\ [][Next]_vars

\* Every thread gets to run.  Matchers, side effects and finalizers come to
\* an end; whether new calls are made is up to the test.
FairSpec == Spec /\ \A t \in Threads : WF_vars(Continue(t))

-----------------------------------------------------------------------------
(* Properties *)

TypeOK ==
    /\ mutex \in Threads \cup {NoThread}
    /\ stored \in Seq(Created)
    /\ expectations \in Seq([min : 0 .. MaxTimes, max : 0 .. MaxTimes,
                             count : 0 .. MaxTimes, owner : Threads,
                             alive : BOOLEAN])
    /\ stack \in [Threads -> Seq(Call)]
    /\ calls \in 0 .. MaxCalls
    /\ asserted \in BOOLEAN /\ terminated \in BOOLEAN
    /\ taken \in Seq(Nat) /\ Len(taken) = Len(expectations)

\* No assert() fails: what was applicable when the mutex was held still is
\* when the expectation is consumed (ControlPolicies.hpp:198), and the
\* collection has exactly the expectations that live (Expectation.hpp:263,
\* 282).
AssertionsHold == asserted

\* A call that chooses among the expectations sees every match handed out
\* before: m_Count is up to date although the match was chosen under the
\* mutex and is counted after its release (Expectation.hpp:344), and
\* although a side effect calls the mock again while the call it belongs to
\* is still being consumed (Expectation.hpp:510-516).
CountsAreCurrent ==
    \A t \in Threads : At(t, "walk") =>
        \A e \in Created : expectations[e].owner = t =>
            expectations[e].count = taken[e]

\* The vector is never changed under a thread that iterates over it
\* (Expectation.hpp:308-309).
CollectionStableDuringWalk ==
    [][(\E t \in Threads : At(t, "walk") /\ At(t, "walk")') => UNCHANGED stored]_vars

\* The collection keeps the promises of the abstract specification, for
\* expectations without sequences: a call is given to an expectation that
\* still exists and has a match left.  Being chosen is what counts, at the
\* moment consume starts.
Ordered == INSTANCE OrderedExpectations WITH
    SequenceNames <- {},
    promised <- [e \in Created |->
                    [min |-> expectations[e].min, max |-> expectations[e].max,
                     count |-> taken[e], in |-> {},
                     alive |-> expectations[e].alive]]

OrderedSpec == Ordered!Spec

\* Every call comes to an end, and so do the calls it is nested in: no
\* thread waits forever for the mutex.
EveryCallEnds ==
    \A t \in Threads : stack[t] # << >> ~> (stack[t] = << >> \/ terminated)

=============================================================================
