------------------------- MODULE ScopedExpectations -------------------------
(***************************************************************************)
(* How a broken promise makes a test fail: ScopedExpectations and          *)
(* sequences are destroyed as the scopes of a test end, normally or        *)
(* because an exception unwinds them, and the reporter (DefaultReporter,   *)
(* or BasicReporter for a test framework) turns an unsatisfied expectation *)
(* into an exception of its own.                                           *)
(*                                                                         *)
(* The objects of the test are a stack; promised holds what was promised   *)
(* about every expectation ever created.  Calls are given to expectations  *)
(* as OrderedExpectations allows, and a sequence reports an error exactly  *)
(* when an expectation once attached to it missed its minimum:             *)
(* SequencedExpectations shows both of the code.                           *)
(***************************************************************************)
EXTENDS Integers, Sequences

CONSTANTS
    SequenceNames,   \* the sequences of the test
    MaxExpectations, \* bound: expectations ever created
    MaxTimes,        \* bound: the largest upper times limit
    MaxFrames        \* bound: objects and try blocks at the same time

ASSUME FrameAssumption ==
    MaxExpectations \in Nat /\ MaxTimes \in Nat /\ MaxFrames \in Nat

VARIABLES
    promised, \* all expectations ever created, oldest first
    stack,    \* living objects and open try blocks, innermost first
    mode,     \* running, unwinding an exception, done, or terminated
    failed,   \* did an exception leave the test?
    blamed,   \* the expectation that exception, or the one on its way, is about
    excused,  \* history: the dead when a try block last caught an exception
    cause     \* the noexcept context that called std::terminate

vars == <<promised, stack, mode, failed, blamed, excused, cause>>

Ordered == INSTANCE OrderedExpectations

Created == 1 .. Len(promised)
IsSatisfied(x) == x.min <= x.count /\ x.count <= x.max

Frame(kind, of) == [kind |-> kind, of |-> of]
OnStack(frame) == \E i \in 1 .. Len(stack) : stack[i] = frame
Top == Head(stack)

Active == mode \in {"running", "unwinding"}

\* The test's own code runs, and not a destructor.
Running == mode = "running" /\ (stack # << >> => Top.kind # "members")

Init ==
    /\ promised = << >>
    /\ stack = << >>
    /\ mode = "running"
    /\ failed = FALSE
    /\ blamed = 0
    /\ excused = {}
    /\ cause = "none"

-----------------------------------------------------------------------------
(* Reporting *)

\* Faulty: the condition is the wrong way around.
ThrowsWhileUnwinding(reported) == reported /\ mode = "unwinding"

\* report_unfulfilled_expectation and report_error throw unless an
\* exception is on its way already: uncaught_exceptions() is 1 exactly
\* while the stack is being unwound.
Throws(reported) == reported /\ mode # "unwinding"

\* The exception is about e.  A second one during unwinding ends the program.
AfterDestructor(throws, e) ==
    IF throws
    THEN /\ blamed' = e
         /\ IF mode = "unwinding" THEN mode' = "terminated" /\ cause' = "unwinding"
            ELSE mode' = "unwinding" /\ cause' = cause
    ELSE UNCHANGED <<mode, blamed, cause>>

\* An exception meets a noexcept function.
Terminate(why) == mode' = "terminated" /\ cause' = why

\* The sequences for which e holds the last reference.
HeldOnlyBy(e) ==
    {s \in promised[e].in :
        /\ ~ OnStack(Frame("sequence", s))
        /\ \A f \in Created \ {e} : promised[f].alive => s \notin promised[f].in}

\* ~BasicSequence finds an entry that misses matches.
IsUnfulfilled(s) ==
    \E e \in Created : s \in promised[e].in /\ ~ IsSatisfied(promised[e])

\* ~BasicSequence is declared noexcept(false), but the last reference to a
\* sequence is always a shared_ptr, whose destructor must not throw.
SequenceThrows(S) == \E s \in S : Throws(IsUnfulfilled(s))

-----------------------------------------------------------------------------
(* What a running test does. *)

\* The test enters a try block.
OpenTry ==
    /\ Running
    /\ Len(stack) < MaxFrames
    /\ stack' = <<Frame("try", 0)>> \o stack
    /\ UNCHANGED <<promised, mode, failed, blamed, excused, cause>>

\* LazySequence s; or GreedySequence s;
DeclareSequence(s) ==
    /\ Running
    /\ Len(stack) < MaxFrames
    /\ ~ OnStack(Frame("sequence", s))
    /\ \A e \in Created : s \notin promised[e].in
    /\ stack' = <<Frame("sequence", s)>> \o stack
    /\ UNCHANGED <<promised, mode, failed, blamed, excused, cause>>

\* SCOPED_EXP mock.expect_call(...) and ...;
MakesPromise(times, S) ==
    /\ Running
    /\ Len(promised) < MaxExpectations
    /\ \A s \in S : OnStack(Frame("sequence", s))
    /\ Ordered!Promised(times[1], times[2], S)

DeclareExpectation(times, S) ==
    /\ Len(stack) < MaxFrames
    /\ MakesPromise(times, S)
    /\ stack' = <<Frame("expectation", Len(promised) + 1)>> \o stack
    /\ UNCHANGED <<mode, failed, blamed, excused, cause>>

\* Faulty: neither the times limit nor the sequences are looked at.
CallMatchedAnytime(e) ==
    /\ Running
    /\ promised[e].alive
    /\ promised' = [promised EXCEPT ![e].count = @ + 1]
    /\ UNCHANGED <<stack, mode, failed, blamed, excused, cause>>

\* A call of the mock that an expectation matches.
CallMatched(e) ==
    /\ Running
    /\ Ordered!Matched(e)
    /\ UNCHANGED <<stack, mode, failed, blamed, excused, cause>>

\* A call no expectation matches, which the reporter answers with an
\* exception, or an exception of the code under test.
Throw ==
    /\ Running /\ stack # << >>
    /\ mode' = "unwinding"
    /\ UNCHANGED <<promised, stack, failed, blamed, excused, cause>>

\* The new expectation takes the place of e.
Replaced(e, times, S) ==
    /\ Running
    /\ OnStack(Frame("expectation", e))
    /\ Len(promised) < MaxExpectations
    /\ times[1] <= times[2]
    /\ \A s \in S : OnStack(Frame("sequence", s))
    /\ promised' = Append([promised EXCEPT ![e].alive = FALSE],
                          [min |-> times[1], max |-> times[2], count |-> 0,
                           in |-> S, alive |-> TRUE])
    /\ stack' = [i \in 1 .. Len(stack) |->
                    IF stack[i] = Frame("expectation", e)
                    THEN Frame("expectation", Len(promised) + 1) ELSE stack[i]]

\* Faulty: the exception of the old expectation is swallowed.
ReplaceExpectationSilently(e, times, S) ==
    /\ Replaced(e, times, S)
    /\ IF SequenceThrows(HeldOnlyBy(e) \ S) THEN Terminate("sequence")
       ELSE UNCHANGED <<mode, cause>>
    /\ UNCHANGED <<failed, blamed, excused>>

\* A new expectation is move-assigned to the ScopedExpectation of e: the
\* defaulted operator= destroys e from within unique_ptr's noexcept
\* assignment instead of through ~ScopedExpectation.
ReplaceExpectation(e, times, S) ==
    /\ Replaced(e, times, S)
    /\ IF Throws(~ IsSatisfied(promised[e]))
       THEN Terminate("move assignment") /\ blamed' = e
       ELSE /\ IF SequenceThrows(HeldOnlyBy(e) \ S) THEN Terminate("sequence")
               ELSE UNCHANGED <<mode, cause>>
            /\ UNCHANGED blamed
    /\ UNCHANGED <<failed, excused>>

-----------------------------------------------------------------------------
(* The innermost scope ends, normally or by unwinding. *)

\* Faulty: the sequences are let go of before the expectation is removed.
RemoveExpectationSequencesFirst ==
    /\ Active /\ stack # << >> /\ Top.kind = "expectation"
    /\ stack' = Tail(stack)
    /\ Ordered!Dropped(Top.of)
    /\ IF SequenceThrows(HeldOnlyBy(Top.of))
       THEN Terminate("sequence") /\ UNCHANGED blamed
       ELSE AfterDestructor(Throws(~ IsSatisfied(promised[Top.of])), Top.of)
    /\ UNCHANGED <<failed, excused>>

\* ~ScopedExpectation: the body of ~Model removes the expectation from its
\* collection, which reports it if it is not satisfied.
RemoveExpectation ==
    /\ Active /\ stack # << >> /\ Top.kind = "expectation"
    /\ stack' = <<Frame("members", Top.of)>> \o Tail(stack)
    /\ Ordered!Dropped(Top.of)
    /\ AfterDestructor(Throws(~ IsSatisfied(promised[Top.of])), Top.of)
    /\ UNCHANGED <<failed, excused>>

\* The members of Model are destroyed after its body, whether or not the
\* body threw: the last reference to the expectation is let go of, which
\* destroys the sequences nobody else holds.
ReleaseMembers ==
    /\ Active /\ stack # << >> /\ Top.kind = "members"
    /\ stack' = Tail(stack)
    /\ IF SequenceThrows(HeldOnlyBy(Top.of)) THEN Terminate("sequence")
       ELSE UNCHANGED <<mode, cause>>
    /\ UNCHANGED <<promised, failed, blamed, excused>>

\* ~BasicSequenceInterface: expectations may outlive it and keep the
\* sequence itself.
LeaveSequence ==
    /\ Active /\ stack # << >> /\ Top.kind = "sequence"
    /\ stack' = Tail(stack)
    /\ IF /\ \A e \in Created : promised[e].alive => Top.of \notin promised[e].in
          /\ SequenceThrows({Top.of})
       THEN Terminate("sequence")
       ELSE UNCHANGED <<mode, cause>>
    /\ UNCHANGED <<promised, failed, blamed, excused>>

\* A try block ends; its handler takes an exception that reaches it.
LeaveTry ==
    /\ Active /\ stack # << >> /\ Top.kind = "try"
    /\ stack' = Tail(stack)
    /\ mode' = "running"
    /\ blamed' = 0
    /\ excused' = IF mode = "unwinding" THEN {e \in Created : ~ promised[e].alive}
                  ELSE excused
    /\ UNCHANGED <<promised, failed, cause>>

\* The test returns, or the test framework takes its exception.
EndTest ==
    /\ Active /\ stack = << >>
    /\ mode' = "done"
    /\ failed' = (mode = "unwinding")
    /\ UNCHANGED <<promised, stack, blamed, excused, cause>>

Next ==
    \/ OpenTry
    \/ \E s \in SequenceNames : DeclareSequence(s)
    \/ \E times \in (0 .. MaxTimes) \X (0 .. MaxTimes), S \in SUBSET SequenceNames :
          \/ DeclareExpectation(times, S)
          \/ \E e \in Created : ReplaceExpectation(e, times, S)
    \/ \E e \in Created : CallMatched(e)
    \/ Throw
    \/ RemoveExpectation \/ ReleaseMembers \/ LeaveSequence \/ LeaveTry
    \/ EndTest

Spec == Init /\ [][Next]_vars

-----------------------------------------------------------------------------
(* Properties *)

TypeOK ==
    /\ promised \in Seq([min : 0 .. MaxTimes, max : 0 .. MaxTimes,
                         count : 0 .. MaxTimes, in : SUBSET SequenceNames,
                         alive : BOOLEAN])
    /\ stack \in Seq([kind : {"try"}, of : {0}]
                     \cup [kind : {"sequence"}, of : SequenceNames]
                     \cup [kind : {"expectation", "members"}, of : Created])
    /\ mode \in {"running", "unwinding", "done", "terminated"}
    /\ failed \in BOOLEAN
    /\ blamed \in Created \cup {0} /\ excused \subseteq Created
    /\ cause \in {"none", "unwinding", "sequence", "move assignment"}

\* A green test kept its promises: when a test ends without an exception,
\* every expectation it ever made was satisfied, but for those that had died
\* by the time it caught an exception itself, although reports are dropped
\* while an exception is uncaught (Reporter.hpp:378-393, 498-526).
GreenTestKeptPromises ==
    (mode = "done" /\ ~ failed) =>
        \A e \in Created : IsSatisfied(promised[e]) \/ e \in excused

\* Of several broken promises the first one is the failure: no report makes
\* an exception while there is, since the test last caught one, another dead
\* expectation that was not satisfied.  Neither is one lost when the object
\* that holds it is assigned over (Expectation.hpp:631, 692), nor does
\* a later one take its place.
FirstFailureIsReported ==
    [][blamed' \notin {0, blamed} =>
          \A e \in Created :
              promised[e].alive \/ IsSatisfied(promised[e]) \/ e \in excused]_vars

\* ~BasicSequence's error, which ends the program, is always about a failure
\* that the test has caught: as long as it has not, an expectation the
\* sequence misses either holds the sequence, or its own exception is on its
\* way when the sequence dies (Sequence.hpp:90-108, Expectation.hpp:277-290,
\* 593-596, 624-625).
SequenceErrorNeedsCaughtFailure ==
    cause = "sequence" => \E e \in excused : ~ IsSatisfied(promised[e])

\* "~BasicSequence() noexcept(false)" (Sequence.hpp:90), and report_error "is
\* expected that this function does not return, but throws an exception
\* instead" (Reporter.hpp:125): the error of a sequence does not end the
\* program.
SequenceErrorThrows == cause # "sequence"

=============================================================================
