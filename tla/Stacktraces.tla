---------------------------- MODULE Stacktraces ----------------------------
(***************************************************************************)
(* Stacktrace.hpp, and the frames that mocks take off the stacktrace of a  *)
(* call.  A stack is the sequence of its frames, innermost first.  Calls   *)
(* that the compiler inlines are still frames of their own.                *)
(***************************************************************************)
EXTENDS Integers, Sequences

\* A configuration of the library: the two options, NDEBUG, whether the
\* standard library has <stacktrace>, and whether the user specialised
\* custom::find_stacktrace_backend.
Configuration ==
    [experimental : BOOLEAN, ndebug : BOOLEAN, useCpptrace : BOOLEAN,
     hasStacktrace : BOOLEAN, custom : BOOLEAN]

\* find_backend::type: without a working backend it is NullBackend.
FindBackend(config) ==
    IF ~ config.experimental \/ config.ndebug THEN "NullBackend"
    ELSE IF config.useCpptrace THEN "CpptraceBackend"
    ELSE IF config.hasStacktrace THEN "std::stacktrace"
    ELSE "NullBackend"

\* current_hook::current: priority_tag<2> before priority_tag<1>;
\* find_backend always exists, the last overload is never used.
Backend(config) == IF config.custom THEN "custom" ELSE FindBackend(config)

-----------------------------------------------------------------------------
(* The stack in backend_traits::current, called by a mock.                 *)

CurrentFrames ==
    <<"backend_traits::current", "current_hook::current", "current_fn::operator()">>
MockFrames == <<"BasicMock::handle_call", "operator()">>
InterfaceFrames ==
    <<"indirectly_apply_mock::lambda", "indirectly_apply_mock", "override">>

Stack(isInterface, callers) ==
    CurrentFrames \o MockFrames
    \o (IF isInterface THEN InterfaceFrames ELSE << >>) \o callers

InterfaceMockStacktraceSkip == 3

\* Faulty: operator() was not counted.
MockStacktraceSkipOne(isInterface, skip) ==
    (IF isInterface THEN InterfaceMockStacktraceSkip ELSE skip) + 1

\* m_StacktraceSkip of a BasicMock; only mocks that are written out get
\* their skip from the user.
MockStacktraceSkip(isInterface, skip) ==
    (IF isInterface THEN InterfaceMockStacktraceSkip ELSE skip) + 2

\* What is left of a stack without its innermost frames.
Skip(stack, n) == SubSeq(stack, n + 1, Len(stack))

\* backend_traits::current takes its own frame off as well.  A custom
\* backend has to follow the two others in that.
TraitsCurrent(backend, stack, skip) ==
    [backend |-> backend,
     frames |-> IF backend = "NullBackend" THEN << >> ELSE Skip(stack, skip + 1)]

\* stacktrace::current(skip): current_fn and current_hook add one each.
Current(config, stack, skip) ==
    TraitsCurrent(Backend(config), stack, (skip + 1) + 1)

\* call::Info::stacktrace of a call.
CallStacktrace(config, isInterface, skip, callers) ==
    Current(config, Stack(isInterface, callers), MockStacktraceSkip(isInterface, skip))

-----------------------------------------------------------------------------
(* Stacktrace: the type-erased backend.                                    *)

Size(trace) == Len(trace.frames)
IsEmpty(trace) == trace.frames = << >>

\* description, source_file and source_line throw beyond the end, those of
\* NullBackend always.
Entry(trace, i) == IF i \in DOMAIN trace.frames THEN trace.frames[i] ELSE "throws"

\* operator==; the right side may be shorter only when the sizes differ.
SameStacktrace(lhs, rhs) ==
    /\ Size(lhs) = Size(rhs)
    /\ \A i \in 1 .. Size(lhs) : Entry(lhs, i) = Entry(rhs, i)

\* Printer<Stacktrace>: a line per entry.
PrintStacktrace(trace) ==
    IF IsEmpty(trace) THEN <<"empty">>
    ELSE [i \in 1 .. Size(trace) |-> Entry(trace, i)]

=============================================================================
