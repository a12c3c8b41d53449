# A formal model of mimic++

mimic++ is a header-only C++20 mocking library. A test sets up *expectations*
on *mocks*, optionally ordered by *sequences*; the code under test calls the
mocks; a *reporter* turns calls nobody expected and expectations nobody met
into failures of the test. This directory holds TLA+ modules that model the part of
the library that has state and the algorithms its verdicts and messages rest
on, TLC configurations that check them on small instances, and TLAPS proofs of
all safety properties: about the parts with state, as long as threads keep to
expectations of their own, about what a call reports, and about the
algorithms. Paths below are relative to `include/mimic++/`.

## Inventory

| component | state | operations | what makes it correct |
|---|---|---|---|
| sequences (`Sequence.hpp`) | per sequence a vector of entry states and a cursor; shared by the user's `LazySequence`/`GreedySequence` object and by the attached expectations | `add`, `set_satisfied`, `set_saturated`, `consume`, `priority_of`, destructor; `has_better_rating` | expectations match in the order they were attached; nobody is locked out; a broken sequence is reported |
| control policy (`policies/ControlPolicies.hpp`) | limits, `m_Count`, the ids in the sequences | constructor, `state`, `consume`, `update_sequence_states` | count and entry states agree; count stays within the limits |
| expectation collection (`Expectation.hpp`) | `m_Expectations`, newest last, and a mutex | `push`, `remove`, `handle_call` | what matched under the mutex can still be consumed; no deadlock in nested calls |
| `ScopedExpectation` (`Expectation.hpp`) | owns an expectation and a share of its collection | construction, destruction, moves | an unsatisfied expectation makes the test fail exactly once |
| reporter (`Reporter.hpp`) | one global `IReporter` | the `report_*` functions, `install_reporter` | failures are thrown unless an exception is on its way |
| object watchers (`ObjectWatcher.hpp`) | a mock per watcher, a flag | copies, moves, destruction, `expect_destruct`, `expect_relocate` | mock and flag follow the object; no watched destruction is missed |
| expectation builder (`ExpectationBuilder.hpp`) | the parts of an expectation | `&&`, `finalize` | an expectation is pushed with its entries added |
| mocks (`Mock.hpp`, `Call.hpp`), call policies (`policies/`) | a pointer per overload to the shared collection of its decayed signature | `operator()`, `expect_call`, `matches`, `consume`, `finalize_call` | calls are answered by expectations of their own overload, wherever the mock is moved |
| signature traits (`TypeTraits.hpp`, `CallConvention.hpp`) | none | `signature_decay`, `is_overload_set`, qualifications | a mock compiles exactly for what C++ accepts as overloads |
| reports (`Reports.hpp`) | none; copies of counts, limits and ratings | `make_call_report`, `evaluate_match_report`, the `stringify_*` functions | a message says what was so when the call was made, about every candidate |
| adapters (`adapters/`) | none | `send_success`, `send_warning`, `send_fail` | a failure leaves by an exception in every framework |
| matchers (`matchers/`) | a predicate, two format strings | `matches`, `describe`, `operator!`; approximations, ranges, strings | the description, inverted or not, is true of what matches |
| printing, strings (`Printer.hpp`, `String.hpp`) | none | the choice of a printer, views of strings | the text shows the value; a view ends where the string does |
| stack traces (`Stacktrace.hpp`) | the backend's | `current`, frames skipped by mocks | the first frame is the caller of the mock |
| interface mocks (`InterfaceMock.hpp`) | none, preprocessor | the loop over overloads and parameters, the overrides | every override calls the mock's overload for it, with all arguments |

The components interact by calls and shared ownership. A mock and every
`ScopedExpectation` share a collection; expectations and the user's object
share a sequence. `handle_call` asks every expectation of the collection
(newest first) for a match report, picks one, releases the mutex, and only
then lets the expectation consume the call, which moves the cursors of its
sequences, runs side effects and the finalizer. Both may call the mock again.
Destructors do real work: they remove, report and throw.

The hard behaviours are the gap between matching and consuming, nested calls
under a non-recursive mutex, destructors that throw during or outside of
unwinding, entries that are told about a count at two points of its life only,
expectations in several sequences at once, watchers that move around and may
fail halfway, and exceptions of matchers, side effects, finalizers and
reporters on their way through functions some of which are `noexcept`.
`PROJECT.json` lists these hazards with their lines.

## Modules

| module | models |
|---|---|
| `BasicSequence` | `BasicSequence`, `LazyStrategy`, `GreedyStrategy` as operators on a sequence value `[size, entries, cursor]`; every mutator comes with the condition its `assert` states |
| `BestMatch` | `has_better_rating` and `pick_best_match`, and what the strategies promise of the match that is picked |
| `SequencedExpectations` | the core in one thread: `Expect` (`BasicExpectationBuilder::finalize` down to `push`), `CallMatched` and `CallRejected` (`handle_call`), `DestroyExpectation` (`remove` and the release of the sequences), `ReleaseSequence` |
| `OrderedExpectations` | what sequences promise, without entries and cursors: the abstract specification |
| `Enumerations` | the walk over positions or expectations in order, or the newest first |
| `MatchPicking` | `pick_best_match` on whole histories of attached expectations |
| `ExpectationCollection` | `push`, `remove` and `handle_call` step by step, for several threads and nested calls |
| `ScopedExpectations` | the life of expectations and sequences in the scopes of a test, with exceptions; composes `OrderedExpectations` for what calls may match |
| `ObjectWatcher` | `Watched<Base, LifetimeWatcher, RelocationWatcher>` |
| `Signatures` | the traits of `TypeTraits.hpp` on function signatures: qualifiers, decay, overload sets |
| `CallPolicies` | the policies of `policies/`: selection and projection of arguments, requirements, side effects through references, finalizers, and which of them throw |
| `ExpectationBuilders` | `BasicExpectationBuilder`: every `operator&&`, what it accepts, `finalize` and the finalizer it demands of a return type |
| `Reports`, `Reporters` | what reports hold and say; `DefaultReporter` with its assertions, `BasicReporter` and the four adapters |
| `CallReports` | composes the core (`SequencedExpectations`) with builders, policies, reports and the installed reporter: what a call makes of exceptions, what is reported of it and how it ends |
| `Matchers`, `StringMatchers` | the matchers with their inversions and descriptions; views of strings and case folding |
| `Stacktraces` | the backends, and the frames taken off by `stacktrace::current`, mocks and interface mocks |
| `InterfaceMocks` | the preprocessor loop, overload infos, the generated overrides |
| `Printing` | the choice among the printers, and the structure of what they print, as functions that recurse over the parts of a value |
| `Algorithms` | one input after the other for `MatchPicking`, the matchers, stack traces, interface mocks and printers, with the reference definition of each |
| `MockDispatch` | `Mock` with its overload set: construction, moves, `expect_call`, `operator()`, and the policies `Category` and `Constness` that tell overloads in one collection apart |
| `SequencedExpectations_proofs` | theorems about `SequencedExpectations` |
| `MockDispatch_proofs` | theorems about `Signatures` and `MockDispatch` |
| `ExpectationCollection_proofs` | theorems about `ExpectationCollection` |
| `ScopedExpectations_proofs` | theorems about `ScopedExpectations` |
| `ObjectWatcher_proofs` | theorems about `ObjectWatcher` |
| `BestMatch_proofs` | theorems about `Enumerations` and `BestMatch`, which the proofs about the core, calls and algorithms rest on |
| `CallReports_proofs` | theorems about `CallReports` |
| `Algorithms_proofs` | theorems about `Algorithms` and the modules it is composed of |
| `MC*` | the model values for TLC |

Operators marked *Faulty* are variants of the definition they stand before,
as a bug in that code would have it; replacing the definition by the variant
makes TLC find the property broken that `PROJECT.json` names with it.

### How the state corresponds to the code

`SequencedExpectations`: `sequence[s]` is the `BasicSequence` behind `s`
(`m_Entries`, `m_Cursor`), `held[s]` whether the user's interface object still
lives, `expectations[e]` the `ControlPolicy` of the e-th expectation
(`m_Min`, `m_Max`, `m_Count`, and the ids from `m_Sequences`). Two variables
are not in the code: `asserted` records whether all assertions held, `report`
what the last step reported. The matchers are abstracted to the set of living
expectations that accept a call, any subset. The reporter is one that records
and returns, as the one in the unit tests; throwing is the subject of
`ScopedExpectations`.

`ExpectationCollection`: `mutex` and `stored` are the members; `stack[t]` is
the call stack of thread `t`, one frame per active `handle_call`. `++m_Count`
is a load and a store, since nothing protects it. `push` and `remove` hold the
mutex throughout and are one step each, with the assertions they make about
what the collection holds. `taken` is history: how often a call was handed to
each expectation, which `CountsAreCurrent` compares with what a call reads of
`m_Count`, also one that a side effect makes while the call it belongs to is
still being consumed.

`ScopedExpectations`: `stack` holds the automatic objects and try blocks,
`mode = "unwinding"` is `std::uncaught_exceptions() = 1`. A `ScopedExpectation`
is destroyed in two steps, as its `Model` is: the body of `~Model` removes the
expectation and may throw, then the members go, thrown or not, and with them
sequences nobody else holds. In between the stack has a frame `members`. What
happens when a sequence then reports an error as well is what follows from
that, not a rule of its own. Assigning to a `ScopedExpectation` destroys the
old expectation without `~ScopedExpectation` (`ReplaceExpectation`). `blamed` is
the expectation the exception is about, `excused` is history: the expectations
that were dead when a try block last caught an exception. When a sequence
reports an error is not computed from entries again but taken from the
abstract state, which `SequenceErrors_Correct` justifies; when an expectation
may be matched likewise from `ExactlyInTurn`.

`ObjectWatcher`: `object[o]` is the pair of watchers at place `o`
(`m_DestructionMock`, `m_HasDestructExpectation`, and of `m_RelocationMock`
the number of calls it expects), `destruct[m]` the state of the expectation on
lifetime mock `m`. The base class is one whose destructor and moves are not
`noexcept`, the general case: with a `noexcept` base every violation ends the
program at the same points. Expectations are `once()`, and no sequences are used.

`MockDispatch`: `signatures` are the template arguments of `Mock`,
`expectations[m]` the `m_Expectations` pointers of the `BasicMock` bases of the
mock at place `m`. A collection is named by the construction that made it and
its decayed signature, which is how `unique_list_t` and
`std::get<expectation_collection_ptr_for<...>>` find it. `scoped` are the
expectations with their collection and policies. `origin` and `answer` are
history. Which overload an expression selects is the language's: `IsViable`
and `IsBetterOverload` are its rules for the implicit object parameter.

`CallReports`: the variables of the core are those of `SequencedExpectations`,
whose actions are conjuncts of the actions here; where the core lets any
subset of the expectations accept a call, `Accepting` computes it from the
policies. `built[e]` are the policies and the finalizer of expectation `e`,
`reporter` what `detail::get_reporter()` returns. `sent` lists the reports of
the last step in order, `outcome` tells how it ended: a call that returned
with a value, threw, or ended the program because an exception met a
`noexcept` function. After that nothing happens any more, which is why
deadlock is not checked there. A matcher is the set of argument lists it
accepts and the set it throws on; a side effect adds to one parameter, which
refers to an argument of the call, or throws. A description throws when the
matcher cannot be printed: it is asked for in `matches`, and once more in the
handler of the `noexcept` function `make_match_report`, so that such a matcher
ends the program there, although `Reporter.hpp:137-138` asks only reporters
not to throw.

In `InterfaceMocks` the macro for overload infos without specs has its branch,
but is never selected: no further arguments are one empty argument.

`Algorithms`: the only variable is the sample under examination, together with
the kind of algorithm it is for; each invariant compares the result of the
translated algorithm with a definition of what it is for.

## Checks

| run | bounds | shows |
|---|---|---|
| `sequenced` | 2 expectations, limits up to 2, a lazy and a greedy sequence | `IInv`, assertions, `ApplicableExactlyInTurn`, `OldestUnsatisfiedIsApplicable`, `CallsFollowStrategy`, `SequenceErrorIffUnfulfilled`, the refinement of `OrderedExpectations` |
| `algorithms` | match picking among 4 expectations in 2 lazy and a greedy sequence; numbers from -2 to 2 with infinities and NaN, ranges up to length 3, strings up to length 3 in four kinds of storage; skips up to 3 in every configuration; parameter lists up to 90, overload lists up to 4 and of 86 and 87; values nested two deep | `BestFollowsStrategy`, `DescriptionsAreTrue`, `ApproximationsAreExact`, `StringMatchersAgree`, `TraceStartsAtCaller`, `OverridesReachTheirOverload`, `TextShowsTheValue` |
| `call_reports` | 3 expectations from 6 recipes, limits up to 2, a lazy sequence, a `noexcept` and a throwing overload, 2 argument lists, the default reporter and an adapter | assertions about reports, `FailureNamesEveryCandidate`, `OutcomeFollowsReports`, `ResultSeesSideEffects`, `MessagesTellTheTruth`, `CountedExactlyWhenReported` |
| `collection_threads` | 2 threads with expectations of their own, 2 expectations, limits up to 2, 4 calls, nested 2 deep | assertions, `CountsAreCurrent`, `CollectionStableDuringWalk`, refinement, `EveryCallEnds` |
| `scopes` | 3 expectations with limits up to 1, a sequence, 4 frames | `GreenTestKeptPromises`, `FirstFailureIsReported`, `SequenceErrorNeedsCaughtFailure` |
| `watcher` | 3 places, 3 lifetime mocks, relocation budgets up to 1; the places are symmetric | `FlagFollowsMock`, `PendingExpectationIsCarried`, `DeathIsNoticed` |
| `mock_dispatch` | 2 places, 2 constructed mocks, 2 expectations; every pair of qualifications in both orders, every increasing triple, the set of four, and pairs that differ in return type, parameters, `noexcept` or call convention; the places are symmetric | `IInv`, `OverloadSetsCompile`, `AnsweredByItsOverload`, `TurnedDownRightly` |

Five runs show that the code does not do what it says of itself:

* `seq_error_count`: the error of an unfulfilled sequence prints the index of
  the first unsatisfied entry as the number of satisfied expectations
  (`Sequence.hpp:104-105`).
* `seq_lazy_skip`: a lazy sequence "prefers not to skip sequence elements"
  (`Sequence.hpp:70`), but a match attached to one more sequence wins over an
  older match in the lazy one (`Sequence.hpp:404-407`).
* `collection_shared`: two threads that may match the same expectation break
  `assert(is_applicable())` (`ControlPolicies.hpp:198`). Sequences are
  documented as not thread-safe; about collections, which have a mutex, the
  documentation makes no such statement.
* `scopes_sequence_error`: `~BasicSequence() noexcept(false)` lets exceptions
  out, into the destructor of a `shared_ptr`. With a throwing reporter the
  error of a sequence is either suppressed or terminates the program.
* `watcher_moved_from`: moving from a moved-from `RelocationWatcher` calls
  through a null pointer instead of reporting a violation.

### Why the bounds are enough

What can go wrong between expectations of a sequence involves the one at the
cursor, one that is passed and one that is matched: three, and every pair of
limits with `min = max`, `min = 0`, `max = 0` and `min < max` occurs with
limits up to 1; limits up to 2 add counts strictly between the limits. Two
sequences suffice for an expectation that ties two orders together. `sequenced`
has two expectations and all limits up to 2; with three expectations and limits
up to 1 the same properties hold (815000 states), and the proofs below do not
depend on the bounds at all. Picking needs three matches for an intransitive
comparison; there are four. In `call_reports` three expectations are one that
throws or answers and two that are turned down, held up or passed over; with
two of them in one sequence and one that may be skipped every control state and
every kind of report occurs. The loop of the interface macros ends after a
fixed number of scans: it handles 86 elements and drops the 87th, as the
preprocessor does, so that lengths around that number are given, of parameters
and of overloads. Two
inversions bring a matcher back, so three are tried. Two threads and two nested calls give
every order of a match, a release and a consume. In `scopes` three
expectations make a failure in flight, another failure while unwinding, and
one that shares a sequence with a failed one. A swap of watched objects needs
three places, and three mocks the two of them and a fresh instance. Two
expectations can be in one collection through two overloads, or in those of
two mocks of which one is assigned over the other; `MockDispatch_proofs` drops
these bounds too.
`MaxExpectations`, `MaxTimes`, `MaxDepth`, `MaxCalls`, `MaxFrames`, `MaxMocks`
and `MaxRelocations` are the only bounds of the state machines and appear only
in guards; `MaxAttached`, `Numerals`, `MaxRange` and the sets of `MCAlgorithms`
bound the inputs of the algorithms.

### Fairness

Only `EveryCallEnds` needs fairness: weak fairness of every thread inside the
calls it has started. The operating system schedules threads, and matchers,
side effects and finalizers of a test end. `std::mutex` is not fair, so that a
thread could be overtaken again and again; the calls of a run are bounded, so
that the mutex is free for good at last, and weak fairness suffices. Starting
calls, creating and destroying expectations is up to the test and not fair.
`collection_threads`, `scopes`, `watcher`, `mock_dispatch` and `call_reports` do
not check for deadlock: there the test may simply be over or the program
terminated. In `sequenced` and `algorithms` deadlock is checked.

## Proofs

`SequencedExpectations_proofs` proves, for arbitrary sets of lazy and greedy
sequences, any number of expectations and any limits:

| theorem | statement |
|---|---|
| `Invariance` | `Spec => []IInv` |
| `AssertionsNeverFail` | no `assert` of `BasicSequence` or `ControlPolicy` fails |
| `ExactlyInTurn` | `make_control_state` says applicable exactly when the abstract order allows a match |
| `NoLockout` | an unsatisfied expectation whose older companions are satisfied is applicable |
| `Refinement` | `Spec => OrderedSpec` |
| `SequenceErrors_Correct` | a dying sequence reports an error exactly when a promise was broken |
| `ErrorsCountSatisfiedFirst` | the number in the error of a sequence is that of the expectations attached before the first one that missed its minimum, all of them satisfied: less than `seq_error_count` asks for, never more |
| `MatchesKeepOrder` | whoever has been matched in a sequence, all attached before have had their minimum, also those that are gone |
| `StrategiesDecide` | a call is given to the match the strategies of its sequences promise, whichever expectations match |
| `LazySkipsOnlyForOthers` | a lazy sequence skips no match, unless its expectations are in different sequences, as those of `seq_lazy_skip`, or in no more lazy than greedy ones |

The assumptions are that the bounds are naturals, that the sequences are
finitely many and that none is both lazy and greedy.

None of these is inductive alone. That the entries before the cursor are done
is needed to conclude anything about an expectation from the entries after
the cursor, but says nothing about the entry a step changes; for that, entries
must follow the counts (`EntriesFollowCounts`), ids must follow the order of
creation and name every entry (`IdsFollowCreation`), and the cursor must stand
on the last matched expectation (`CursorIsLastMatched`), so that a match can
neither be behind the cursor nor mark an entry twice. `IInv` is their
conjunction with `PassedEntriesAreDone`, `AssertionsHold` and the types.
`Init => IInv` is direct; there is a lemma for each operator on sequences
(what `Add`, `Consume` and `UpdateSequenceStates` do to an entry), and one per
action that preserves `IInv`. The remaining theorems follow from `IInv` and,
for the refinement, from `ExactlyInTurn` at the step `CallMatched`, while
`CallRejected` and `ReleaseSequence` stutter. That ids follow the order of creation
also makes the index the destructor finds a number of expectations (`IdsCount`).
`StrategiesDecide` needs of `IInv`
that ids follow the order of creation: then, wherever the cursor is, a lazy
sequence gives the older of two matches the higher priority and a greedy one the
newer (`RatingsCompare`). The rest is `PickFollowsStrategy`, proved in
`BestMatch_proofs` of any ratings that compare like that: the comparison of
ratings is not transitive; what survives the next comparison is that the best
match so far is in all sequences of the newest, that a match in all of its
sequences is in no other and not older if most of them are lazy, and that one in
the same sequences is not newer otherwise.

`MockDispatch_proofs` proves, for arbitrary return types, parameter lists, call
conventions and lists of signatures, any places and any number of mocks and
expectations:

| theorem | statement |
|---|---|
| `Invariance` | `Spec => []IInv` |
| `CallsFindTheirOverload` | a call is answered by an expectation of the same mock and overload |
| `CallsAreTurnedDownRightly` | a call is turned down only if its overload has no expectation left, with the right report |
| `OverloadSetsCompileAlways` | `is_overload_set` is the rule of C++, and leaves no call ambiguous |

The assumptions: the bounds are naturals, null is no number, the default call
convention is one, and candidates are lists of signatures. The argument: two
signatures of an overload set with one decayed signature differ in a qualifier
that `Category` or `Constness` looks at (`PoliciesTellApart`, from the table in
`is_overloadable_with`), and so the expectations that match a call are those
set through the same overload (`MatchingIsOwn`). For that the pointers of a
mock must be those its value was constructed with (`BasesPointHome`, through
every move), expectations must lie where their overload looks
(`ExpectationsKeepOverload`), and a mock must have an overload set
(`OnlyOverloadSets`); `IInv` joins them with both properties of answers, which
are about a history variable and need one step.

`ExpectationCollection_proofs` proves, for any number of threads, nested calls
and expectations, under the assumption that calls match only expectations of
their own thread (`~ Shared`; the finding of `collection_shared` is that it is
needed):

| theorem | statement |
|---|---|
| `TypesHold` | `Spec => []TypeOK` |
| `NoAssertionFails` | what was applicable under the mutex still is when it is consumed; `push` and `remove` find the collection as they assert |
| `CountsStayCurrent` | a call that walks the collection reads counts that include every match handed out before, also to the calls it is nested in |
| `CollectionIsStable` | the collection does not change under a thread that walks it |
| `Refinement` | `Spec => OrderedSpec`: only living expectations with a match left are matched |

The argument: the mutex is held by exactly the thread whose innermost call
walks (`MutexHeld`), the collection has every living expectation once
(`StoredAreAlive`), and what a call has chosen lives and belongs to its thread
(`StacksAreGood`). Only the innermost call of a thread can be between choosing
and consuming; the calls below it are in their side effects or finalizers. So
nobody else can use up, or destroy, what it has chosen. A count is behind its
history only while the innermost call of its thread is between load and store
(`TakenIsCounted`); a call that walks is the innermost one and is not there, and
those it is nested in have stored before their side effects run.

`ScopedExpectations_proofs` proves, for tests of any size, `TypesHold`,
`GreenTestsKeepPromises`, `FirstFailuresAreReported` and `SequenceErrorsAreLate`.
The argument follows a broken promise: an expectation that lives is on the
stack (`AliveOnStack`); one that died unsatisfied made an exception that is
still on its way or has failed the test, or it was dead when the test last
caught one (`DeadKeptPromises`); and when the test is over, none lives
(`NoneAliveAfterwards`). A report makes an exception only where none is on its
way, so that no earlier broken promise is left over there
(`FirstFailuresAreReported`). A sequence that dies with its last expectation dies
after the body of `~Model`, when that expectation is dead (`MembersOfTheDead`): if
one of its promises is broken, then either an exception is on its way and the
sequence is silent, or the test has caught one.

`ObjectWatcher_proofs` proves, for any places, mocks and relocations,
`TypesHold`, `FlagHolds`, `PendingHolds` and `DeathHolds`. Every operation does
one of four things to a lifetime mock: an object gets a new one, loses the one
it has, hands it to another object or keeps it, with a lemma for each. The
invariant adds that no two objects share a mock, that there is no mock without
an object, and that mocks are numbered in the order they are made.

`CallReports_proofs` proves, for any overloads, recipes of expectations,
arguments, limits and reporters:

| theorem | statement |
|---|---|
| `ImplementsCore` | `Spec => Core!Spec`: every step is a step of `SequencedExpectations`, or leaves its state alone |
| `CallsKeepOrder` | `MatchesKeepOrder`, whatever throws during calls |
| `CallsFollowStrategies` | `StrategiesDecide`, whatever throws during calls |
| `TypesHold` | `Spec => []TypeOK` |
| `AssertionsNeverFail` | no `assert` of the core, the policies or the reporters fails |
| `FailuresNameCandidates` | a failure names every candidate once, the newest first |
| `OutcomesFollowReports` | a call ends as its report says: with a value, an exception or the end of the program |
| `CountsFollowReports` | an expectation is counted in exactly the steps that report it as used |
| `ResultsSeeSideEffects` | what a finalizer returns is what the side effects left in the argument |
| `MessagesAreTrue` | the texts about counts, limits and sequences are true |

The assumptions: a positive upper bound of limits, finitely many sequences of one
strategy each, recipes
that are lists of parts the builder accepts, with a finalizer that fits the
return type (`RecipesCompile`, as `BasicExpectationBuilder` and its `finalize`
require of types), calls whose arguments are numbers
and as many as the parameters, and reporters that are some. `ImplementsCore`
brings everything proved of the core over, and with it the core's invariant
before every step. The properties compare the reports of a step with the state
before it, or with a state that does not change after they are made, so that
nothing else is to be kept but the types. Each is then an argument about the operators:
`Accepting` and `Rejection` divide the living expectations by what evaluating
them gave; a part is applied by a fold of the builder, of which `Extensions`
names the stages; the effects on an argument are a sum, which does not depend
on the order of its terms; and the three texts about a count follow from the
order of `min`, `count` and `max`, in the order in which the code compares them.

`Algorithms_proofs` proves:

| theorem | statement | for any |
|---|---|---|
| `PicksFollowStrategies` | the best match is what the strategies promise | number of sequences, expectations and matches |
| `DescriptionsHold` | what a matcher says of itself is true of what it accepts | numbers, ranges |
| `ApproximationsHold` | approximations accept the documented distance | numbers |
| `StringMatchersHold` | string matchers do what their names say | strings, storage, case folding outside of ASCII |
| `TracesStartAtCaller` | the first frame is the caller of the mock | skip, configuration |
| `OverridesReachOverloads` | the macros take 86 overloads of 86 parameters each, and every override reaches its own overload | lists of overloads |
| `TextsShowValues` | the text of a value shows its parts in order, in balanced braces | values of any depth, formatter of ranges or not |

The assumptions: finitely many sequences, each of one strategy; numbers are
integers; texts consist of known characters and those seen through a pointer or
an array have a terminator; what is given for an overload is what its macro can
be given (`IsOverload`); values nest their parts finitely deep, and the text of
a number, a pointer, a string or a custom printer has none of the pieces that
`print` adds (`ValuesAssumption`). `SampleInput` says what each algorithm gets, a lemma per
algorithm what it makes of that.
Picks follow from `PickFollowsStrategy` again. Inverting swaps predicate and text together, and matching a
permutation of a range is having the same bag of elements. The predicates of
strings and their names both say that the pattern stands at one of some
offsets, which reversing a view exchanges and folding keeps. A scan of the
preprocessor pastes one element, and the 85 of `EXPAND` after the first make 86;
parameter names differ because they differ in length; flattening keeps names,
types and order together; and of two overloads that both accept a call, made as
one of them makes it, the table in `is_overloadable_with` leaves that one the
better match. A text *shows* some leaves when they are its pieces that are no layout
and its braces are balanced: that of two texts after each other, of texts with
commas between them and of a text in braces follows from what its parts show
(`JoinsShow`, `SeparatedShows`, `BracesShow`), and each printer does nothing else
(`PrintShows`). That the three recursive functions satisfy their equations at all
is shown level by level, for all three at once (`AllAreMade`).

What a fold or a recursive function is for every length cannot be proved by an
induction theorem of the library, which takes an operator. These proofs take
the least length at which a fold has no chain of stages, or the least depth at
which values cannot be printed, and find one.

Checked by TLC only: the liveness property `EveryCallEnds`, which is out of
reach of these provers as everything is that needs fairness. Of threads that
share expectations nothing is proved, for the finding of `collection_shared` is
that the assertions fail there. What the five runs with violations refute cannot
be proved either, of course; `ErrorsCountSatisfiedFirst` and
`LazySkipsOnlyForOthers` say of two of them how far they go.

## Not modelled

* The exception of `add()` at 2^31 entries, and integer overflow that far out.
* Matchers that call the mock they belong to (a self-deadlock by design), and
  data races beyond `m_Count`, as one of expectations that die during a call
  of another thread: `collection_threads` gives every thread expectations of
  its own, so that only that thread can destroy what its calls have chosen, and
  `collection_shared` shows what happens otherwise. The exchange of
  the global reporter is modelled between calls, not during one.
* Printers of the user that throw. Reports print the arguments of a call outside
  of any handler (`Expectation.hpp:341-343`) and, for a matcher that throws,
  inside the handler of the `noexcept` `make_match_report` (line 41); the
  arguments of `CallReports` are numbers, whose printing does not throw.
  Descriptions of matchers that throw are modelled.
* What the adapters write, as warnings or otherwise: only how a report ends, by
  an exception of which kind or by returning, is.
* Undefined behaviour on values the test hands in: a null character pointer,
  and negative characters given to `std::toupper` (`String.hpp:416`).
* The wording and layout of texts, hexadecimal formats, and the stream a
  reporter writes to; the type erasure of `Stacktrace`, whose operations
  forward to the backend; frames a compiler inlines away, which `Stacktraces`
  counts as frames.
* The Unicode option of case folding beyond a fold that is given, matchers of
  other libraries as mimic++ matchers (Catch2), and comparators other than the
  default ones.
* Of the preprocessor code, the removal of optional parentheses. Of
  `TypeTraits.hpp` what is not about the signatures of mocks or the matching of
  arguments; C-style variadic signatures, of which no mock can be made.
* A judgement on `ReplaceExpectation` ending the program when the old promise is
  broken: the destructor "is expected to throw of terminate"
  (`Expectation.hpp:631`), and no property forbids it. `GreenTestKeptPromises` and `FirstFailureIsReported` only say that
  the failure does not get lost there.
* Calls of a moved-from mock, which go through a null pointer (`MockDispatch`
  leaves them out; `watcher_moved_from` is about the one that the library
  makes itself).

## Plan

Done: sequences, control policy and collection with the abstract order;
threads; scopes; watchers; mocks with overload sets; builders, policies,
reports and reporters composed with the core; matchers, strings, stack traces,
interface mocks and printers as algorithms; proofs of the safety properties of
all state machines and of all algorithms.

Left: theorems that relate the composed modules to each other, as the
collection step by step to the one of the core; several threads that share
sequences, should the library ever promise that.
