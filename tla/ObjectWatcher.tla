---------------------------- MODULE ObjectWatcher ----------------------------
(***************************************************************************)
(* Objects of type Watched<Base, LifetimeWatcher, RelocationWatcher>       *)
(* (ObjectWatcher.hpp): how the watchers' mocks follow an object through   *)
(* construction, copies, moves and destruction.  Neither destructor nor    *)
(* moves of Base are noexcept, so that a violation leaves them as the      *)
(* exception of the reporter, and a member function may end halfway.       *)
(*                                                                         *)
(* Lifetime mocks are numbered in the order they are made and expect one   *)
(* call at most.  Of a relocation mock, which no two objects share, only   *)
(* the number of calls it still expects matters.                           *)
(***************************************************************************)
EXTENDS Integers, FiniteSets

CONSTANTS
    Objects,       \* the places objects can be constructed at
    MaxMocks,      \* bound: lifetime mocks ever made
    MaxRelocations \* bound: calls a relocation mock expects

ASSUME WatcherAssumption == MaxMocks \in Nat /\ MaxRelocations \in Nat

VARIABLES
    object,  \* per place, the watchers of the object there
    exists,  \* the places an object exists at
    mocks,   \* lifetime mocks made so far
    destruct,\* per lifetime mock, the state of its destruct expectation
    outcome, \* how the last operation ended
    overwritten \* history: mocks that a move assignment has thrown away

vars == <<object, exists, mocks, destruct, outcome, overwritten>>

\* The pointer in a moved-from watcher.
NoMock == 0
NoRelocationMock == -1

\* m_DestructionMock, m_HasDestructExpectation, m_RelocationMock.
Watchers == [life : 0 .. MaxMocks, flagged : BOOLEAN,
             reloc : {NoRelocationMock} \cup 0 .. MaxRelocations]

\* A place without an object.
Empty == [life |-> NoMock, flagged |-> FALSE, reloc |-> NoRelocationMock]

\* Default-constructed watchers.
Fresh == [life |-> mocks + 1, flagged |-> FALSE, reloc |-> 0]

Running == outcome \notin {"null mock called", "null storage", "terminate"}

Init ==
    /\ object = [o \in Objects |-> Empty]
    /\ exists = {}
    /\ mocks = 0
    /\ destruct = [m \in 1 .. MaxMocks |-> "unasked"]
    /\ outcome = "ok"
    /\ overwritten = {}

MakeMock == mocks < MaxMocks /\ mocks' = mocks + 1

-----------------------------------------------------------------------------
(* The call of a lifetime mock, by ~LifetimeWatcher. *)

\* Faulty: only an expectation that came too early is missed.
IsNotTooLate(m) == m = NoMock \/ destruct[m] # "expired"

IsExpected(m) == m = NoMock \/ destruct[m] = "pending"

CallDestruct(m) ==
    destruct' = [n \in 1 .. MaxMocks |->
                    IF n = m /\ destruct[n] = "pending" THEN "met" ELSE destruct[n]]

-----------------------------------------------------------------------------
(* Construction, destruction and copies *)

Construct(o) ==
    /\ o \notin exists
    /\ MakeMock
    /\ object' = [object EXCEPT ![o] = Fresh]
    /\ exists' = exists \cup {o}
    /\ outcome' = "ok"
    /\ UNCHANGED <<destruct, overwritten>>

\* The copy constructors ignore their argument.
CopyConstruct(o, other) == other \in exists /\ Construct(o)

Destroy(o) ==
    LET m == object[o].life IN
    /\ o \in exists
    /\ exists' = exists \ {o}
    /\ object' = [object EXCEPT ![o] = Empty]
    /\ CallDestruct(m)
    /\ outcome' = IF IsExpected(m) THEN "ok" ELSE "violation"
    /\ UNCHANGED <<mocks, overwritten>>

\* Faulty: the flag of the previous instance is kept.
CopyAssignKeepsFlag(o, other) ==
    LET m == object[o].life IN
    /\ o \in exists /\ other \in exists
    /\ CallDestruct(m)
    /\ IF IsExpected(m)
       THEN /\ MakeMock
            /\ object' = [object EXCEPT ![o] = [Fresh EXCEPT !.flagged = object[o].flagged]]
            /\ outcome' = "ok"
       ELSE /\ object' = [object EXCEPT ![o].life = NoMock]
            /\ outcome' = "violation"
            /\ UNCHANGED mocks
    /\ UNCHANGED <<exists, overwritten>>

\* The previous instance of the lifetime watcher dies first, moved to a
\* temporary.  If that is a violation, the object remains moved-from, and
\* its relocation watcher as it was; otherwise both watchers start anew.
CopyAssign(o, other) ==
    LET m == object[o].life IN
    /\ o \in exists /\ other \in exists
    /\ CallDestruct(m)
    /\ IF IsExpected(m)
       THEN /\ MakeMock
            /\ object' = [object EXCEPT ![o] = Fresh]
            /\ outcome' = "ok"
       ELSE /\ object' = [object EXCEPT ![o].life = NoMock]
            /\ outcome' = "violation"
            /\ UNCHANGED mocks
    /\ UNCHANGED <<exists, overwritten>>

-----------------------------------------------------------------------------
(* Moves: the lifetime watcher is moved first, then the relocation watcher *)
(* calls the mock of the source.  The call can fail in three ways.         *)

\* Faulty: the source keeps its lifetime mock.
LifetimeCopied(from, to) == [object EXCEPT ![to].life = object[from].life,
                                           ![to].flagged = object[from].flagged]

LifetimeMoved(from, to) ==
    IF from = to THEN object
    ELSE [object EXCEPT ![to].life = object[from].life,
                        ![to].flagged = object[from].flagged,
                        ![from].life = NoMock]

\* The mock of the source goes to the target, one expected call fewer.
RelocationMoved(objects, from, to) ==
    [o \in Objects |->
        IF o = to THEN [objects[o] EXCEPT !.reloc = object[from].reloc - 1]
        ELSE IF o = from THEN [objects[o] EXCEPT !.reloc = NoRelocationMock]
        ELSE objects[o]]

\* A relocation that was expected, but whose finalizer throws
\* (finally::throws).
CallConsumed(objects, from) ==
    [objects EXCEPT ![from].reloc = @ - 1]

\* Faulty: the mock of the source is not asked.
MayMoveAnytime(from) == from \in exists

MayMove(from) == object[from].reloc > 0

\* The move constructor.  When it fails, the lifetime watcher already
\* constructed is destroyed again, during unwinding.
MoveConstruct(o, from) ==
    LET moved == LifetimeMoved(from, o)
        m == object[from].life
    IN
    /\ o \notin exists /\ from \in exists
    /\ \/ /\ MayMove(from)
          /\ object' = RelocationMoved(moved, from, o)
          /\ exists' = exists \cup {o}
          /\ outcome' = "ok"
          /\ UNCHANGED destruct
       \/ /\ object[from].reloc # NoRelocationMock
          /\ object' = [IF MayMove(from) THEN CallConsumed(moved, from) ELSE moved
                           EXCEPT ![o] = Empty]
          /\ CallDestruct(m)
          /\ outcome' = IF ~ IsExpected(m) THEN "terminate"
                        ELSE IF MayMove(from) THEN "finalizer threw"
                        ELSE "violation"
          /\ UNCHANGED exists
       \/ /\ object[from].reloc = NoRelocationMock
          /\ outcome' = "null mock called"
          /\ UNCHANGED <<object, exists, destruct>>
    /\ UNCHANGED <<mocks, overwritten>>

\* Move assignment.  The previous lifetime mock of the target is thrown
\* away without being called.
MoveAssign(o, from) ==
    LET moved == LifetimeMoved(from, o) IN
    /\ o \in exists /\ from \in exists
    /\ \/ /\ MayMove(from)
          /\ object' = RelocationMoved(moved, from, o)
          /\ outcome' = "ok"
       \/ /\ object[from].reloc # NoRelocationMock
          /\ object' = IF MayMove(from) THEN CallConsumed(moved, from) ELSE moved
          /\ outcome' = IF MayMove(from) THEN "finalizer threw" ELSE "violation"
       \/ /\ object[from].reloc = NoRelocationMock
          /\ object' = moved
          /\ outcome' = "null mock called"
    /\ overwritten' = IF o = from THEN overwritten
                    ELSE overwritten \cup ({object[o].life} \ {NoMock})
    /\ UNCHANGED <<exists, mocks, destruct>>

-----------------------------------------------------------------------------
(* Expectations *)

\* expect_destruct(): at most once per instance.  The builder it returns
\* may be dropped instead of being made an expectation.
ExpectDestruct(o) ==
    LET m == object[o].life IN
    /\ o \in exists
    /\ object' = [object EXCEPT ![o].flagged = TRUE]
    /\ IF object[o].flagged
       THEN outcome' = "logic_error" /\ UNCHANGED destruct
       ELSE IF m = NoMock
       THEN outcome' = "null storage" /\ UNCHANGED destruct
       ELSE /\ outcome' = "ok"
            /\ \E state \in {"pending", "dropped"} :
                  destruct' = [destruct EXCEPT ![m] = state]
    /\ UNCHANGED <<exists, mocks, overwritten>>

\* expect_relocate(), with the default times(1).
ExpectRelocate(o) ==
    /\ o \in exists
    /\ object[o].reloc < MaxRelocations
    /\ IF object[o].reloc = NoRelocationMock
       THEN outcome' = "null storage" /\ UNCHANGED object
       ELSE outcome' = "ok" /\ object' = [object EXCEPT ![o].reloc = @ + 1]
    /\ UNCHANGED <<exists, mocks, destruct, overwritten>>

\* A destruct expectation goes out of scope before the object dies.
ExpectationExpires(m) ==
    /\ destruct[m] = "pending"
    /\ destruct' = [destruct EXCEPT ![m] = "expired"]
    /\ outcome' = "violation"
    /\ UNCHANGED <<object, exists, mocks, overwritten>>

Next ==
    /\ Running
    /\ \/ \E o \in Objects : \/ Construct(o) \/ Destroy(o)
                             \/ ExpectDestruct(o) \/ ExpectRelocate(o)
       \/ \E o, other \in Objects : \/ CopyConstruct(o, other)
                                    \/ CopyAssign(o, other)
                                    \/ MoveConstruct(o, other)
                                    \/ MoveAssign(o, other)
       \/ \E m \in 1 .. MaxMocks : ExpectationExpires(m)

Spec == Init /\ [][Next]_vars

-----------------------------------------------------------------------------
(* Properties *)

TypeOK ==
    /\ object \in [Objects -> Watchers]
    /\ exists \subseteq Objects
    /\ mocks \in 0 .. MaxMocks
    /\ destruct \in [1 .. MaxMocks ->
                        {"unasked", "dropped", "pending", "met", "expired"}]
    /\ outcome \in {"ok", "violation", "logic_error", "finalizer threw",
                    "null mock called", "null storage", "terminate"}
    /\ overwritten \subseteq 1 .. MaxMocks

\* m_HasDestructExpectation tells whether expect_destruct has been called
\* for the mock that is in the object now, however the object was moved,
\* copied and left behind by an exception: the logic_error comes exactly
\* for a second expectation (ObjectWatcher.hpp:152).
FlagFollowsMock ==
    \A o \in exists :
        object[o].life # NoMock =>
            (object[o].flagged <=> destruct[object[o].life] # "unasked")

\* A destruct expectation that waits can still be met, exactly by the death
\* of the one object that carries its mock, unless a move assignment has
\* thrown the mock away; one that has been met belongs to a dead object.
PendingExpectationIsCarried ==
    \A m \in 1 .. MaxMocks :
        LET carriers == {o \in exists : object[o].life = m} IN
        /\ Cardinality(carriers) <= 1
        /\ destruct[m] = "pending" /\ m \notin overwritten => carriers # {}
        /\ destruct[m] = "met" => carriers = {}

\* No watched object disappears unnoticed: when a mock loses its object,
\* its expectation is met or the test learns of a violation, except that a
\* move assignment replaces the target without a word.
DeathIsNoticed ==
    [][\A m \in 1 .. MaxMocks :
          LET carried == \E o \in exists : object[o].life = m IN
          carried /\ ~ carried' =>
              \/ destruct'[m] = "met"
              \/ outcome' \in {"violation", "terminate"}
              \/ m \in overwritten']_vars

\* "This watcher can be freely moved around, but any relocation events must
\* match with a previously created relocation-expectation"
\* (ObjectWatcher.hpp:178): a move that is not expected is a violation, and
\* nothing else can go wrong.
FreelyMovable == outcome # "null mock called"

=============================================================================
