------------------------ MODULE ObjectWatcher_proofs ------------------------
(***************************************************************************)
(* Proofs about ObjectWatcher, for any number of places, mocks and         *)
(* relocations.  A mock is in one object at most, and objects and          *)
(* expectations refer to mocks that have been made; from that it follows   *)
(* what a step does to the flag and the expectation of a mock it moves.    *)
(*                                                                         *)
(* To the lifetime mocks every operation does one of four things: an       *)
(* object gets a new mock, loses the one it has, hands it to another       *)
(* object, or keeps it.  There is one lemma for each.                      *)
(***************************************************************************)
EXTENDS ObjectWatcher, FiniteSetTheorems, TLAPS

\* No two objects share a lifetime mock.
OneObjectPerMock ==
    \A o, p \in Objects :
        object[o].life = object[p].life /\ object[o].life # NoMock => o = p

\* There is no mock where there is no object.
NoMockWithoutObject == \A o \in Objects \ exists : object[o].life = NoMock

\* A mock that has not been made yet is nowhere and has no expectation.
MocksAreMade ==
    /\ \A o \in Objects : object[o].life <= mocks
    /\ \A m \in 1 .. MaxMocks : m > mocks => destruct[m] = "unasked"

\* PendingExpectationIsCarried without counting the carriers.
ExpectationsAreCarried ==
    \A m \in 1 .. MaxMocks :
        /\ destruct[m] = "pending" /\ m \notin overwritten =>
              \E o \in exists : object[o].life = m
        /\ destruct[m] = "met" => \A o \in exists : object[o].life # m

IInv ==
    /\ TypeOK
    /\ OneObjectPerMock
    /\ NoMockWithoutObject
    /\ MocksAreMade
    /\ FlagFollowsMock
    /\ ExpectationsAreCarried

\* The lifetime watcher at p is not touched.
KeepsLife(p) == /\ object'[p].life = object[p].life
                /\ object'[p].flagged = object[p].flagged

USE DEF NoMock, NoRelocationMock

-----------------------------------------------------------------------------
(* Types and calls *)

LEMMA InitEstablishes == Init => IInv
  BY WatcherAssumption
  DEF Init, IInv, TypeOK, OneObjectPerMock, NoMockWithoutObject, MocksAreMade,
      FlagFollowsMock, ExpectationsAreCarried, Empty, Watchers

LEMMA Types ==
    ASSUME TypeOK
    PROVE  /\ \A p \in Objects : /\ object[p] \in Watchers
                                 /\ object[p].life \in 0 .. MaxMocks
                                 /\ object[p].life \in Int
                                 /\ object[p].life # 0 => object[p].life \in 1 .. MaxMocks
                                 /\ object[p].flagged \in BOOLEAN
                                 /\ object[p].reloc \in {-1} \cup 0 .. MaxRelocations
           /\ exists \subseteq Objects
           /\ mocks \in Nat /\ mocks <= MaxMocks /\ MaxMocks \in Nat
<1>1. object \in [Objects -> Watchers] /\ exists \subseteq Objects /\ mocks \in 0 .. MaxMocks
  BY DEF TypeOK
<1>2. ASSUME NEW w \in Watchers
      PROVE  /\ w.life \in 0 .. MaxMocks /\ w.flagged \in BOOLEAN
             /\ w.reloc \in {-1} \cup 0 .. MaxRelocations
  BY DEF Watchers
<1>3. \A p \in Objects : object[p] \in Watchers
  BY <1>1
<1> QED BY <1>1, <1>2, <1>3, WatcherAssumption

\* What the death of an object, or the call of its mock, does to the
\* expectations.
LEMMA CallEffect ==
    ASSUME TypeOK, NEW m \in 0 .. MaxMocks, CallDestruct(m)
    PROVE  /\ destruct' \in [1 .. MaxMocks ->
                                {"unasked", "dropped", "pending", "met", "expired"}]
           /\ \A n \in 1 .. MaxMocks :
                 /\ n # m => destruct'[n] = destruct[n]
                 /\ destruct'[n] = "pending" => n # m
                 /\ destruct'[n] = "met" => n = m \/ destruct[n] = "met"
                 /\ destruct'[n] = "unasked" <=> destruct[n] = "unasked"
<1>1. destruct \in [1 .. MaxMocks -> {"unasked", "dropped", "pending", "met", "expired"}]
  BY DEF TypeOK
<1> QED BY <1>1 DEF CallDestruct

-----------------------------------------------------------------------------
(* What happens to the lifetime mocks *)

\* An object gets a new mock; the one it had, if any, is called.
LEMMA NewMock ==
    ASSUME IInv, TypeOK', NEW o \in Objects,
           CallDestruct(object[o].life),
           mocks' = mocks + 1, object'[o].life = mocks + 1, ~ object'[o].flagged,
           \A p \in Objects \ {o} : KeepsLife(p),
           exists' = exists \cup {o}, overwritten' = overwritten
    PROVE  IInv'
<1>1. /\ OneObjectPerMock /\ NoMockWithoutObject /\ MocksAreMade
      /\ FlagFollowsMock /\ ExpectationsAreCarried /\ TypeOK
  BY DEF IInv
<1>2. /\ \A p \in Objects : object[p].life \in Int /\ object[p].life <= mocks
                            /\ (object[p].life # 0 => object[p].life \in 1 .. MaxMocks)
      /\ exists \subseteq Objects /\ exists' \subseteq Objects
      /\ mocks \in Nat /\ MaxMocks \in Nat /\ mocks + 1 \in 1 .. MaxMocks
  <2>1. mocks' \in 0 .. MaxMocks /\ exists' \subseteq Objects
    BY DEF TypeOK
  <2> QED BY <1>1, <2>1, WatcherAssumption, Types DEF MocksAreMade
<1>3. object[o].life \in 0 .. MaxMocks
  BY <1>1, Types
<1>4. \A n \in 1 .. MaxMocks :
         /\ n # object[o].life => destruct'[n] = destruct[n]
         /\ destruct'[n] = "pending" => n # object[o].life
         /\ destruct'[n] = "met" => n = object[o].life \/ destruct[n] = "met"
         /\ destruct'[n] = "unasked" <=> destruct[n] = "unasked"
  BY <1>1, <1>3, CallEffect
<1>5. OneObjectPerMock'
  BY <1>1, <1>2 DEF OneObjectPerMock, KeepsLife
<1>6. NoMockWithoutObject'
  BY <1>1 DEF NoMockWithoutObject, KeepsLife
<1>7. MocksAreMade'
  <2>1. \A p \in Objects : object'[p].life <= mocks'
    BY <1>2 DEF KeepsLife
  <2>2. ASSUME NEW n \in 1 .. MaxMocks, n > mocks'  PROVE destruct'[n] = "unasked"
    <3>1. n > mocks
      BY <1>2, <2>2
    <3> QED BY <1>1, <1>4, <3>1 DEF MocksAreMade
  <2> QED BY <2>1, <2>2 DEF MocksAreMade
<1>8. FlagFollowsMock'
  <2> SUFFICES ASSUME NEW p \in exists', object'[p].life # 0
               PROVE  object'[p].flagged <=> destruct'[object'[p].life] # "unasked"
    BY DEF FlagFollowsMock
  <2>1. CASE p = o
    <3>1. destruct[mocks + 1] = "unasked"
      BY <1>1, <1>2 DEF MocksAreMade
    <3> QED BY <1>2, <1>4, <2>1, <3>1
  <2>2. CASE p # o
    <3>1. p \in exists /\ p \in Objects /\ KeepsLife(p)
      BY <1>2, <2>2
    <3>2. object[p].flagged <=> destruct[object[p].life] # "unasked"
      BY <1>1, <3>1 DEF FlagFollowsMock, KeepsLife
    <3>3. object[p].life \in 1 .. MaxMocks
      BY <1>2, <3>1 DEF KeepsLife
    <3> QED BY <1>4, <3>1, <3>2, <3>3 DEF KeepsLife
  <2> QED BY <2>1, <2>2
<1>9. ExpectationsAreCarried'
  <2> SUFFICES ASSUME NEW n \in 1 .. MaxMocks
               PROVE  /\ destruct'[n] = "pending" /\ n \notin overwritten =>
                            \E p \in exists' : object'[p].life = n
                      /\ destruct'[n] = "met" => \A p \in exists' : object'[p].life # n
    BY DEF ExpectationsAreCarried
  <2>1. ASSUME destruct'[n] = "pending", n \notin overwritten
        PROVE  \E p \in exists' : object'[p].life = n
    <3>1. n # object[o].life /\ destruct[n] = "pending"
      BY <1>4, <2>1
    <3>2. PICK p \in exists : object[p].life = n
      BY <1>1, <2>1, <3>1 DEF ExpectationsAreCarried
    <3> QED BY <1>2, <3>1, <3>2 DEF KeepsLife
  <2>2. ASSUME destruct'[n] = "met", NEW p \in exists'  PROVE object'[p].life # n
    <3>1. n # mocks + 1
      BY <1>1, <1>2, <1>4, <2>2 DEF MocksAreMade
    <3>2. CASE p = o
      BY <3>1, <3>2
    <3>3. CASE p # o
      <4>1. p \in exists /\ p \in Objects /\ object'[p].life = object[p].life
        BY <1>2, <3>3 DEF KeepsLife
      <4>2. n = object[o].life \/ destruct[n] = "met"
        BY <1>4, <2>2
      <4> QED BY <1>1, <3>3, <4>1, <4>2 DEF OneObjectPerMock, ExpectationsAreCarried
    <3> QED BY <3>2, <3>3
  <2> QED BY <2>1, <2>2
<1> QED BY <1>5, <1>6, <1>7, <1>8, <1>9 DEF IInv

\* An object loses its mock, which is called, and may cease to exist.
LEMMA LostMock ==
    ASSUME IInv, TypeOK', NEW o \in exists,
           CallDestruct(object[o].life), object'[o].life = NoMock,
           \A p \in exists \ {o} : KeepsLife(p),
           \A p \in Objects \ exists : object'[p].life = NoMock,
           exists' \in {exists, exists \ {o}},
           mocks' = mocks, overwritten' = overwritten
    PROVE  IInv'
<1>1. /\ OneObjectPerMock /\ NoMockWithoutObject /\ MocksAreMade
      /\ FlagFollowsMock /\ ExpectationsAreCarried /\ TypeOK
  BY DEF IInv
<1>2. /\ \A p \in Objects : object[p].life \in Int /\ object[p].life <= mocks
                            /\ (object[p].life # 0 => object[p].life \in 1 .. MaxMocks)
      /\ exists \subseteq Objects /\ exists' \subseteq exists
      /\ o \in Objects /\ mocks \in Nat
  BY <1>1, Types DEF MocksAreMade
<1>3. object[o].life \in 0 .. MaxMocks
  BY <1>1, <1>2, Types
<1>4. \A n \in 1 .. MaxMocks :
         /\ n # object[o].life => destruct'[n] = destruct[n]
         /\ destruct'[n] = "pending" => n # object[o].life
         /\ destruct'[n] = "met" => n = object[o].life \/ destruct[n] = "met"
         /\ destruct'[n] = "unasked" <=> destruct[n] = "unasked"
  BY <1>1, <1>3, CallEffect
<1>5. \A p \in Objects : \/ object'[p].life = 0
                         \/ p # o /\ p \in exists /\ KeepsLife(p)
  BY <1>2
<1>6. OneObjectPerMock'
  BY <1>1, <1>5 DEF OneObjectPerMock, KeepsLife
<1>7. NoMockWithoutObject'
  BY <1>5 DEF NoMockWithoutObject
<1>8. MocksAreMade'
  BY <1>1, <1>2, <1>4, <1>5 DEF MocksAreMade, KeepsLife
<1>9. FlagFollowsMock'
  <2> SUFFICES ASSUME NEW p \in exists', object'[p].life # 0
               PROVE  object'[p].flagged <=> destruct'[object'[p].life] # "unasked"
    BY DEF FlagFollowsMock
  <2>1. p \in exists /\ p \in Objects /\ KeepsLife(p)
    BY <1>2, <1>5
  <2>2. object[p].life \in 1 .. MaxMocks
    BY <1>2, <2>1 DEF KeepsLife
  <2> QED BY <1>1, <1>4, <2>1, <2>2 DEF FlagFollowsMock, KeepsLife
<1>10. ExpectationsAreCarried'
  <2> SUFFICES ASSUME NEW n \in 1 .. MaxMocks
               PROVE  /\ destruct'[n] = "pending" /\ n \notin overwritten =>
                            \E p \in exists' : object'[p].life = n
                      /\ destruct'[n] = "met" => \A p \in exists' : object'[p].life # n
    BY DEF ExpectationsAreCarried
  <2>1. ASSUME destruct'[n] = "pending", n \notin overwritten
        PROVE  \E p \in exists' : object'[p].life = n
    <3>1. n # object[o].life /\ destruct[n] = "pending"
      BY <1>4, <2>1
    <3>2. PICK p \in exists : object[p].life = n
      BY <1>1, <2>1, <3>1 DEF ExpectationsAreCarried
    <3>3. p # o /\ p \in exists'
      BY <3>1, <3>2
    <3> QED BY <3>2, <3>3 DEF KeepsLife
  <2>2. ASSUME destruct'[n] = "met", NEW p \in exists'  PROVE object'[p].life # n
    <3>1. CASE object'[p].life = 0
      BY <3>1
    <3>2. CASE p # o /\ p \in exists /\ KeepsLife(p)
      <4>1. n = object[o].life \/ destruct[n] = "met"
        BY <1>4, <2>2
      <4> QED BY <1>1, <1>2, <3>2, <4>1 DEF OneObjectPerMock, ExpectationsAreCarried, KeepsLife
    <3> QED BY <1>2, <1>5, <3>1, <3>2
  <2> QED BY <2>1, <2>2
<1> QED BY <1>6, <1>7, <1>8, <1>9, <1>10 DEF IInv

\* An object hands its mock to another one, or to itself; the mock the
\* target had is thrown away.
LEMMA HandedMock ==
    ASSUME IInv, TypeOK', NEW o \in Objects, NEW from \in exists,
           /\ object'[o].life = object[from].life
           /\ object'[o].flagged = object[from].flagged
           /\ o # from => object'[from].life = NoMock,
           \A p \in Objects \ {o, from} : KeepsLife(p),
           exists' = exists \cup {o}, mocks' = mocks, destruct' = destruct,
           overwritten \subseteq overwritten',
           o # from /\ object[o].life # NoMock => object[o].life \in overwritten'
    PROVE  IInv'
<1>1. /\ OneObjectPerMock /\ NoMockWithoutObject /\ MocksAreMade
      /\ FlagFollowsMock /\ ExpectationsAreCarried /\ TypeOK
  BY DEF IInv
<1>2. exists \subseteq Objects /\ from \in Objects
  BY <1>1, Types
<1>3. \A p \in Objects : \/ p = o
                         \/ p # o /\ object'[p].life = 0
                         \/ p # o /\ p # from /\ KeepsLife(p)
  BY <1>2
<1>4. OneObjectPerMock'
  BY <1>1, <1>2, <1>3 DEF OneObjectPerMock, KeepsLife
<1>5. NoMockWithoutObject'
  BY <1>1, <1>2 DEF NoMockWithoutObject, KeepsLife
<1>6. MocksAreMade'
  <2>1. \A p \in Objects : object'[p].life <= mocks
    <3>1. \A p \in Objects : object[p].life <= mocks
      BY <1>1 DEF MocksAreMade
    <3>2. 0 <= mocks
      BY <1>1, Types
    <3> QED BY <1>2, <1>3, <3>1, <3>2 DEF KeepsLife
  <2> QED BY <1>1, <2>1 DEF MocksAreMade
<1>7. FlagFollowsMock'
  BY <1>1, <1>2, <1>3 DEF FlagFollowsMock, KeepsLife
<1>8. ExpectationsAreCarried'
  <2> SUFFICES ASSUME NEW n \in 1 .. MaxMocks
               PROVE  /\ destruct[n] = "pending" /\ n \notin overwritten' =>
                            \E p \in exists' : object'[p].life = n
                      /\ destruct[n] = "met" => \A p \in exists' : object'[p].life # n
    BY DEF ExpectationsAreCarried
  <2>1. ASSUME destruct[n] = "pending", n \notin overwritten'
        PROVE  \E p \in exists' : object'[p].life = n
    <3>1. PICK p \in exists : object[p].life = n
      BY <1>1, <2>1 DEF ExpectationsAreCarried
    <3>2. p = o => p = from
      BY <2>1, <3>1
    <3>3. p = from => object'[o].life = n
      BY <3>1
    <3>4. p # from => object'[p].life = n
      BY <1>2, <3>1, <3>2 DEF KeepsLife
    <3> QED BY <3>1, <3>3, <3>4
  <2>2. ASSUME destruct[n] = "met", NEW p \in exists'  PROVE object'[p].life # n
    <3>1. \A q \in exists : object[q].life # n
      BY <1>1, <2>2 DEF ExpectationsAreCarried
    <3> QED BY <1>2, <1>3, <3>1 DEF KeepsLife
  <2> QED BY <2>1, <2>2
<1> QED BY <1>4, <1>5, <1>6, <1>7, <1>8 DEF IInv

\* Every object keeps its mock.
LEMMA KeptMocks ==
    ASSUME IInv, TypeOK', \A p \in Objects : KeepsLife(p),
           exists' = exists, mocks' = mocks, destruct' = destruct,
           overwritten' = overwritten
    PROVE  IInv'
<1>1. /\ OneObjectPerMock /\ NoMockWithoutObject /\ MocksAreMade
      /\ FlagFollowsMock /\ ExpectationsAreCarried /\ exists \subseteq Objects
  BY DEF IInv, TypeOK
<1>2. OneObjectPerMock' /\ NoMockWithoutObject' /\ MocksAreMade'
  BY <1>1 DEF OneObjectPerMock, NoMockWithoutObject, MocksAreMade, KeepsLife
<1>3. FlagFollowsMock' /\ ExpectationsAreCarried'
  BY <1>1 DEF FlagFollowsMock, ExpectationsAreCarried, KeepsLife
<1> QED BY <1>2, <1>3 DEF IInv

-----------------------------------------------------------------------------
(* The actions *)

LEMMA Objects_Watchers ==
    ASSUME TypeOK
    PROVE  /\ object \in [Objects -> Watchers] /\ Empty \in Watchers
           /\ \A w \in Watchers : \A l \in 0 .. MaxMocks :
                 /\ [w EXCEPT !.life = l] \in Watchers
                 /\ [w EXCEPT !.life = l].life = l
                 /\ [w EXCEPT !.life = l].flagged = w.flagged
                 /\ [w EXCEPT !.life = l].reloc = w.reloc
           /\ \A w \in Watchers : \A r \in {-1} \cup 0 .. MaxRelocations :
                 /\ [w EXCEPT !.reloc = r] \in Watchers
                 /\ [w EXCEPT !.reloc = r].life = w.life
                 /\ [w EXCEPT !.reloc = r].flagged = w.flagged
           /\ \A w \in Watchers : \A b \in BOOLEAN :
                 /\ [w EXCEPT !.flagged = b] \in Watchers
                 /\ [w EXCEPT !.flagged = b].life = w.life
                 /\ [w EXCEPT !.flagged = b].reloc = w.reloc
                 /\ [w EXCEPT !.flagged = b].flagged = b
<1>1. object \in [Objects -> Watchers]
  BY DEF TypeOK
<1>2. Empty \in Watchers
  BY WatcherAssumption DEF Empty, Watchers
<1>3. ASSUME NEW w \in Watchers, NEW l \in 0 .. MaxMocks
      PROVE  /\ [w EXCEPT !.life = l] \in Watchers
             /\ [w EXCEPT !.life = l].life = l
             /\ [w EXCEPT !.life = l].flagged = w.flagged
             /\ [w EXCEPT !.life = l].reloc = w.reloc
  BY DEF Watchers
<1>4. ASSUME NEW w \in Watchers, NEW r \in {-1} \cup 0 .. MaxRelocations
      PROVE  /\ [w EXCEPT !.reloc = r] \in Watchers
             /\ [w EXCEPT !.reloc = r].life = w.life
             /\ [w EXCEPT !.reloc = r].flagged = w.flagged
  BY DEF Watchers
<1>5. ASSUME NEW w \in Watchers, NEW b \in BOOLEAN
      PROVE  /\ [w EXCEPT !.flagged = b] \in Watchers
             /\ [w EXCEPT !.flagged = b].life = w.life
             /\ [w EXCEPT !.flagged = b].reloc = w.reloc
             /\ [w EXCEPT !.flagged = b].flagged = b
  BY DEF Watchers
<1> QED BY <1>1, <1>2, <1>3, <1>4, <1>5

LEMMA FreshEffect ==
    ASSUME TypeOK, mocks < MaxMocks
    PROVE  Fresh \in Watchers /\ Fresh.life = mocks + 1 /\ ~ Fresh.flagged
<1>1. mocks + 1 \in 0 .. MaxMocks /\ 0 \in 0 .. MaxRelocations
  BY Types, WatcherAssumption
<1> QED BY <1>1 DEF Fresh, Watchers

LEMMA ConstructPreserves ==
    ASSUME IInv, NEW o \in Objects, Construct(o)
    PROVE  IInv'
<1>1. TypeOK /\ object[o].life = 0
  BY DEF IInv, NoMockWithoutObject, Construct
<1>2. /\ object' = [object EXCEPT ![o] = Fresh]
      /\ mocks < MaxMocks /\ mocks' = mocks + 1
      /\ exists' = exists \cup {o} /\ outcome' = "ok"
      /\ destruct' = destruct /\ overwritten' = overwritten
  BY DEF Construct, MakeMock
<1>3. Fresh \in Watchers /\ Fresh.life = mocks + 1 /\ ~ Fresh.flagged
  BY <1>1, <1>2, FreshEffect
<1>4. object \in [Objects -> Watchers]
  BY <1>1, Objects_Watchers
<1>5. object' \in [Objects -> Watchers] /\ mocks' \in 0 .. MaxMocks
  <2>1. mocks' \in 0 .. MaxMocks
    BY <1>1, <1>2, Types
  <2> QED BY <1>2, <1>3, <1>4, <2>1
<1>6. TypeOK'
  BY <1>1, <1>2, <1>5 DEF TypeOK
<1>7. CallDestruct(object[o].life)
  <2>1. destruct = [n \in 1 .. MaxMocks |-> destruct[n]]
    BY <1>1 DEF TypeOK
  <2>2. \A n \in 1 .. MaxMocks : n # 0
    OBVIOUS
  <2> QED BY <1>1, <1>2, <2>1, <2>2 DEF CallDestruct
<1>8. object'[o] = Fresh /\ \A p \in Objects \ {o} : KeepsLife(p)
  BY <1>2, <1>4 DEF KeepsLife
<1> QED BY <1>2, <1>3, <1>6, <1>7, <1>8, NewMock

LEMMA DestroyPreserves ==
    ASSUME IInv, NEW o \in Objects, Destroy(o)
    PROVE  IInv'
<1>1. TypeOK
  BY DEF IInv
<1>2. /\ object' = [object EXCEPT ![o] = Empty]
      /\ o \in exists /\ exists' = exists \ {o}
      /\ CallDestruct(object[o].life)
      /\ mocks' = mocks /\ overwritten' = overwritten
      /\ outcome' \in {"ok", "violation"}
  BY DEF Destroy
<1>3. object \in [Objects -> Watchers] /\ Empty \in Watchers
  BY <1>1, Objects_Watchers
<1>4. object[o].life \in 0 .. MaxMocks
  BY <1>1, Types
<1>5. destruct' \in [1 .. MaxMocks -> {"unasked", "dropped", "pending", "met", "expired"}]
  BY <1>1, <1>2, <1>4, CallEffect
<1>6. object' \in [Objects -> Watchers]
  BY <1>2, <1>3
<1>7. TypeOK'
  BY <1>1, <1>2, <1>5, <1>6 DEF TypeOK
<1>8. /\ object'[o].life = 0 /\ \A p \in Objects \ {o} : object'[p] = object[p]
      /\ exists \subseteq Objects
  BY <1>1, <1>2, <1>3 DEF Empty, TypeOK
<1>9. \A p \in Objects \ exists : object'[p].life = 0
  BY <1>2, <1>8 DEF IInv, NoMockWithoutObject
<1> QED BY <1>2, <1>7, <1>8, <1>9, LostMock DEF KeepsLife

LEMMA CopyAssignPreserves ==
    ASSUME IInv, NEW o \in Objects, NEW other \in Objects, CopyAssign(o, other)
    PROVE  IInv'
<1>1. TypeOK
  BY DEF IInv
<1>2. /\ o \in exists /\ CallDestruct(object[o].life)
      /\ exists' = exists /\ overwritten' = overwritten
      /\ outcome' \in {"ok", "violation"}
  BY DEF CopyAssign
<1>3. object \in [Objects -> Watchers]
  BY <1>1, Objects_Watchers
<1>4. destruct' \in [1 .. MaxMocks -> {"unasked", "dropped", "pending", "met", "expired"}]
  <2>1. object[o].life \in 0 .. MaxMocks
    BY <1>1, Types
  <2> QED BY <1>1, <1>2, <2>1, CallEffect
<1>5. CASE IsExpected(object[o].life)
  <2>1. /\ mocks < MaxMocks /\ mocks' = mocks + 1
        /\ object' = [object EXCEPT ![o] = Fresh]
    BY <1>5 DEF CopyAssign, MakeMock
  <2>2. Fresh \in Watchers /\ Fresh.life = mocks + 1 /\ ~ Fresh.flagged
    BY <1>1, <2>1, FreshEffect
  <2>3. object' \in [Objects -> Watchers]
    BY <1>3, <2>1, <2>2
  <2>4. mocks' \in 0 .. MaxMocks
    BY <1>1, <2>1, Types
  <2>5. TypeOK'
    BY <1>1, <1>2, <1>4, <2>3, <2>4 DEF TypeOK
  <2>6. object'[o] = Fresh /\ \A p \in Objects \ {o} : KeepsLife(p)
    BY <1>3, <2>1 DEF KeepsLife
  <2>7. exists' = exists \cup {o}
    BY <1>2
  <2> QED BY <1>2, <2>1, <2>2, <2>5, <2>6, <2>7, NewMock
<1>6. CASE ~ IsExpected(object[o].life)
  <2>1. mocks' = mocks /\ object' = [object EXCEPT ![o] = [object[o] EXCEPT !.life = 0]]
    BY <1>6 DEF CopyAssign
  <2>2. /\ [object[o] EXCEPT !.life = 0] \in Watchers
        /\ [object[o] EXCEPT !.life = 0].life = 0
    BY <1>1, <1>3, WatcherAssumption, Objects_Watchers
  <2>3. object' \in [Objects -> Watchers]
    BY <1>3, <2>1, <2>2
  <2>4. TypeOK'
    BY <1>1, <1>2, <1>4, <2>1, <2>3 DEF TypeOK
  <2>5. /\ object'[o].life = 0 /\ \A p \in Objects \ {o} : object'[p] = object[p]
        /\ exists \subseteq Objects
    BY <1>1, <1>3, <2>1, <2>2 DEF TypeOK
  <2>6. \A p \in Objects \ exists : object'[p].life = 0
    BY <1>2, <2>5 DEF IInv, NoMockWithoutObject
  <2> QED BY <1>2, <2>1, <2>4, <2>5, <2>6, LostMock DEF KeepsLife
<1> QED BY <1>5, <1>6

LEMMA LifetimeMovedEffect ==
    ASSUME TypeOK, NEW from \in Objects, NEW to \in Objects
    PROVE  LET moved == LifetimeMoved(from, to) IN
           /\ moved \in [Objects -> Watchers]
           /\ moved[to].life = object[from].life
           /\ moved[to].flagged = object[from].flagged
           /\ from # to => moved[from].life = 0
           /\ \A p \in Objects \ {to, from} : moved[p] = object[p]
           /\ \A p \in Objects : moved[p].reloc = object[p].reloc
<1> DEFINE handed == [[object[to] EXCEPT !.life = object[from].life]
                         EXCEPT !.flagged = object[from].flagged]
           robbed == [object[from] EXCEPT !.life = 0]
           moved == LifetimeMoved(from, to)
<1>1. object \in [Objects -> Watchers]
  BY Objects_Watchers
<1>2. CASE from = to
  BY <1>1, <1>2 DEF LifetimeMoved
<1>3. CASE from # to
  <2>1. /\ handed \in Watchers /\ handed.life = object[from].life
        /\ handed.flagged = object[from].flagged /\ handed.reloc = object[to].reloc
    <3>1. /\ object[to] \in Watchers /\ object[from].life \in 0 .. MaxMocks
          /\ object[from].flagged \in BOOLEAN
      BY Types
    <3> DEFINE w == [object[to] EXCEPT !.life = object[from].life]
    <3>2. w \in Watchers /\ w.life = object[from].life /\ w.reloc = object[to].reloc
      BY <3>1, Objects_Watchers
    <3>3. handed = [w EXCEPT !.flagged = object[from].flagged]
      OBVIOUS
    <3> HIDE DEF w, handed
    <3> QED BY <3>1, <3>2, <3>3, Objects_Watchers
  <2>2. robbed \in Watchers /\ robbed.life = 0 /\ robbed.reloc = object[from].reloc
    <3>1. object[from] \in Watchers /\ 0 \in 0 .. MaxMocks
      BY Types
    <3> QED BY <3>1, Objects_Watchers
  <2>3. moved = [p \in Objects |-> IF p = to THEN handed
                                   ELSE IF p = from THEN robbed ELSE object[p]]
    BY <1>1, <1>3 DEF LifetimeMoved
  <2> HIDE DEF handed, robbed, moved
  <2>4. moved \in [Objects -> Watchers]
    BY <1>1, <2>1, <2>2, <2>3
  <2>5. moved[to] = handed /\ moved[from] = robbed
        /\ \A p \in Objects \ {to, from} : moved[p] = object[p]
    BY <1>3, <2>3
  <2>6. \A p \in Objects : moved[p].reloc = object[p].reloc
    BY <2>1, <2>2, <2>5
  <2> QED BY <1>3, <2>1, <2>2, <2>4, <2>5, <2>6 DEF moved
<1> QED BY <1>2, <1>3

\* Passing on the relocation mock, or one call of it, leaves lifetimes alone.
LEMMA RelocationEffect ==
    ASSUME TypeOK, NEW f \in [Objects -> Watchers],
           NEW from \in Objects, NEW to \in Objects,
           object[from].reloc > 0, f[from].reloc = object[from].reloc
    PROVE  /\ RelocationMoved(f, from, to) \in [Objects -> Watchers]
           /\ CallConsumed(f, from) \in [Objects -> Watchers]
           /\ \A p \in Objects :
                 /\ RelocationMoved(f, from, to)[p].life = f[p].life
                 /\ RelocationMoved(f, from, to)[p].flagged = f[p].flagged
                 /\ CallConsumed(f, from)[p].life = f[p].life
                 /\ CallConsumed(f, from)[p].flagged = f[p].flagged
<1>1. object[from].reloc - 1 \in {-1} \cup 0 .. MaxRelocations /\ -1 \in {-1} \cup 0 .. MaxRelocations
  BY Types, WatcherAssumption
<1>2. ASSUME NEW p \in Objects, NEW r \in {-1} \cup 0 .. MaxRelocations
      PROVE  /\ [f[p] EXCEPT !.reloc = r] \in Watchers
             /\ [f[p] EXCEPT !.reloc = r].life = f[p].life
             /\ [f[p] EXCEPT !.reloc = r].flagged = f[p].flagged
  <2>1. f[p] \in Watchers
    OBVIOUS
  <2> QED BY <2>1, Objects_Watchers
<1>3. RelocationMoved(f, from, to) =
         [p \in Objects |-> IF p = to THEN [f[p] EXCEPT !.reloc = object[from].reloc - 1]
                            ELSE IF p = from THEN [f[p] EXCEPT !.reloc = -1]
                            ELSE f[p]]
  BY DEF RelocationMoved
<1>4. CallConsumed(f, from) =
         [p \in Objects |-> IF p = from THEN [f[p] EXCEPT !.reloc = object[from].reloc - 1]
                            ELSE f[p]]
  BY DEF CallConsumed
<1> QED BY <1>1, <1>2, <1>3, <1>4

LEMMA MoveConstructPreserves ==
    ASSUME IInv, NEW o \in Objects, NEW from \in Objects, MoveConstruct(o, from)
    PROVE  IInv'
<1> DEFINE moved == LifetimeMoved(from, o)
<1>1. TypeOK /\ object \in [Objects -> Watchers] /\ Empty \in Watchers
  BY Objects_Watchers DEF IInv
<1>2. /\ o \notin exists /\ from \in exists /\ o # from
      /\ mocks' = mocks /\ overwritten' = overwritten
  BY DEF MoveConstruct
<1>3. object[o].life = 0
  BY <1>2 DEF IInv, NoMockWithoutObject
<1>4. /\ moved \in [Objects -> Watchers]
      /\ moved[o].life = object[from].life /\ moved[o].flagged = object[from].flagged
      /\ moved[from].life = 0
      /\ \A p \in Objects \ {o, from} : moved[p] = object[p]
      /\ \A p \in Objects : moved[p].reloc = object[p].reloc
  BY <1>1, <1>2, LifetimeMovedEffect
<1>5. object[from].reloc \in {-1} \cup 0 .. MaxRelocations /\ exists \subseteq Objects
  BY <1>1, Types
<1> HIDE DEF moved
<1>6. CASE /\ MayMove(from)
           /\ object' = RelocationMoved(moved, from, o)
           /\ exists' = exists \cup {o}
           /\ outcome' = "ok"
           /\ UNCHANGED destruct
  <2>1. object' \in [Objects -> Watchers]
        /\ \A p \in Objects : object'[p].life = moved[p].life /\ object'[p].flagged = moved[p].flagged
    BY <1>1, <1>4, <1>6, RelocationEffect DEF MayMove
  <2>2. TypeOK'
    BY <1>1, <1>2, <1>6, <2>1 DEF TypeOK
  <2>3. \A p \in Objects \ {o, from} : KeepsLife(p)
    BY <1>4, <2>1 DEF KeepsLife
  <2>4. /\ object'[o].life = object[from].life /\ object'[o].flagged = object[from].flagged
        /\ object'[from].life = 0
    BY <1>4, <2>1
  <2> QED BY <1>2, <1>3, <1>6, <2>2, <2>3, <2>4, HandedMock
<1>7. CASE /\ object' = [IF MayMove(from) THEN CallConsumed(moved, from) ELSE moved
                            EXCEPT ![o] = Empty]
           /\ CallDestruct(object[from].life)
           /\ outcome' \in {"terminate", "finalizer threw", "violation"}
           /\ UNCHANGED exists
  <2> DEFINE called == IF MayMove(from) THEN CallConsumed(moved, from) ELSE moved
  <2>1. called \in [Objects -> Watchers]
        /\ \A p \in Objects : called[p].life = moved[p].life /\ called[p].flagged = moved[p].flagged
    BY <1>1, <1>4, RelocationEffect DEF MayMove
  <2>2. object' = [called EXCEPT ![o] = Empty]
    BY <1>7
  <2> HIDE DEF called
  <2>3. object' \in [Objects -> Watchers] /\ object'[o] = Empty
        /\ \A p \in Objects \ {o} : object'[p] = called[p]
    BY <1>1, <2>1, <2>2
  <2>4. destruct' \in [1 .. MaxMocks -> {"unasked", "dropped", "pending", "met", "expired"}]
    <3>1. object[from].life \in 0 .. MaxMocks
      BY <1>1, Types
    <3> QED BY <1>1, <1>7, <3>1, CallEffect
  <2>5. TypeOK'
    BY <1>1, <1>2, <1>7, <2>3, <2>4 DEF TypeOK
  <2>6. \A p \in Objects \ {o, from} : KeepsLife(p)
    BY <1>4, <2>1, <2>3 DEF KeepsLife
  <2>7. object'[from].life = 0
    BY <1>2, <1>4, <1>5, <2>1, <2>3
  <2>8. \A p \in Objects \ exists : object'[p].life = 0
    <3>1. \A p \in Objects \ exists : object[p].life = 0
      BY DEF IInv, NoMockWithoutObject
    <3> QED BY <1>2, <2>3, <2>6, <3>1 DEF Empty, KeepsLife
  <2> QED BY <1>2, <1>5, <1>7, <2>5, <2>6, <2>7, <2>8, LostMock
<1>8. CASE outcome' = "null mock called" /\ UNCHANGED <<object, exists, destruct>>
  <2>1. TypeOK'
    BY <1>1, <1>2, <1>8 DEF TypeOK
  <2> QED BY <1>2, <1>8, <2>1, KeptMocks DEF KeepsLife
<1>9. \/ MayMove(from) /\ object' = RelocationMoved(moved, from, o)
         /\ exists' = exists \cup {o} /\ outcome' = "ok" /\ UNCHANGED destruct
      \/ /\ object' = [IF MayMove(from) THEN CallConsumed(moved, from) ELSE moved
                          EXCEPT ![o] = Empty]
         /\ CallDestruct(object[from].life)
         /\ outcome' \in {"terminate", "finalizer threw", "violation"}
         /\ UNCHANGED exists
      \/ outcome' = "null mock called" /\ UNCHANGED <<object, exists, destruct>>
  BY DEF MoveConstruct, moved
<1> QED BY <1>6, <1>7, <1>8, <1>9

LEMMA MoveAssignPreserves ==
    ASSUME IInv, NEW o \in Objects, NEW from \in Objects, MoveAssign(o, from)
    PROVE  IInv'
<1> DEFINE moved == LifetimeMoved(from, o)
<1>1. TypeOK /\ object \in [Objects -> Watchers]
  BY Objects_Watchers DEF IInv
<1>2. /\ o \in exists /\ from \in exists
      /\ exists' = exists /\ mocks' = mocks /\ destruct' = destruct
      /\ overwritten' = IF o = from THEN overwritten
                        ELSE overwritten \cup ({object[o].life} \ {0})
      /\ outcome' \in {"ok", "finalizer threw", "violation", "null mock called"}
  BY DEF MoveAssign
<1>3. /\ moved \in [Objects -> Watchers]
      /\ moved[o].life = object[from].life /\ moved[o].flagged = object[from].flagged
      /\ from # o => moved[from].life = 0
      /\ \A p \in Objects \ {o, from} : moved[p] = object[p]
      /\ \A p \in Objects : moved[p].reloc = object[p].reloc
  BY <1>1, LifetimeMovedEffect
<1>4. \/ MayMove(from) /\ object' = RelocationMoved(moved, from, o)
      \/ MayMove(from) /\ object' = CallConsumed(moved, from)
      \/ object' = moved
  BY DEF MoveAssign, moved
<1> HIDE DEF moved
<1>5. object' \in [Objects -> Watchers]
      /\ \A p \in Objects : object'[p].life = moved[p].life /\ object'[p].flagged = moved[p].flagged
  <2>1. CASE MayMove(from)
    BY <1>1, <1>3, <1>4, <2>1, RelocationEffect DEF MayMove
  <2>2. CASE object' = moved
    BY <1>3, <2>2
  <2> QED BY <1>4, <2>1, <2>2
<1>6. TypeOK'
  <2>1. overwritten' \subseteq 1 .. MaxMocks
    <3>1. overwritten \subseteq 1 .. MaxMocks
      BY <1>1 DEF TypeOK
    <3>2. object[o].life # 0 => object[o].life \in 1 .. MaxMocks
      BY <1>1, Types
    <3> QED BY <1>2, <3>1, <3>2
  <2> QED BY <1>1, <1>2, <1>5, <2>1 DEF TypeOK
<1>7. \A p \in Objects \ {o, from} : KeepsLife(p)
  BY <1>3, <1>5 DEF KeepsLife
<1>8. /\ object'[o].life = object[from].life /\ object'[o].flagged = object[from].flagged
      /\ o # from => object'[from].life = 0
  BY <1>3, <1>5
<1>9. exists' = exists \cup {o} /\ overwritten \subseteq overwritten'
      /\ (o # from /\ object[o].life # 0 => object[o].life \in overwritten')
  BY <1>2
<1> QED BY <1>2, <1>6, <1>7, <1>8, <1>9, HandedMock

LEMMA ExpectDestructPreserves ==
    ASSUME IInv, NEW o \in Objects, ExpectDestruct(o)
    PROVE  IInv'
<1> DEFINE m == object[o].life
<1>1. TypeOK /\ object \in [Objects -> Watchers]
  BY Objects_Watchers DEF IInv
<1>2. /\ o \in exists
      /\ object' = [object EXCEPT ![o] = [object[o] EXCEPT !.flagged = TRUE]]
      /\ exists' = exists /\ mocks' = mocks /\ overwritten' = overwritten
      /\ outcome' \in {"ok", "logic_error", "null storage"}
  BY DEF ExpectDestruct
<1>3. /\ [object[o] EXCEPT !.flagged = TRUE] \in Watchers
      /\ [object[o] EXCEPT !.flagged = TRUE].life = m
      /\ [object[o] EXCEPT !.flagged = TRUE].flagged = TRUE
  <2>1. object[o] \in Watchers
    BY <1>1, Types
  <2> QED BY <1>1, <2>1, Objects_Watchers
<1>4. /\ object' \in [Objects -> Watchers]
      /\ object'[o].life = m /\ object'[o].flagged = TRUE
      /\ \A p \in Objects \ {o} : object'[p] = object[p]
  BY <1>1, <1>2, <1>3
<1>5. \A p \in Objects : object'[p].life = object[p].life
  BY <1>4
<1>6. /\ OneObjectPerMock /\ NoMockWithoutObject /\ MocksAreMade
      /\ FlagFollowsMock /\ ExpectationsAreCarried
      /\ exists \subseteq Objects /\ mocks \in Nat
      /\ destruct \in [1 .. MaxMocks -> {"unasked", "dropped", "pending", "met", "expired"}]
      /\ m <= mocks /\ (m # 0 => m \in 1 .. MaxMocks)
  BY <1>1, Types DEF IInv, MocksAreMade, TypeOK
<1> HIDE DEF m
<1>7. \/ UNCHANGED destruct /\ (m = 0 \/ object[o].flagged)
      \/ /\ m # 0 /\ ~ object[o].flagged
         /\ \E state \in {"pending", "dropped"} : destruct' = [destruct EXCEPT ![m] = state]
  BY DEF ExpectDestruct, m
<1>8. /\ destruct' \in [1 .. MaxMocks -> {"unasked", "dropped", "pending", "met", "expired"}]
      /\ \A n \in 1 .. MaxMocks : n # m => destruct'[n] = destruct[n]
      /\ m # 0 => \/ destruct'[m] \in {"pending", "dropped"}
                  \/ destruct'[m] = destruct[m] /\ object[o].flagged
  <2>1. CASE UNCHANGED destruct /\ (m = 0 \/ object[o].flagged)
    BY <1>6, <2>1
  <2>2. CASE /\ m # 0 /\ ~ object[o].flagged
             /\ \E state \in {"pending", "dropped"} : destruct' = [destruct EXCEPT ![m] = state]
    BY <1>6, <2>2
  <2> QED BY <1>7, <2>1, <2>2
<1>9. TypeOK'
  BY <1>1, <1>2, <1>4, <1>8 DEF TypeOK
<1>10. m # 0 => destruct'[m] # "unasked"
  BY <1>2, <1>6, <1>8 DEF FlagFollowsMock, m
<1>11. OneObjectPerMock' /\ NoMockWithoutObject'
  BY <1>2, <1>5, <1>6 DEF OneObjectPerMock, NoMockWithoutObject
<1>12. MocksAreMade'
  <2>1. ASSUME NEW n \in 1 .. MaxMocks, n > mocks  PROVE destruct'[n] = "unasked"
    <3>1. n # m
      BY <1>6, <2>1
    <3> QED BY <1>6, <1>8, <2>1, <3>1 DEF MocksAreMade
  <2> QED BY <1>2, <1>5, <1>6, <2>1 DEF MocksAreMade
<1>13. FlagFollowsMock'
  <2> SUFFICES ASSUME NEW p \in exists, object[p].life # 0
               PROVE  object'[p].flagged <=> destruct'[object[p].life] # "unasked"
    BY <1>2, <1>5, <1>6 DEF FlagFollowsMock
  <2>1. CASE p = o
    BY <1>4, <1>10, <2>1 DEF m
  <2>2. CASE p # o
    <3>1. p \in Objects /\ object'[p] = object[p] /\ object[p].life \in 1 .. MaxMocks
      BY <1>1, <1>4, <1>6, <2>2, Types
    <3>2. object[p].life # m
      BY <1>6, <2>2, <3>1 DEF OneObjectPerMock, m
    <3> QED BY <1>6, <1>8, <3>1, <3>2 DEF FlagFollowsMock
  <2> QED BY <2>1, <2>2
<1>14. ExpectationsAreCarried'
  <2> SUFFICES ASSUME NEW n \in 1 .. MaxMocks
               PROVE  /\ destruct'[n] = "pending" /\ n \notin overwritten =>
                            \E p \in exists : object[p].life = n
                      /\ destruct'[n] = "met" => \A p \in exists : object[p].life # n
    <3>1. \A p \in exists : object'[p].life = object[p].life
      BY <1>5, <1>6
    <3>2. exists' = exists /\ overwritten' = overwritten
      BY <1>2
    <3> QED BY <3>1, <3>2 DEF ExpectationsAreCarried
  <2>1. CASE n = m
    <3>1. o \in exists /\ object[o].life = n /\ m # 0
      <4>1. n # 0
        OBVIOUS
      <4> QED BY <1>2, <2>1, <4>1 DEF m
    <3>2. destruct[n] # "met"
      BY <1>6, <3>1 DEF ExpectationsAreCarried
    <3>3. destruct'[n] # "met"
      BY <1>8, <2>1, <3>1, <3>2
    <3> QED BY <3>1, <3>3
  <2>2. CASE n # m
    BY <1>6, <1>8, <2>2 DEF ExpectationsAreCarried
  <2> QED BY <2>1, <2>2
<1> QED BY <1>9, <1>11, <1>12, <1>13, <1>14 DEF IInv

LEMMA ExpectRelocatePreserves ==
    ASSUME IInv, NEW o \in Objects, ExpectRelocate(o)
    PROVE  IInv'
<1>1. TypeOK /\ object \in [Objects -> Watchers]
  BY Objects_Watchers DEF IInv
<1>2. /\ exists' = exists /\ mocks' = mocks /\ overwritten' = overwritten
      /\ destruct' = destruct /\ outcome' \in {"ok", "null storage"}
      /\ object[o].reloc < MaxRelocations
      /\ \/ object' = object
         \/ /\ object[o].reloc # -1
            /\ object' = [object EXCEPT ![o] = [object[o] EXCEPT !.reloc = object[o].reloc + 1]]
  BY DEF ExpectRelocate
<1>3. object' \in [Objects -> Watchers] /\ \A p \in Objects : KeepsLife(p)
  <2>1. CASE object' = object
    BY <1>1, <2>1 DEF KeepsLife
  <2>2. CASE /\ object[o].reloc # -1
             /\ object' = [object EXCEPT ![o] = [object[o] EXCEPT !.reloc = object[o].reloc + 1]]
    <3>1. object[o] \in Watchers /\ object[o].reloc \in {-1} \cup 0 .. MaxRelocations
      BY <1>1, Types
    <3> DEFINE r == object[o].reloc + 1
               w == [object[o] EXCEPT !.reloc = r]
    <3>2. r \in {-1} \cup 0 .. MaxRelocations
      <4>1. object[o].reloc # -1 /\ object[o].reloc < MaxRelocations
        BY <1>2, <2>2
      <4>2. object[o].reloc \in 0 .. MaxRelocations
        BY <3>1, <4>1
      <4> QED BY <4>1, <4>2, WatcherAssumption
    <3>3. w \in Watchers /\ w.life = object[o].life /\ w.flagged = object[o].flagged
      <4> HIDE DEF r
      <4> QED BY <1>1, <3>1, <3>2, Objects_Watchers
    <3> HIDE DEF r
    <3>4. object' = [object EXCEPT ![o] = w]
      BY <2>2 DEF r
    <3> HIDE DEF w
    <3> QED BY <1>1, <3>3, <3>4 DEF KeepsLife
  <2> QED BY <1>2, <2>1, <2>2
<1>4. TypeOK'
  BY <1>1, <1>2, <1>3 DEF TypeOK
<1> QED BY <1>2, <1>3, <1>4, KeptMocks

LEMMA ExpectationExpiresPreserves ==
    ASSUME IInv, NEW m \in 1 .. MaxMocks, ExpectationExpires(m)
    PROVE  IInv'
<1>1. /\ destruct[m] = "pending" /\ destruct' = [destruct EXCEPT ![m] = "expired"]
      /\ outcome' = "violation"
      /\ UNCHANGED <<object, exists, mocks, overwritten>>
  BY DEF ExpectationExpires
<1>2. /\ destruct \in [1 .. MaxMocks -> {"unasked", "dropped", "pending", "met", "expired"}]
      /\ TypeOK /\ exists \subseteq Objects
  BY DEF IInv, TypeOK
<1>3. TypeOK'
  BY <1>1, <1>2 DEF TypeOK
<1>4. OneObjectPerMock' /\ NoMockWithoutObject'
  BY <1>1 DEF IInv, OneObjectPerMock, NoMockWithoutObject
<1>5. MocksAreMade'
  BY <1>1, <1>2 DEF IInv, MocksAreMade
<1>6. FlagFollowsMock'
  <2>1. \A p \in exists : object[p].life # 0 => object[p].life \in 1 .. MaxMocks
    BY <1>2, Types
  <2> QED BY <1>1, <1>2, <2>1 DEF IInv, FlagFollowsMock
<1>7. ExpectationsAreCarried'
  BY <1>1, <1>2 DEF IInv, ExpectationsAreCarried
<1> QED BY <1>3, <1>4, <1>5, <1>6, <1>7 DEF IInv

-----------------------------------------------------------------------------
(* How a mock can lose its object *)

\* DeathIsNoticed for one step and one mock.
Carried(m) == \E o \in exists : object[o].life = m

Noticed(m) == Carried(m) /\ ~ Carried(m)' =>
                 \/ destruct'[m] = "met"
                 \/ outcome' \in {"violation", "terminate"}
                 \/ m \in overwritten'

LEMMA CalledIsNoticed ==
    ASSUME TypeOK, NEW m \in 1 .. MaxMocks, CallDestruct(m), IsExpected(m)
    PROVE  destruct'[m] = "met"
  BY DEF CallDestruct, IsExpected

LEMMA ConstructNotices ==
    ASSUME IInv, NEW o \in Objects, Construct(o), NEW m \in 1 .. MaxMocks
    PROVE  Noticed(m)
<1>1. /\ object' = [object EXCEPT ![o] = Fresh]
      /\ o \notin exists /\ exists' = exists \cup {o}
  BY DEF Construct
<1>2. object \in [Objects -> Watchers] /\ exists \subseteq Objects
  BY DEF IInv, TypeOK
<1>3. \A p \in exists : p \in exists' /\ object'[p] = object[p]
  BY <1>1, <1>2
<1> QED BY <1>3 DEF Noticed, Carried

LEMMA DestroyNotices ==
    ASSUME IInv, NEW o \in Objects, Destroy(o), NEW m \in 1 .. MaxMocks
    PROVE  Noticed(m)
<1>1. /\ object' = [object EXCEPT ![o] = Empty]
      /\ exists' = exists \ {o} /\ CallDestruct(object[o].life)
      /\ outcome' = IF IsExpected(object[o].life) THEN "ok" ELSE "violation"
  BY DEF Destroy
<1>2. object \in [Objects -> Watchers] /\ exists \subseteq Objects /\ TypeOK
  BY DEF IInv, TypeOK
<1>3. \A p \in exists \ {o} : p \in exists' /\ object'[p] = object[p]
  BY <1>1, <1>2
<1>4. CASE object[o].life = m
  BY <1>1, <1>2, <1>4, CalledIsNoticed DEF Noticed
<1>5. CASE object[o].life # m
  BY <1>3, <1>5 DEF Noticed, Carried
<1> QED BY <1>4, <1>5

LEMMA CopyAssignNotices ==
    ASSUME IInv, NEW o \in Objects, NEW other \in Objects, CopyAssign(o, other),
           NEW m \in 1 .. MaxMocks
    PROVE  Noticed(m)
<1>1. /\ exists' = exists /\ CallDestruct(object[o].life)
      /\ \/ IsExpected(object[o].life)
         \/ outcome' = "violation"
      /\ \/ object' = [object EXCEPT ![o] = Fresh]
         \/ object' = [object EXCEPT ![o].life = 0]
  BY DEF CopyAssign
<1>2. object \in [Objects -> Watchers] /\ exists \subseteq Objects /\ TypeOK
  BY DEF IInv, TypeOK
<1>3. \A p \in exists \ {o} : p \in exists' /\ object'[p] = object[p]
  BY <1>1, <1>2
<1>4. CASE object[o].life = m
  BY <1>1, <1>2, <1>4, CalledIsNoticed DEF Noticed
<1>5. CASE object[o].life # m
  BY <1>3, <1>5 DEF Noticed, Carried
<1> QED BY <1>4, <1>5

LEMMA MoveConstructNotices ==
    ASSUME IInv, NEW o \in Objects, NEW from \in Objects, MoveConstruct(o, from),
           NEW m \in 1 .. MaxMocks
    PROVE  Noticed(m)
<1> DEFINE moved == LifetimeMoved(from, o)
<1>1. TypeOK /\ object \in [Objects -> Watchers] /\ exists \subseteq Objects
  BY DEF IInv, TypeOK
<1>2. o \notin exists /\ from \in exists /\ o # from
  BY DEF MoveConstruct
<1>3. /\ moved \in [Objects -> Watchers]
      /\ moved[o].life = object[from].life
      /\ \A p \in Objects \ {o, from} : moved[p] = object[p]
      /\ \A p \in Objects : moved[p].reloc = object[p].reloc
  BY <1>1, <1>2, LifetimeMovedEffect
<1>4. \/ /\ MayMove(from) /\ object' = RelocationMoved(moved, from, o)
         /\ exists' = exists \cup {o}
      \/ /\ object' = [IF MayMove(from) THEN CallConsumed(moved, from) ELSE moved
                          EXCEPT ![o] = Empty]
         /\ CallDestruct(object[from].life)
         /\ IsExpected(object[from].life) \/ outcome' = "terminate"
         /\ exists' = exists
      \/ object' = object /\ exists' = exists
  BY DEF MoveConstruct, moved
<1> HIDE DEF moved
<1>5. CASE /\ MayMove(from) /\ object' = RelocationMoved(moved, from, o)
           /\ exists' = exists \cup {o}
  <2>1. \A p \in Objects : object'[p].life = moved[p].life
    BY <1>1, <1>3, <1>5, RelocationEffect DEF MayMove
  <2>2. object'[o].life = object[from].life /\ o \in exists'
    BY <1>3, <1>5, <2>1
  <2>3. \A p \in exists \ {from} : p \in exists' /\ object'[p].life = object[p].life
    BY <1>1, <1>2, <1>3, <1>5, <2>1
  <2> QED BY <2>2, <2>3 DEF Noticed, Carried
<1>6. CASE /\ object' = [IF MayMove(from) THEN CallConsumed(moved, from) ELSE moved
                            EXCEPT ![o] = Empty]
           /\ CallDestruct(object[from].life)
           /\ IsExpected(object[from].life) \/ outcome' = "terminate"
           /\ exists' = exists
  <2> DEFINE called == IF MayMove(from) THEN CallConsumed(moved, from) ELSE moved
  <2>1. called \in [Objects -> Watchers]
        /\ \A p \in Objects : called[p].life = moved[p].life
    BY <1>1, <1>3, RelocationEffect DEF MayMove
  <2>2. object' = [called EXCEPT ![o] = Empty]
    BY <1>6
  <2> HIDE DEF called
  <2>3. \A p \in exists \ {from} : p \in exists' /\ object'[p].life = object[p].life
    BY <1>1, <1>2, <1>3, <1>6, <2>1, <2>2
  <2>4. CASE object[from].life = m
    BY <1>1, <1>6, <2>4, CalledIsNoticed DEF Noticed
  <2>5. CASE object[from].life # m
    BY <2>3, <2>5 DEF Noticed, Carried
  <2> QED BY <2>4, <2>5
<1>7. CASE object' = object /\ exists' = exists
  BY <1>7 DEF Noticed, Carried
<1> QED BY <1>4, <1>5, <1>6, <1>7

LEMMA MoveAssignNotices ==
    ASSUME IInv, NEW o \in Objects, NEW from \in Objects, MoveAssign(o, from),
           NEW m \in 1 .. MaxMocks
    PROVE  Noticed(m)
<1> DEFINE moved == LifetimeMoved(from, o)
<1>1. TypeOK /\ object \in [Objects -> Watchers] /\ exists \subseteq Objects
  BY DEF IInv, TypeOK
<1>2. /\ o \in exists /\ from \in exists /\ exists' = exists
      /\ overwritten' = IF o = from THEN overwritten
                        ELSE overwritten \cup ({object[o].life} \ {0})
  BY DEF MoveAssign
<1>3. /\ moved \in [Objects -> Watchers]
      /\ moved[o].life = object[from].life
      /\ \A p \in Objects \ {o, from} : moved[p] = object[p]
      /\ \A p \in Objects : moved[p].reloc = object[p].reloc
  BY <1>1, LifetimeMovedEffect
<1>4. \/ MayMove(from) /\ object' = RelocationMoved(moved, from, o)
      \/ MayMove(from) /\ object' = CallConsumed(moved, from)
      \/ object' = moved
  BY DEF MoveAssign, moved
<1> HIDE DEF moved
<1>5. \A p \in Objects : object'[p].life = moved[p].life
  <2>1. CASE MayMove(from)
    BY <1>1, <1>3, <1>4, <2>1, RelocationEffect DEF MayMove
  <2>2. CASE object' = moved
    BY <2>2
  <2> QED BY <1>4, <2>1, <2>2
<1>6. object'[o].life = object[from].life
  BY <1>3, <1>5
<1>7. \A p \in exists \ {o, from} : object'[p].life = object[p].life
  BY <1>1, <1>3, <1>5
<1>8. o # from /\ object[o].life = m => m \in overwritten'
  <2>1. m # 0
    OBVIOUS
  <2> QED BY <1>2, <2>1
<1> QED BY <1>2, <1>6, <1>7, <1>8 DEF Noticed, Carried

-----------------------------------------------------------------------------
(* Theorems *)

LEMMA Invariance == Spec => []IInv
<1>1. IInv /\ [Next]_vars => IInv'
  <2> SUFFICES ASSUME IInv, [Next]_vars  PROVE IInv'
    OBVIOUS
  <2>1. CASE UNCHANGED vars
    BY <2>1 DEF IInv, TypeOK, OneObjectPerMock, NoMockWithoutObject, MocksAreMade,
                FlagFollowsMock, ExpectationsAreCarried, vars
  <2>2. ASSUME NEW o \in Objects, Construct(o)  PROVE IInv'
    BY <2>2, ConstructPreserves
  <2>3. ASSUME NEW o \in Objects, Destroy(o)  PROVE IInv'
    BY <2>3, DestroyPreserves
  <2>4. ASSUME NEW o \in Objects, ExpectDestruct(o)  PROVE IInv'
    BY <2>4, ExpectDestructPreserves
  <2>5. ASSUME NEW o \in Objects, ExpectRelocate(o)  PROVE IInv'
    BY <2>5, ExpectRelocatePreserves
  <2>6. ASSUME NEW o \in Objects, NEW other \in Objects, CopyConstruct(o, other)
        PROVE  IInv'
    BY <2>2, <2>6 DEF CopyConstruct
  <2>7. ASSUME NEW o \in Objects, NEW other \in Objects, CopyAssign(o, other)
        PROVE  IInv'
    BY <2>7, CopyAssignPreserves
  <2>8. ASSUME NEW o \in Objects, NEW other \in Objects, MoveConstruct(o, other)
        PROVE  IInv'
    BY <2>8, MoveConstructPreserves
  <2>9. ASSUME NEW o \in Objects, NEW other \in Objects, MoveAssign(o, other)
        PROVE  IInv'
    BY <2>9, MoveAssignPreserves
  <2>10. ASSUME NEW m \in 1 .. MaxMocks, ExpectationExpires(m)  PROVE IInv'
    BY <2>10, ExpectationExpiresPreserves
  <2> QED BY <2>1, <2>2, <2>3, <2>4, <2>5, <2>6, <2>7, <2>8, <2>9, <2>10 DEF Next
<1> QED BY <1>1, InitEstablishes, PTL DEF Spec

\* The types of the places, watchers and mocks (ObjectWatcher.hpp:160-164,
\* 256): no operation leaves the range of its fields.
THEOREM TypesHold == Spec => []TypeOK
<1>1. IInv => TypeOK
  BY DEF IInv
<1> QED BY <1>1, Invariance, PTL

\* The second expect_destruct() for the same mock, and no other, is the
\* logic_error (ObjectWatcher.hpp:146-157), wherever the mock has been
\* moved to meanwhile.
THEOREM FlagHolds == Spec => []FlagFollowsMock
<1>1. IInv => FlagFollowsMock
  BY DEF IInv
<1> QED BY <1>1, Invariance, PTL

\* A destruct expectation stays with exactly one object until that dies
\* (ObjectWatcher.hpp:84-95), however often the object is moved.
THEOREM PendingHolds == Spec => []PendingExpectationIsCarried
<1>1. IInv => PendingExpectationIsCarried
  <2> SUFFICES ASSUME IInv, NEW m \in 1 .. MaxMocks
               PROVE  LET carriers == {o \in exists : object[o].life = m} IN
                      /\ Cardinality(carriers) <= 1
                      /\ destruct[m] = "pending" /\ m \notin overwritten => carriers # {}
                      /\ destruct[m] = "met" => carriers = {}
    BY DEF PendingExpectationIsCarried
  <2> DEFINE carriers == {o \in exists : object[o].life = m}
  <2>1. Cardinality(carriers) <= 1
    <3>1. CASE carriers = {}
      BY <3>1, FS_EmptySet
    <3>2. ASSUME NEW o \in carriers  PROVE Cardinality(carriers) <= 1
      <4>1. exists \subseteq Objects
        BY DEF IInv, TypeOK
      <4>2. carriers = {o}
        BY <3>2, <4>1 DEF IInv, OneObjectPerMock
      <4>3. Cardinality({o}) = 1
        BY FS_Singleton
      <4> HIDE DEF carriers
      <4> QED BY <4>2, <4>3
    <3> QED BY <3>1, <3>2
  <2>2. /\ destruct[m] = "pending" /\ m \notin overwritten => carriers # {}
        /\ destruct[m] = "met" => carriers = {}
    BY DEF IInv, ExpectationsAreCarried
  <2> QED BY <2>1, <2>2
<1> QED BY <1>1, Invariance, PTL

\* No watched object disappears without its expectation being met or the
\* test being told (ObjectWatcher.hpp:84-95, 105-118), except under a move
\* assignment.
THEOREM DeathHolds == Spec => DeathIsNoticed
<1>1. IInv /\ [Next]_vars => [\A m \in 1 .. MaxMocks : Noticed(m)]_vars
  <2> SUFFICES ASSUME IInv, Next, NEW m \in 1 .. MaxMocks  PROVE Noticed(m)
    OBVIOUS
  <2>1. ASSUME NEW o \in Objects, Construct(o)  PROVE Noticed(m)
    BY <2>1, ConstructNotices
  <2>2. ASSUME NEW o \in Objects, Destroy(o)  PROVE Noticed(m)
    BY <2>2, DestroyNotices
  <2>3. ASSUME NEW o \in Objects, NEW other \in Objects, CopyAssign(o, other)
        PROVE  Noticed(m)
    BY <2>3, CopyAssignNotices
  <2>4. ASSUME NEW o \in Objects, NEW other \in Objects, MoveConstruct(o, other)
        PROVE  Noticed(m)
    BY <2>4, MoveConstructNotices
  <2>5. ASSUME NEW o \in Objects, NEW other \in Objects, MoveAssign(o, other)
        PROVE  Noticed(m)
    BY <2>5, MoveAssignNotices
  <2>6. ASSUME exists' = exists, \A p \in exists : object'[p].life = object[p].life
        PROVE  Noticed(m)
    BY <2>6 DEF Noticed, Carried
  <2>7. object \in [Objects -> Watchers] /\ exists \subseteq Objects /\ TypeOK
    BY DEF IInv, TypeOK
  <2>8. ASSUME NEW o \in Objects, ExpectDestruct(o)  PROVE Noticed(m)
    <3>1. exists' = exists /\ object' = [object EXCEPT ![o] = [object[o] EXCEPT !.flagged = TRUE]]
      BY <2>8 DEF ExpectDestruct
    <3>2. [object[o] EXCEPT !.flagged = TRUE].life = object[o].life
      <4>1. object[o] \in Watchers
        BY <2>7
      <4> QED BY <2>7, <4>1, Objects_Watchers
    <3> QED BY <2>6, <2>7, <3>1, <3>2
  <2>9. ASSUME NEW o \in Objects, ExpectRelocate(o)  PROVE Noticed(m)
    <3>1. exists' = exists /\ \/ object' = object
                              \/ object' = [object EXCEPT ![o] =
                                               [object[o] EXCEPT !.reloc = @ + 1]]
      BY <2>9 DEF ExpectRelocate
    <3>2. [object[o] EXCEPT !.reloc = @ + 1].life = object[o].life
      <4>1. object[o] \in Watchers
        BY <2>7
      <4> QED BY <4>1 DEF Watchers
    <3> QED BY <2>6, <2>7, <3>1, <3>2
  <2>10. ASSUME NEW n \in 1 .. MaxMocks, ExpectationExpires(n)  PROVE Noticed(m)
    BY <2>10 DEF ExpectationExpires, Noticed, Carried
  <2> QED BY <2>1, <2>2, <2>3, <2>4, <2>5, <2>8, <2>9, <2>10 DEF Next, CopyConstruct
<1>2. [\A m \in 1 .. MaxMocks : Noticed(m)]_vars =>
         [\A m \in 1 .. MaxMocks :
             LET carried == \E o \in exists : object[o].life = m IN
             carried /\ ~ carried' =>
                 \/ destruct'[m] = "met"
                 \/ outcome' \in {"violation", "terminate"}
                 \/ m \in overwritten']_vars
  BY DEF Noticed, Carried
<1> QED BY <1>1, <1>2, Invariance, PTL DEF Spec, DeathIsNoticed

=============================================================================
