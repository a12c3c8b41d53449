-------------------- MODULE SequencedExpectations_proofs --------------------
(***************************************************************************)
(* Proofs about SequencedExpectations, for any number of expectations and  *)
(* sequences and any times limits: the inductive invariant, and what       *)
(* follows from it.                                                        *)
(***************************************************************************)
EXTENDS SequencedExpectations, BestMatch_proofs, SequenceTheorems, TLAPS

-----------------------------------------------------------------------------
(* The operations on one sequence. *)

\* A new entry leaves the others, and the cursor, as they are.
LEMMA AddEffect ==
    ASSUME NEW seq, IsSequence(seq)
    PROVE  /\ IsSequence(Add(seq))
           /\ Add(seq).size = seq.size + 1
           /\ Add(seq).cursor = seq.cursor
           /\ \A i \in 0 .. seq.size - 1 : Add(seq).entries[i] = seq.entries[i]
           /\ Add(seq).entries[seq.size] = "unsatisfied"
  <1> DEFINE more == [i \in 0 .. seq.size |-> IF i = seq.size THEN "unsatisfied"
                                             ELSE seq.entries[i]]
  <1>1. more \in [0 .. (seq.size + 1) - 1 -> EntryState]
    BY DEF IsSequence, EntryState
  <1>2. Add(seq) = [size |-> seq.size + 1, entries |-> more, cursor |-> seq.cursor]
    BY DEF Add
  <1> QED BY <1>1, <1>2 DEF IsSequence

\* Marking an entry changes that entry and nothing else.
LEMMA MarkEffect ==
    ASSUME NEW seq, IsSequence(seq), NEW id \in 0 .. seq.size - 1
    PROVE  /\ IsSequence(SetSatisfied(seq, id))
           /\ SetSatisfied(seq, id).size = seq.size
           /\ SetSatisfied(seq, id).cursor = seq.cursor
           /\ \A i \in 0 .. seq.size - 1 : SetSatisfied(seq, id).entries[i] =
                 IF i = id THEN "satisfied" ELSE seq.entries[i]
           /\ IsSequence(SetSaturated(seq, id))
           /\ SetSaturated(seq, id).size = seq.size
           /\ SetSaturated(seq, id).cursor = seq.cursor
           /\ \A i \in 0 .. seq.size - 1 : SetSaturated(seq, id).entries[i] =
                 IF i = id THEN "saturated" ELSE seq.entries[i]
  BY DEF IsSequence, SetSatisfied, SetSaturated, EntryState

\* Consuming an entry moves the cursor and nothing else.
LEMMA ConsumeEffect ==
    ASSUME NEW seq, IsSequence(seq), NEW id \in 0 .. seq.size - 1
    PROVE  /\ IsSequence(Consume(seq, id))
           /\ Consume(seq, id).size = seq.size
           /\ Consume(seq, id).cursor = id
           /\ Consume(seq, id).entries = seq.entries
  BY DEF IsSequence, Consume

\* update_sequence_states marks, in every sequence of x, the entry of x.
LEMMA UpdateEffect ==
    ASSUME NEW seqs, NEW x, NEW s \in SequenceNames, IsSequence(seqs[s]),
           s \in DOMAIN x.ids => x.ids[s] \in 0 .. seqs[s].size - 1
    PROVE  LET new == UpdateSequenceStates(seqs, x)[s]
               mark == IF x.count = x.min THEN "satisfied" ELSE "saturated"
           IN  /\ IsSequence(new)
               /\ new.size = seqs[s].size
               /\ new.cursor = seqs[s].cursor
               /\ \A i \in 0 .. seqs[s].size - 1 :
                     new.entries[i] =
                        IF /\ s \in DOMAIN x.ids
                           /\ i = x.ids[s]
                           /\ x.count \in {x.min, x.max}
                        THEN mark ELSE seqs[s].entries[i]
  <1> DEFINE new == UpdateSequenceStates(seqs, x)[s]
  <1>1. CASE s \notin DOMAIN x.ids
    <2>1. new = seqs[s]
      BY <1>1 DEF UpdateSequenceStates
    <2> QED BY <1>1, <2>1
  <1>2. CASE s \in DOMAIN x.ids /\ x.count = x.min
    <2>1. new = SetSatisfied(seqs[s], x.ids[s])
      BY <1>2 DEF UpdateSequenceStates
    <2> QED BY <1>2, <2>1, MarkEffect
  <1>3. CASE s \in DOMAIN x.ids /\ x.count # x.min /\ x.count = x.max
    <2>1. new = SetSaturated(seqs[s], x.ids[s])
      BY <1>3 DEF UpdateSequenceStates
    <2> QED BY <1>3, <2>1, MarkEffect
  <1>4. CASE s \in DOMAIN x.ids /\ x.count # x.min /\ x.count # x.max
    <2>1. new = seqs[s]
      BY <1>4 DEF UpdateSequenceStates
    <2> QED BY <1>4, <2>1
  <1> QED BY <1>1, <1>2, <1>3, <1>4

-----------------------------------------------------------------------------
(* The inductive invariant *)

\* What the type of an expectation says of its fields.
LEMMA ExpectationFields ==
    ASSUME TypeOK, NEW e \in Created
    PROVE  /\ expectations[e] \in ExpectationRecord
           /\ expectations[e].min \in Nat
           /\ expectations[e].max \in Nat
           /\ expectations[e].count \in Nat
           /\ expectations[e].alive \in BOOLEAN
           /\ DOMAIN expectations[e].ids \subseteq SequenceNames
           /\ \A s \in DOMAIN expectations[e].ids : IdOf(e, s) \in Nat
  <1>1. expectations[e] \in ExpectationRecord
    BY ElementOfSeq DEF TypeOK, Created
  <1>2. \A x \in ExpectationRecord :
           /\ x.min \in 0 .. MaxTimes /\ x.max \in 0 .. MaxTimes
           /\ x.count \in 0 .. MaxTimes /\ x.alive \in BOOLEAN
           /\ \E S \in SUBSET SequenceNames : x.ids \in [S -> 0 .. MaxExpectations]
    BY DEF ExpectationRecord
  <1> QED BY <1>1, <1>2, BoundsAssumption DEF IdOf

\* Nothing has been created yet when the program starts.
LEMMA InitIInv == Init => IInv
  <1> SUFFICES ASSUME Init PROVE IInv
    OBVIOUS
  <1>1. Created = {}
    BY EmptySeq DEF Init, Created
  <1>2. IsSequence(EmptySequence)
    BY DEF IsSequence, EmptySequence
  <1>3. TypeOK
    BY <1>2, EmptySeq DEF Init, TypeOK, Quiet
  <1>4. IdsFollowCreation
    <2>1. \A s \in SequenceNames : sequence[s].size = 0 /\ sequence[s].cursor = 0
      BY DEF Init, EmptySequence
    <2> QED BY <1>1, <2>1, EmptySeq DEF IdsFollowCreation, Attached, Init
  <1>5. PassedEntriesAreDone
    BY DEF Init, EmptySequence, PassedEntriesAreDone
  <1>6. CursorIsLastMatched
    BY <1>1 DEF Init, EmptySequence, CursorIsLastMatched, Attached
  <1> QED BY <1>1, <1>3, <1>4, <1>5, <1>6
          DEF IInv, EntriesFollowCounts, AssertionsHold, Init

\* What matching found applicable is applicable to the letter of the
\* assertion in ControlPolicy::consume.
LEMMA ApplicableIsApplicable ==
    ASSUME IInv, NEW e \in Created,
           ControlState(expectations[e]) = "applicable"
    PROVE  /\ IsApplicable(expectations[e])
           /\ expectations[e].count < expectations[e].max
           /\ \A s \in DOMAIN expectations[e].ids :
                 IsConsumable(sequence[s], expectations[e].ids[s])
  <1>1. expectations[e].count <= expectations[e].max
    BY DEF IInv
  <1>2. expectations[e].count # expectations[e].max
    BY DEF ControlState
  <1>3. \A s \in DOMAIN expectations[e].ids :
           IsConsumable(sequence[s], expectations[e].ids[s])
    BY <1>2 DEF ControlState
  <1>4. expectations[e].count \in Nat /\ expectations[e].max \in Nat
    BY ExpectationFields DEF IInv
  <1> QED BY <1>1, <1>2, <1>3, <1>4 DEF IsApplicable

\* Giving a call to an applicable expectation keeps the invariant.
LEMMA ConsumeKeepsIInv ==
    ASSUME IInv, NEW e \in Created,
           ControlState(expectations[e]) = "applicable",
           ConsumeExpectation(e), UNCHANGED held,
           report'.kind = "full_match"
    PROVE  IInv'
  <1> DEFINE x == expectations[e]
             y == [x EXCEPT !.count = @ + 1]
             moved == ConsumeInSequences(x)
  <1>1. /\ x \in ExpectationRecord
        /\ x.min \in Nat /\ x.max \in Nat /\ x.count \in Nat
        /\ DOMAIN x.ids \subseteq SequenceNames
        /\ x.min <= x.max
        /\ x.max <= MaxTimes
    BY ExpectationFields, BoundsAssumption DEF IInv, ExpectationRecord
  <1>2. /\ IsApplicable(x)
        /\ x.count < x.max
        /\ \A s \in DOMAIN x.ids : IsConsumable(sequence[s], x.ids[s])
    BY ApplicableIsApplicable
  <1>3. /\ y \in ExpectationRecord
        /\ y.count = x.count + 1
        /\ y.min = x.min /\ y.max = x.max /\ y.ids = x.ids
    BY <1>1, <1>2, BoundsAssumption DEF ExpectationRecord
  <1>4. /\ expectations' \in Seq(ExpectationRecord)
        /\ Len(expectations') = Len(expectations)
        /\ \A f \in Created : expectations'[f] = IF f = e THEN y ELSE expectations[f]
    <2>1. expectations' = [expectations EXCEPT ![e] = y]
      BY DEF ConsumeExpectation
    <2> QED BY <2>1, <1>3, ExceptSeq DEF IInv, TypeOK, Created
  <1>5. /\ Created' = Created
        /\ \A f \in Created : expectations'[f].ids = expectations[f].ids
        /\ \A s : Attached(s)' = Attached(s)
        /\ \A s : \A f \in Attached(s) : IdOf(f, s)' = IdOf(f, s)
    <2>1. Created' = Created
      BY <1>4 DEF Created
    <2>2. \A f \in Created : expectations'[f].ids = expectations[f].ids
      BY <1>3, <1>4
    <2> QED BY <2>1, <2>2 DEF Attached, IdOf
  <1>6. \A s \in DOMAIN x.ids : /\ e \in Attached(s)
                                /\ IdOf(e, s) = x.ids[s]
                                /\ x.ids[s] \in 0 .. sequence[s].size - 1
    BY <1>1 DEF IInv, IdsFollowCreation, Attached, IdOf, IsValid
  <1>7. \A s \in SequenceNames :
           /\ IsSequence(moved[s])
           /\ moved[s].size = sequence[s].size
           /\ moved[s].entries = sequence[s].entries
           /\ moved[s].cursor = IF s \in DOMAIN x.ids THEN x.ids[s]
                                                      ELSE sequence[s].cursor
    <2> SUFFICES ASSUME NEW s \in SequenceNames
                 PROVE  /\ IsSequence(moved[s])
                        /\ moved[s].size = sequence[s].size
                        /\ moved[s].entries = sequence[s].entries
                        /\ moved[s].cursor = IF s \in DOMAIN x.ids THEN x.ids[s]
                                                      ELSE sequence[s].cursor
      OBVIOUS
    <2>1. IsSequence(sequence[s])
      BY DEF IInv, TypeOK
    <2>2. CASE s \in DOMAIN x.ids
      <3>1. moved[s] = Consume(sequence[s], x.ids[s])
        BY <2>2 DEF ConsumeInSequences
      <3> QED BY <2>1, <2>2, <3>1, <1>6, ConsumeEffect
    <2>3. CASE s \notin DOMAIN x.ids
      BY <2>1, <2>3 DEF ConsumeInSequences
    <2> QED BY <2>2, <2>3
  <1>8. \A s \in SequenceNames :
           /\ IsSequence(sequence'[s])
           /\ sequence'[s].size = sequence[s].size
           /\ sequence'[s].cursor = IF s \in DOMAIN x.ids THEN x.ids[s]
                                                          ELSE sequence[s].cursor
           /\ \A i \in 0 .. sequence[s].size - 1 :
                 sequence'[s].entries[i] =
                    IF /\ s \in DOMAIN x.ids
                       /\ i = x.ids[s]
                       /\ x.count + 1 \in {x.min, x.max}
                    THEN IF x.count + 1 = x.min THEN "satisfied" ELSE "saturated"
                    ELSE sequence[s].entries[i]
    <2> SUFFICES ASSUME NEW s \in SequenceNames
                 PROVE  /\ IsSequence(sequence'[s])
                        /\ sequence'[s].size = sequence[s].size
                        /\ sequence'[s].cursor = IF s \in DOMAIN x.ids THEN x.ids[s]
                                                          ELSE sequence[s].cursor
                        /\ \A i \in 0 .. sequence[s].size - 1 :
                              sequence'[s].entries[i] =
                                 IF /\ s \in DOMAIN x.ids
                                    /\ i = x.ids[s]
                                    /\ x.count + 1 \in {x.min, x.max}
                                 THEN IF x.count + 1 = x.min THEN "satisfied"
                                                             ELSE "saturated"
                                 ELSE sequence[s].entries[i]
      OBVIOUS
    <2>1. sequence' = UpdateSequenceStates(moved, y)
      BY DEF ConsumeExpectation
    <2>2. s \in DOMAIN y.ids => y.ids[s] \in 0 .. moved[s].size - 1
      BY <1>3, <1>6, <1>7
    <2>3. LET new == UpdateSequenceStates(moved, y)[s]
              mark == IF y.count = y.min THEN "satisfied" ELSE "saturated"
          IN  /\ IsSequence(new)
              /\ new.size = moved[s].size
              /\ new.cursor = moved[s].cursor
              /\ \A i \in 0 .. moved[s].size - 1 :
                    new.entries[i] =
                       IF /\ s \in DOMAIN y.ids
                          /\ i = y.ids[s]
                          /\ y.count \in {y.min, y.max}
                       THEN mark ELSE moved[s].entries[i]
      <3> HIDE DEF moved, y
      <3> QED BY <1>7, <2>2, UpdateEffect
    <2> QED BY <2>1, <2>3, <1>3, <1>7
  <1>9. TypeOK'
    <2>1. DOMAIN sequence' = SequenceNames
      BY DEF ConsumeExpectation, UpdateSequenceStates
    <2>2. asserted' \in BOOLEAN
      BY DEF ConsumeExpectation
    <2>3. held' \in [SequenceNames -> BOOLEAN]
      BY DEF IInv, TypeOK
    <2> QED BY <1>4, <1>8, <2>1, <2>2, <2>3 DEF TypeOK
  <1>10. AssertionsHold'
    <2>1. ConsumeInSequencesAsserts(x)
      BY <1>2, <1>6 DEF ConsumeInSequencesAsserts, ConsumeAsserts, IsValid
    <2>2. UpdateAsserts(moved, y)
      <3> SUFFICES ASSUME NEW s \in DOMAIN x.ids
                   PROVE  IF y.count = y.min
                          THEN SetSatisfiedAsserts(moved[s], x.ids[s])
                          ELSE y.count = y.max =>
                                  SetSaturatedAsserts(moved[s], x.ids[s])
        BY <1>3 DEF UpdateAsserts
      <3>1. s \in SequenceNames
        BY <1>1
      <3>2. sequence[s].entries[x.ids[s]] =
              IF x.count < x.min THEN "unsatisfied"
              ELSE IF x.count = x.max /\ x.min < x.max THEN "saturated"
              ELSE "satisfied"
        BY DEF IInv, EntriesFollowCounts
      <3>3. /\ IsValid(moved[s], x.ids[s])
            /\ moved[s].cursor <= x.ids[s]
            /\ moved[s].entries[x.ids[s]] = sequence[s].entries[x.ids[s]]
        BY <1>6, <1>7, <3>1 DEF IsValid
      <3>4. x.count < x.min \/ moved[s].entries[x.ids[s]] = "satisfied"
        BY <1>1, <1>2, <3>2, <3>3
      <3>5. y.count = y.min => moved[s].entries[x.ids[s]] = "unsatisfied"
        BY <1>1, <1>3, <3>2, <3>3
      <3>6. moved[s].entries[x.ids[s]] \in {"unsatisfied", "satisfied"}
        BY <1>1, <1>2, <3>2, <3>3
      <3> HIDE DEF moved, y
      <3> QED BY <3>3, <3>5, <3>6 DEF SetSatisfiedAsserts, SetSaturatedAsserts
    <2> QED BY <1>2, <2>1, <2>2 DEF ConsumeExpectation, AssertionsHold, IInv
  <1>11. PassedEntriesAreDone'
    <2> SUFFICES ASSUME NEW s \in SequenceNames,
                        NEW i \in 0 .. sequence'[s].cursor - 1
                 PROVE  MayBePassed(sequence'[s].entries[i])
      BY DEF PassedEntriesAreDone
    <2>1. /\ sequence[s].cursor \in Nat /\ sequence[s].size \in Nat
          /\ sequence'[s].cursor \in Nat
          /\ i \in 0 .. sequence[s].size - 1
      BY <1>8 DEF IInv, TypeOK, IsSequence
    <2>2. sequence'[s].entries[i] = sequence[s].entries[i]
      BY <1>8, <2>1
    <2>3. MayBePassed(sequence[s].entries[i])
      <3>1. CASE i < sequence[s].cursor
        BY <2>1, <3>1 DEF IInv, PassedEntriesAreDone
      <3>2. CASE ~ (i < sequence[s].cursor)
        BY <1>2, <1>8, <2>1, <3>2 DEF IsConsumable
      <3> QED BY <3>1, <3>2
    <2> QED BY <2>2, <2>3
  <1>12. EntriesFollowCounts'
    <2> SUFFICES ASSUME NEW f \in Created, NEW s \in DOMAIN expectations[f].ids
                 PROVE  LET z == expectations'[f] IN
                        sequence'[s].entries[z.ids[s]] =
                          IF z.count < z.min THEN "unsatisfied"
                          ELSE IF z.count = z.max /\ z.min < z.max
                               THEN "saturated" ELSE "satisfied"
      BY <1>5 DEF EntriesFollowCounts
    <2>1. /\ s \in SequenceNames
          /\ f \in Attached(s)
          /\ expectations[f].ids[s] = IdOf(f, s)
          /\ IdOf(f, s) \in 0 .. sequence[s].size - 1
      BY ExpectationFields
         DEF IInv, IdsFollowCreation, Attached, IdOf, IsValid
    <2>2. sequence[s].entries[expectations[f].ids[s]] =
            IF expectations[f].count < expectations[f].min THEN "unsatisfied"
            ELSE IF /\ expectations[f].count = expectations[f].max
                    /\ expectations[f].min < expectations[f].max
                 THEN "saturated" ELSE "satisfied"
      BY DEF IInv, EntriesFollowCounts
    <2>3. CASE f = e
      <3>1. sequence'[s].entries[x.ids[s]] =
              IF x.count + 1 \in {x.min, x.max}
              THEN IF x.count + 1 = x.min THEN "satisfied" ELSE "saturated"
              ELSE sequence[s].entries[x.ids[s]]
        BY <1>8, <2>1, <2>3
      <3>2. expectations'[f] = y
        BY <1>4, <2>3
      <3> HIDE DEF y
      <3> QED BY <1>1, <1>2, <1>3, <2>2, <2>3, <3>1, <3>2
    <2>4. CASE f # e
      <3>1. s \in DOMAIN x.ids => IdOf(f, s) # x.ids[s]
        <4> SUFFICES ASSUME s \in DOMAIN x.ids PROVE IdOf(f, s) # IdOf(e, s)
          BY <1>6
        <4>1. f < e => IdOf(f, s) < IdOf(e, s)
          BY <1>6, <2>1 DEF IInv, IdsFollowCreation
        <4>2. e < f => IdOf(e, s) < IdOf(f, s)
          BY <1>6, <2>1 DEF IInv, IdsFollowCreation
        <4>3. e \in Int /\ f \in Int
          BY DEF Created
        <4>4. IdOf(e, s) \in Int /\ IdOf(f, s) \in Int
          BY <1>6, <2>1
        <4> QED BY <4>1, <4>2, <4>3, <4>4, <2>4
      <3>2. sequence'[s].entries[IdOf(f, s)] = sequence[s].entries[IdOf(f, s)]
        BY <1>8, <2>1, <3>1
      <3>3. expectations'[f] = expectations[f]
        BY <1>4, <2>4
      <3> QED BY <2>1, <2>2, <3>2, <3>3
    <2> QED BY <2>3, <2>4
  <1>13. IdsFollowCreation'
    BY <1>4, <1>5, <1>8 DEF IInv, IdsFollowCreation, IsValid
  <1>14. CursorIsLastMatched'
    <2> SUFFICES ASSUME NEW s \in SequenceNames
                 PROVE  /\ \A f \in Attached(s) :
                              expectations'[f].count > 0 =>
                                 IdOf(f, s) <= sequence'[s].cursor
                        /\ \/ sequence'[s].cursor = 0
                           \/ \E f \in Attached(s) :
                                 /\ IdOf(f, s) = sequence'[s].cursor
                                 /\ expectations'[f].count > 0
      BY <1>5 DEF CursorIsLastMatched
    <2>1. \A f \in Attached(s) : f \in Created /\ IdOf(f, s) \in Nat
      BY ExpectationFields DEF IInv, Attached
    <2>2. sequence[s].cursor \in Nat
      BY DEF IInv, TypeOK, IsSequence
    <2>3. \A f \in Attached(s) :
             expectations[f].count > 0 => IdOf(f, s) <= sequence[s].cursor
      BY DEF IInv, CursorIsLastMatched
    <2>4. CASE s \in DOMAIN x.ids
      <3>1. sequence'[s].cursor = IdOf(e, s) /\ e \in Attached(s)
        BY <1>6, <1>8, <2>4
      <3>2. sequence[s].cursor <= IdOf(e, s)
        BY <1>2, <1>6, <2>4 DEF IsConsumable
      <3>3. expectations'[e].count > 0
        <4>1. expectations'[e] = y
          BY <1>4
        <4>2. y.count > 0
          <5> HIDE DEF x, y
          <5> QED BY <1>1, <1>3
        <4> HIDE DEF y
        <4> QED BY <4>1, <4>2
      <3>4. \A f \in Attached(s) : f # e => expectations'[f] = expectations[f]
        BY <1>4, <2>1
      <3>5. IdOf(e, s) \in Nat
        BY <2>1, <3>1
      <3> HIDE DEF x, y, moved
      <3> QED BY <2>1, <2>2, <2>3, <3>1, <3>2, <3>3, <3>4, <3>5
    <2>5. CASE s \notin DOMAIN x.ids
      <3>1. sequence'[s].cursor = sequence[s].cursor
        BY <1>8, <2>5
      <3>2. \A f \in Attached(s) : expectations'[f] = expectations[f]
        BY <1>4, <2>5 DEF Attached
      <3> QED BY <2>3, <3>1, <3>2 DEF IInv, CursorIsLastMatched
    <2> QED BY <2>4, <2>5
  <1>15. \A f \in Created' : /\ expectations'[f].min <= expectations'[f].max
                             /\ expectations'[f].count <= expectations'[f].max
    <2>1. y.min <= y.max /\ y.count <= y.max
      <3> HIDE DEF x, y
      <3> QED BY <1>1, <1>2, <1>3
    <2> HIDE DEF y
    <2> QED BY <2>1, <1>4, <1>5 DEF IInv
  <1> QED BY <1>9, <1>10, <1>11, <1>12, <1>13, <1>14, <1>15 DEF IInv

\* A new expectation keeps the invariant.
LEMMA ExpectKeepsIInv ==
    ASSUME IInv, NEW times \in TimesConfig, NEW S \in SUBSET SequenceNames,
           Expect(times, S)
    PROVE  IInv'
  <1> DEFINE x == [min |-> times[1], max |-> times[2], count |-> 0,
                   ids |-> [s \in S |-> sequence[s].size], alive |-> TRUE]
             added == [s \in SequenceNames |->
                         IF s \in S THEN Add(sequence[s]) ELSE sequence[s]]
  <1>1. /\ times[1] \in 0 .. MaxTimes /\ times[2] \in 0 .. MaxTimes
        /\ times[1] <= times[2]
    BY DEF TimesConfig
  <1>2. /\ Len(expectations) \in Nat
        /\ Len(expectations) < MaxExpectations
    BY LenProperties DEF Expect, IInv, TypeOK
  <1>0. PICK n \in Nat : n = Len(expectations) + 1
    BY <1>2
  <1>3. \A s \in SequenceNames : /\ IsSequence(sequence[s])
                                 /\ sequence[s].size \in 0 .. Len(expectations)
                                 /\ sequence[s].cursor \in Nat
    BY <1>2 DEF IInv, TypeOK, IdsFollowCreation, IsSequence
  <1>4. /\ x.min = times[1] /\ x.max = times[2] /\ x.count = 0
        /\ DOMAIN x.ids = S
        /\ \A s \in S : x.ids[s] = sequence[s].size
    OBVIOUS
  <1>5. x \in ExpectationRecord
    <2>1. x.ids \in [S -> 0 .. MaxExpectations]
      BY <1>2, <1>3, BoundsAssumption
    <2>2. x.ids \in UNION {[T -> 0 .. MaxExpectations] : T \in SUBSET SequenceNames}
      <3> HIDE DEF x
      <3> QED BY <2>1
    <2> QED BY <1>1, <2>2, BoundsAssumption DEF ExpectationRecord
  <1>6. /\ expectations' \in Seq(ExpectationRecord)
        /\ Len(expectations') = n
        /\ expectations'[n] = x
        /\ \A f \in Created : expectations'[f] = expectations[f]
        /\ Created' = Created \cup {n}
        /\ \A f \in Created : f < n
    <2>1. expectations' = Append(expectations, x)
      BY DEF Expect
    <2>2. expectations \in Seq(ExpectationRecord)
      BY DEF IInv, TypeOK
    <2> HIDE DEF x
    <2>3. /\ expectations' \in Seq(ExpectationRecord)
          /\ Len(expectations') = n
          /\ expectations'[n] = x
          /\ \A f \in Created : expectations'[f] = expectations[f]
      BY <1>0, <1>5, <2>1, <2>2, AppendProperties DEF Created
    <2> QED BY <1>0, <1>2, <2>3 DEF Created
  <1>7. /\ \A s : Attached(s)' = IF s \in S THEN Attached(s) \cup {n} ELSE Attached(s)
        /\ \A s : \A f \in Attached(s) : f \in Created /\ IdOf(f, s)' = IdOf(f, s)
        /\ \A s \in S : IdOf(n, s)' = sequence[s].size
    <2>1. n \notin Created
      BY <1>0, <1>2 DEF Created
    <2> HIDE DEF x
    <2> QED BY <1>4, <1>6, <2>1 DEF Attached, IdOf
  <1>8. \A s \in SequenceNames :
           /\ IsSequence(added[s])
           /\ added[s].size = sequence[s].size + (IF s \in S THEN 1 ELSE 0)
           /\ added[s].cursor = sequence[s].cursor
           /\ \A i \in 0 .. sequence[s].size - 1 :
                 added[s].entries[i] = sequence[s].entries[i]
           /\ s \in S => added[s].entries[sequence[s].size] = "unsatisfied"
    <2> SUFFICES ASSUME NEW s \in SequenceNames
                 PROVE  /\ IsSequence(added[s])
                        /\ added[s].size = sequence[s].size + (IF s \in S THEN 1 ELSE 0)
                        /\ added[s].cursor = sequence[s].cursor
                        /\ \A i \in 0 .. sequence[s].size - 1 :
                              added[s].entries[i] = sequence[s].entries[i]
                        /\ s \in S => added[s].entries[sequence[s].size] = "unsatisfied"
      OBVIOUS
    <2>1. CASE s \in S
      <3>1. added[s] = Add(sequence[s])
        BY <2>1
      <3> HIDE DEF added
      <3> QED BY <1>3, <2>1, <3>1, AddEffect
    <2>2. CASE s \notin S
      <3>1. added[s] = sequence[s]
        BY <2>2
      <3> HIDE DEF added
      <3> QED BY <1>3, <2>2, <3>1
    <2> QED BY <2>1, <2>2
  <1>9. \A s \in SequenceNames :
           /\ IsSequence(sequence'[s])
           /\ sequence'[s].size = sequence[s].size + (IF s \in S THEN 1 ELSE 0)
           /\ sequence'[s].cursor = sequence[s].cursor
           /\ \A i \in 0 .. sequence[s].size - 1 :
                 sequence'[s].entries[i] = sequence[s].entries[i]
           /\ s \in S => sequence'[s].entries[sequence[s].size] =
                            IF x.count = x.min THEN "satisfied"
                            ELSE IF x.count = x.max THEN "saturated"
                            ELSE "unsatisfied"
    <2> SUFFICES ASSUME NEW s \in SequenceNames
                 PROVE  /\ IsSequence(sequence'[s])
                        /\ sequence'[s].size = sequence[s].size + (IF s \in S THEN 1 ELSE 0)
                        /\ sequence'[s].cursor = sequence[s].cursor
                        /\ \A i \in 0 .. sequence[s].size - 1 :
                              sequence'[s].entries[i] = sequence[s].entries[i]
                        /\ s \in S => sequence'[s].entries[sequence[s].size] =
                                         IF x.count = x.min THEN "satisfied"
                                         ELSE IF x.count = x.max THEN "saturated"
                                         ELSE "unsatisfied"
      OBVIOUS
    <2>1. sequence' = UpdateSequenceStates(added, x)
      BY DEF Expect
    <2>2. s \in DOMAIN x.ids => x.ids[s] \in 0 .. added[s].size - 1
      <3> HIDE DEF x, added
      <3> QED BY <1>3, <1>4, <1>8
    <2> HIDE DEF x, added
    <2>3. LET new == UpdateSequenceStates(added, x)[s]
              mark == IF x.count = x.min THEN "satisfied" ELSE "saturated"
          IN  /\ IsSequence(new)
              /\ new.size = added[s].size
              /\ new.cursor = added[s].cursor
              /\ \A i \in 0 .. added[s].size - 1 :
                    new.entries[i] =
                       IF /\ s \in DOMAIN x.ids
                          /\ i = x.ids[s]
                          /\ x.count \in {x.min, x.max}
                       THEN mark ELSE added[s].entries[i]
      BY <1>8, <2>2, UpdateEffect
    <2> QED BY <1>3, <1>4, <1>8, <2>1, <2>3
  <1>10. TypeOK'
    <2>1. DOMAIN sequence' = SequenceNames
      BY DEF Expect, UpdateSequenceStates
    <2>2. asserted' \in BOOLEAN /\ report'.kind = "none"
      BY DEF Expect, Quiet
    <2>3. held' \in [SequenceNames -> BOOLEAN]
      BY DEF IInv, TypeOK, Expect
    <2> QED BY <1>6, <1>9, <2>1, <2>2, <2>3 DEF TypeOK
  <1>11. AssertionsHold'
    <2>1. UpdateAsserts(added, x)
      <3> SUFFICES ASSUME NEW s \in S
                   PROVE  /\ SetSatisfiedAsserts(added[s], x.ids[s])
                          /\ SetSaturatedAsserts(added[s], x.ids[s])
        BY <1>4 DEF UpdateAsserts
      <3>1. /\ x.ids[s] = sequence[s].size
            /\ added[s].size = sequence[s].size + 1
            /\ added[s].cursor = sequence[s].cursor
            /\ added[s].entries[x.ids[s]] = "unsatisfied"
        <4> HIDE DEF x, added
        <4> QED BY <1>4, <1>8
      <3>2. sequence[s].cursor <= sequence[s].size /\ sequence[s].size \in Nat
        BY <1>3 DEF IsSequence
      <3> HIDE DEF x, added
      <3> QED BY <3>1, <3>2 DEF SetSatisfiedAsserts, SetSaturatedAsserts, IsValid
    <2> QED BY <2>1 DEF Expect, AssertionsHold, IInv
  <1>12. PassedEntriesAreDone'
    <2> SUFFICES ASSUME NEW s \in SequenceNames,
                        NEW i \in 0 .. sequence'[s].cursor - 1
                 PROVE  MayBePassed(sequence'[s].entries[i])
      BY DEF PassedEntriesAreDone
    <2>1. i \in 0 .. sequence[s].cursor - 1 /\ i \in 0 .. sequence[s].size - 1
      BY <1>3, <1>9 DEF IsSequence
    <2> QED BY <1>9, <2>1 DEF IInv, PassedEntriesAreDone
  <1>13. EntriesFollowCounts'
    <2> SUFFICES ASSUME NEW f \in Created', NEW s \in DOMAIN expectations'[f].ids
                 PROVE  LET z == expectations'[f] IN
                        sequence'[s].entries[z.ids[s]] =
                          IF z.count < z.min THEN "unsatisfied"
                          ELSE IF z.count = z.max /\ z.min < z.max
                               THEN "saturated" ELSE "satisfied"
      BY DEF EntriesFollowCounts
    <2>1. CASE f = n
      <3>1. expectations'[f] = x
        BY <1>6, <2>1
      <3>2. s \in S /\ s \in SequenceNames /\ x.ids[s] = sequence[s].size
        BY <1>4, <3>1
      <3> HIDE DEF x
      <3> QED BY <1>1, <1>4, <1>9, <3>1, <3>2
    <2>2. CASE f \in Created
      <3>1. expectations'[f] = expectations[f]
        BY <1>6, <2>2
      <3>2. s \in SequenceNames /\ f \in Attached(s)
        BY ExpectationFields, <2>2, <3>1 DEF IInv, Attached
      <3>3. expectations[f].ids[s] \in 0 .. sequence[s].size - 1
        BY <3>2 DEF IInv, IdsFollowCreation, IsValid, IdOf
      <3>4. sequence[s].entries[expectations[f].ids[s]] =
              IF expectations[f].count < expectations[f].min THEN "unsatisfied"
              ELSE IF /\ expectations[f].count = expectations[f].max
                      /\ expectations[f].min < expectations[f].max
                   THEN "saturated" ELSE "satisfied"
        BY <2>2, <3>1 DEF IInv, EntriesFollowCounts
      <3> QED BY <1>9, <3>1, <3>2, <3>3, <3>4
    <2> QED BY <1>6, <2>1, <2>2
  <1>14. IdsFollowCreation'
    <2> SUFFICES ASSUME NEW s \in SequenceNames
                 PROVE  /\ sequence'[s].size <= Len(expectations')
                        /\ \A e \in Attached(s)' :
                              IdOf(e, s)' \in 0 .. sequence'[s].size - 1
                        /\ \A e, f \in Attached(s)' :
                              e < f => IdOf(e, s)' < IdOf(f, s)'
                        /\ \A i \in 0 .. sequence'[s].size - 1 :
                              \E e \in Attached(s)' : IdOf(e, s)' = i
      BY DEF IdsFollowCreation, IsValid
    <2>1. /\ \A e \in Attached(s) : IdOf(e, s) \in 0 .. sequence[s].size - 1
          /\ \A e, f \in Attached(s) : e < f => IdOf(e, s) < IdOf(f, s)
          /\ \A i \in 0 .. sequence[s].size - 1 :
                \E e \in Attached(s) : IdOf(e, s) = i
      BY DEF IInv, IdsFollowCreation, IsValid
    <2>2. sequence'[s].size <= Len(expectations')
      BY <1>0, <1>2, <1>3, <1>6, <1>9
    <2>3. CASE s \notin S
      <3>1. /\ Attached(s)' = Attached(s)
            /\ sequence'[s].size = sequence[s].size
        BY <1>3, <1>7, <1>9, <2>3
      <3> QED BY <1>7, <2>1, <2>2, <3>1
    <2>4. CASE s \in S
      <3>1. /\ Attached(s)' = Attached(s) \cup {n}
            /\ sequence'[s].size = sequence[s].size + 1
            /\ IdOf(n, s)' = sequence[s].size
        BY <1>7, <1>9, <2>4
      <3>2. \A e \in Attached(s) : e < n /\ e \in Nat
        BY <1>6, <1>7 DEF Created
      <3>3. \A e \in Attached(s)' : IdOf(e, s)' \in 0 .. sequence'[s].size - 1
        BY <1>3, <1>7, <2>1, <3>1
      <3>4. ASSUME NEW e \in Attached(s)', NEW f \in Attached(s)', e < f
            PROVE  IdOf(e, s)' < IdOf(f, s)'
        <4>1. e \in Attached(s)
          BY <1>0, <1>2, <3>1, <3>2, <3>4
        <4>2. CASE f \in Attached(s)
          BY <1>7, <2>1, <3>4, <4>1, <4>2
        <4>3. CASE f = n
          <5>1. IdOf(e, s)' = IdOf(e, s)
            BY <1>7, <4>1
          <5>2. IdOf(e, s) \in 0 .. sequence[s].size - 1
            BY <2>1, <4>1
          <5>3. IdOf(f, s)' = sequence[s].size
            BY <3>1, <4>3
          <5> QED BY <1>3, <5>1, <5>2, <5>3
        <4> QED BY <3>1, <4>2, <4>3
      <3>5. \A i \in 0 .. sequence'[s].size - 1 :
               \E e \in Attached(s)' : IdOf(e, s)' = i
        <4> SUFFICES ASSUME NEW i \in 0 .. sequence'[s].size - 1
                     PROVE  \E e \in Attached(s)' : IdOf(e, s)' = i
          OBVIOUS
        <4>1. CASE i = sequence[s].size
          BY <3>1, <4>1
        <4>2. CASE i # sequence[s].size
          <5>1. i \in 0 .. sequence[s].size - 1
            BY <1>3, <3>1, <4>2
          <5> QED BY <1>7, <2>1, <3>1, <5>1
        <4> QED BY <4>1, <4>2
      <3> QED BY <2>2, <3>3, <3>4, <3>5
    <2> QED BY <2>3, <2>4
  <1>15. CursorIsLastMatched'
    <2> SUFFICES ASSUME NEW s \in SequenceNames
                 PROVE  /\ \A f \in Attached(s)' :
                              expectations'[f].count > 0 =>
                                 IdOf(f, s)' <= sequence'[s].cursor
                        /\ \/ sequence'[s].cursor = 0
                           \/ \E f \in Attached(s)' :
                                 /\ IdOf(f, s)' = sequence'[s].cursor
                                 /\ expectations'[f].count > 0
      BY DEF CursorIsLastMatched
    <2>1. expectations'[n].count = 0
      BY <1>4, <1>6
    <2>2. \A f \in Attached(s)' : f = n \/ f \in Attached(s)
      BY <1>7
    <2>3. \A f \in Attached(s) : /\ f \in Attached(s)'
                                 /\ IdOf(f, s)' = IdOf(f, s)
                                 /\ expectations'[f] = expectations[f]
      BY <1>6, <1>7
    <2>4. sequence'[s].cursor = sequence[s].cursor
      BY <1>9
    <2> HIDE DEF x, added
    <2> QED BY <2>1, <2>2, <2>3, <2>4 DEF IInv, CursorIsLastMatched
  <1>16. \A f \in Created' : /\ expectations'[f].min <= expectations'[f].max
                             /\ expectations'[f].count <= expectations'[f].max
    <2>1. x.min <= x.max /\ x.count <= x.max
      BY <1>1, <1>4
    <2> HIDE DEF x
    <2> QED BY <1>6, <2>1 DEF IInv
  <1> QED BY <1>10, <1>11, <1>12, <1>13, <1>14, <1>15, <1>16 DEF IInv

\* Destroying an expectation or releasing a sequence changes neither
\* counts nor entries.
LEMMA OtherStepsKeepIInv ==
    ASSUME IInv,
           \/ \E e \in Created : DestroyExpectation(e)
           \/ \E s \in SequenceNames : ReleaseSequence(s)
           \/ \E accepting \in SUBSET Alive : CallRejected(accepting)
           \/ UNCHANGED vars
    PROVE  IInv'
  <1>1. /\ expectations' \in Seq(ExpectationRecord)
        /\ Len(expectations') = Len(expectations)
        /\ \A f \in Created : /\ expectations'[f].min = expectations[f].min
                              /\ expectations'[f].max = expectations[f].max
                              /\ expectations'[f].count = expectations[f].count
                              /\ expectations'[f].ids = expectations[f].ids
    <2>1. ASSUME NEW e \in Created, DestroyExpectation(e)
          PROVE  /\ expectations' \in Seq(ExpectationRecord)
                 /\ Len(expectations') = Len(expectations)
                 /\ \A f \in Created :
                       /\ expectations'[f].min = expectations[f].min
                       /\ expectations'[f].max = expectations[f].max
                       /\ expectations'[f].count = expectations[f].count
                       /\ expectations'[f].ids = expectations[f].ids
      <3> DEFINE y == [expectations[e] EXCEPT !.alive = FALSE]
      <3>1. expectations' = [expectations EXCEPT ![e] = y]
        BY <2>1 DEF DestroyExpectation
      <3>2. expectations[e] \in ExpectationRecord
        BY ExpectationFields DEF IInv
      <3>3. /\ y \in ExpectationRecord
            /\ y.min = expectations[e].min /\ y.max = expectations[e].max
            /\ y.count = expectations[e].count /\ y.ids = expectations[e].ids
        BY <3>2 DEF ExpectationRecord
      <3> HIDE DEF y
      <3>4. /\ expectations' \in Seq(ExpectationRecord)
            /\ Len(expectations') = Len(expectations)
            /\ \A f \in Created :
                  expectations'[f] = IF f = e THEN y ELSE expectations[f]
        BY <3>1, <3>3, ExceptSeq DEF IInv, TypeOK, Created
      <3> QED BY <3>3, <3>4
    <2>2. CASE expectations' = expectations
      BY <2>2 DEF IInv, TypeOK
    <2> QED BY <2>1, <2>2 DEF ReleaseSequence, CallRejected, vars
  <1>2. /\ Created' = Created
        /\ \A s : Attached(s)' = Attached(s)
        /\ \A s : \A f \in Attached(s) : IdOf(f, s)' = IdOf(f, s)
        /\ \A s : \A f \in Attached(s) : f \in Created
    BY <1>1 DEF Created, Attached, IdOf
  <1>3. sequence' = sequence /\ asserted' = asserted
    BY DEF DestroyExpectation, ReleaseSequence, CallRejected, vars
  <1>4. held' \in [SequenceNames -> BOOLEAN]
    BY DEF IInv, TypeOK, DestroyExpectation, ReleaseSequence, CallRejected, vars
  <1>5. report'.kind \in {"none", "full_match", "inapplicable_matches",
                          "no_matches", "unfulfilled_expectation"}
    <2>1. ASSUME NEW e \in Created, DestroyExpectation(e)
          PROVE  report'.kind \in {"none", "unfulfilled_expectation"}
      BY <2>1 DEF DestroyExpectation
    <2>2. ASSUME NEW s \in SequenceNames, ReleaseSequence(s)
          PROVE  report'.kind = "none"
      BY <2>2 DEF ReleaseSequence, Quiet
    <2>3. ASSUME NEW accepting \in SUBSET Alive, CallRejected(accepting)
          PROVE  report'.kind \in {"inapplicable_matches", "no_matches"}
      BY <2>3 DEF CallRejected, Quiet
    <2>4. ASSUME UNCHANGED vars PROVE report' = report
      BY <2>4 DEF vars
    <2> QED BY <2>1, <2>2, <2>3, <2>4 DEF IInv, TypeOK
  <1>6. TypeOK'
    BY <1>1, <1>3, <1>4, <1>5 DEF IInv, TypeOK
  <1>7. AssertionsHold' /\ PassedEntriesAreDone'
    BY <1>3 DEF IInv, AssertionsHold, PassedEntriesAreDone
  <1>8. EntriesFollowCounts'
    BY <1>1, <1>2, <1>3 DEF IInv, EntriesFollowCounts
  <1>9. IdsFollowCreation'
    BY <1>1, <1>2, <1>3 DEF IInv, IdsFollowCreation
  <1>10. CursorIsLastMatched'
    BY <1>1, <1>2, <1>3 DEF IInv, CursorIsLastMatched
  <1> QED BY <1>1, <1>2, <1>6, <1>7, <1>8, <1>9, <1>10 DEF IInv

\* IInv is inductive: type correctness, agreement of entries and counts,
\* and nothing unfinished behind a cursor, in every reachable state.
THEOREM Invariance == Spec => []IInv
  <1>1. Init => IInv
    BY InitIInv
  <1>2. IInv /\ [Next]_vars => IInv'
    <2> SUFFICES ASSUME IInv, [Next]_vars PROVE IInv'
      OBVIOUS
    <2>1. ASSUME NEW times \in TimesConfig, NEW S \in SUBSET SequenceNames,
                 Expect(times, S)
          PROVE  IInv'
      BY <2>1, ExpectKeepsIInv
    <2>2. ASSUME NEW accepting \in SUBSET Alive, CallMatched(accepting)
          PROVE  IInv'
      <3>1. PICK e \in Applicable(accepting) :
               /\ ConsumeExpectation(e)
               /\ report' = [Quiet EXCEPT !.kind = "full_match"]
               /\ UNCHANGED held
        BY <2>2 DEF CallMatched
      <3>2. /\ e \in Created
            /\ ControlState(expectations[e]) = "applicable"
        BY DEF Applicable, Alive
      <3>3. report'.kind = "full_match"
        BY <3>1 DEF Quiet
      <3> QED BY <3>1, <3>2, <3>3, ConsumeKeepsIInv
    <2> QED BY <2>1, <2>2, OtherStepsKeepIInv DEF Next
  <1> QED BY <1>1, <1>2, PTL DEF Spec

\* Cursors, entries and ids stay within their sequences and counts within
\* their limits (Sequence.hpp:212-213, ControlPolicies.hpp:222-227).
THEOREM TypesHold == Spec => []TypeOK
  <1>1. IInv => TypeOK
    BY DEF IInv
  <1> QED BY <1>1, Invariance, PTL

-----------------------------------------------------------------------------
(* What the invariant means for matching *)

\* An entry may be passed exactly when its expectation has had its minimum.
LEMMA DoneMeansMinimum ==
    ASSUME IInv, NEW s \in SequenceNames, NEW f \in Attached(s)
    PROVE  /\ f \in Created
           /\ IdOf(f, s) \in 0 .. sequence[s].size - 1
           /\ MayBePassed(sequence[s].entries[IdOf(f, s)]) <=>
                 expectations[f].count >= expectations[f].min
  <1>1. f \in Created /\ s \in DOMAIN expectations[f].ids
    BY DEF Attached
  <1>2. sequence[s].entries[IdOf(f, s)] =
          IF expectations[f].count < expectations[f].min THEN "unsatisfied"
          ELSE IF /\ expectations[f].count = expectations[f].max
                  /\ expectations[f].min < expectations[f].max
               THEN "saturated" ELSE "satisfied"
    BY <1>1 DEF IInv, EntriesFollowCounts, IdOf
  <1>3. expectations[f].count \in Nat /\ expectations[f].min \in Nat
    BY <1>1, ExpectationFields DEF IInv
  <1>4. IdOf(f, s) \in 0 .. sequence[s].size - 1
    BY DEF IInv, IdsFollowCreation, IsValid
  <1> QED BY <1>1, <1>2, <1>3, <1>4 DEF MayBePassed

\* One sequence finds the entry of an unfinished expectation consumable
\* exactly when everything attached before has had its minimum and nothing
\* attached after has been matched.
LEMMA ConsumableExactlyInTurn ==
    ASSUME IInv, NEW s \in SequenceNames, NEW e \in Attached(s),
           expectations[e].count < expectations[e].max
    PROVE  IsConsumable(sequence[s], IdOf(e, s)) <=>
             \A f \in Attached(s) :
                /\ f < e => expectations[f].count >= expectations[f].min
                /\ f > e => expectations[f].count = 0
  <1> DEFINE seq == sequence[s]
             InTurn == \A f \in Attached(s) :
                /\ f < e => expectations[f].count >= expectations[f].min
                /\ f > e => expectations[f].count = 0
  <1>1. \A f \in Attached(s) : /\ f \in Created /\ f \in Int
                               /\ expectations[f].count \in Nat
                               /\ IdOf(f, s) \in 0 .. seq.size - 1
                               /\ MayBePassed(seq.entries[IdOf(f, s)]) <=>
                                     expectations[f].count >= expectations[f].min
    BY DoneMeansMinimum, ExpectationFields DEF IInv, Attached, Created
  <1>2. seq.cursor \in Nat /\ seq.size \in Nat
    BY DEF IInv, TypeOK, IsSequence
  <1>3. \A f, g \in Attached(s) : f < g => IdOf(f, s) < IdOf(g, s)
    BY DEF IInv, IdsFollowCreation
  <1>4. ASSUME IsConsumable(seq, IdOf(e, s)) PROVE InTurn
    <2>1. /\ seq.cursor <= IdOf(e, s)
          /\ \A i \in seq.cursor .. IdOf(e, s) - 1 : MayBePassed(seq.entries[i])
      BY <1>4 DEF IsConsumable
    <2>2. ASSUME NEW f \in Attached(s), f < e
          PROVE  expectations[f].count >= expectations[f].min
      <3>1. IdOf(f, s) < IdOf(e, s)
        BY <1>3, <2>2
      <3>2. CASE IdOf(f, s) < seq.cursor
        <4>1. IdOf(f, s) \in 0 .. seq.cursor - 1
          BY <1>1, <1>2, <3>2
        <4> QED BY <1>1, <4>1 DEF IInv, PassedEntriesAreDone
      <3>3. CASE ~ (IdOf(f, s) < seq.cursor)
        <4>1. IdOf(f, s) \in seq.cursor .. IdOf(e, s) - 1
          BY <1>1, <1>2, <3>1, <3>3
        <4> QED BY <1>1, <2>1, <4>1
      <3> QED BY <3>2, <3>3
    <2>3. ASSUME NEW f \in Attached(s), f > e
          PROVE  expectations[f].count = 0
      <3>1. IdOf(e, s) < IdOf(f, s)
        BY <1>1, <1>3, <2>3
      <3>2. expectations[f].count > 0 => IdOf(f, s) <= seq.cursor
        BY DEF IInv, CursorIsLastMatched
      <3> QED BY <1>1, <1>2, <2>1, <3>1, <3>2
    <2> QED BY <2>2, <2>3
  <1>5. ASSUME InTurn PROVE IsConsumable(seq, IdOf(e, s))
    <2>1. seq.cursor <= IdOf(e, s)
      <3>1. CASE seq.cursor = 0
        BY <1>1, <3>1
      <3>2. CASE seq.cursor # 0
        <4>1. PICK f \in Attached(s) : /\ IdOf(f, s) = seq.cursor
                                       /\ expectations[f].count > 0
          BY <3>2 DEF IInv, CursorIsLastMatched
        <4>2. ~ (f > e)
          BY <1>5, <4>1
        <4>3. f < e \/ f = e
          BY <1>1, <4>2
        <4> QED BY <1>1, <1>3, <4>1, <4>3
      <3> QED BY <3>1, <3>2
    <2>2. ASSUME NEW i \in seq.cursor .. IdOf(e, s) - 1
          PROVE  MayBePassed(seq.entries[i])
      <3>1. i \in 0 .. seq.size - 1 /\ i < IdOf(e, s)
        BY <1>1, <1>2
      <3>2. PICK f \in Attached(s) : IdOf(f, s) = i
        BY <3>1 DEF IInv, IdsFollowCreation
      <3>3. f < e
        <4>1. ~ (e < f) /\ f # e
          BY <1>1, <1>3, <3>1, <3>2
        <4> QED BY <1>1, <4>1
      <3> QED BY <1>1, <1>5, <3>2, <3>3
    <2>3. seq.entries[IdOf(e, s)] \in {"unsatisfied", "satisfied"}
      <3>1. e \in Created /\ s \in DOMAIN expectations[e].ids
        BY DEF Attached
      <3>2. expectations[e].count # expectations[e].max
        BY <3>1, ExpectationFields DEF IInv
      <3> QED BY <3>1, <3>2 DEF IInv, EntriesFollowCounts, IdOf
    <2> QED BY <2>1, <2>2, <2>3 DEF IsConsumable
  <1> QED BY <1>4, <1>5

\* The same for all sequences of an expectation at once.
LEMMA ApplicableMeansInTurn ==
    ASSUME IInv, NEW e \in Created
    PROVE  ControlState(expectations[e]) = "applicable" <=>
             /\ expectations[e].count < expectations[e].max
             /\ \A s \in DOMAIN expectations[e].ids : \A f \in Attached(s) :
                   /\ f < e => expectations[f].count >= expectations[f].min
                   /\ f > e => expectations[f].count = 0
  <1>1. /\ DOMAIN expectations[e].ids \subseteq SequenceNames
        /\ expectations[e].count \in Nat /\ expectations[e].max \in Nat
        /\ expectations[e].count <= expectations[e].max
    BY ExpectationFields DEF IInv
  <1>2. ControlState(expectations[e]) = "applicable" <=>
          /\ expectations[e].count # expectations[e].max
          /\ \A s \in DOMAIN expectations[e].ids :
                IsConsumable(sequence[s], IdOf(e, s))
    BY DEF ControlState, IdOf
  <1>3. \A s \in DOMAIN expectations[e].ids : s \in SequenceNames /\ e \in Attached(s)
    BY <1>1 DEF Attached
  <1> QED BY <1>1, <1>2, <1>3, ConsumableExactlyInTurn

\* Every assertion of the sequence and control policy code holds in every
\* reachable state.
THEOREM AssertionsNeverFail == Spec => []AssertionsHold
  <1>1. IInv => AssertionsHold
    BY DEF IInv
  <1> QED BY <1>1, Invariance, PTL

\* With any number of sequences and expectations, the oldest unsatisfied
\* expectation is never locked out.
THEOREM NoLockout == Spec => []OldestUnsatisfiedIsApplicable
  <1>1. IInv => OldestUnsatisfiedIsApplicable
    <2> SUFFICES ASSUME IInv, NEW e \in Alive,
                        ~ IsSatisfied(expectations[e]),
                        \A f \in 1 .. e - 1 :
                           (DOMAIN expectations[f].ids) \cap (DOMAIN expectations[e].ids) # {}
                              => IsSatisfied(expectations[f])
                 PROVE  IsApplicable(expectations[e])
      BY DEF OldestUnsatisfiedIsApplicable
    <2>1. e \in Created /\ Len(expectations) \in Nat
      BY LenProperties DEF Alive, IInv, TypeOK
    <2>2. /\ expectations[e].count \in Nat
          /\ expectations[e].min \in Nat /\ expectations[e].max \in Nat
          /\ expectations[e].count <= expectations[e].max
          /\ expectations[e].min <= expectations[e].max
          /\ DOMAIN expectations[e].ids \subseteq SequenceNames
      BY <2>1, ExpectationFields DEF IInv
    <2>3. expectations[e].count < expectations[e].min
      BY <2>2 DEF IsSatisfied
    <2>4. ASSUME NEW s \in DOMAIN expectations[e].ids, NEW f \in Attached(s)
          PROVE  /\ f < e => expectations[f].count >= expectations[f].min
                 /\ f > e => expectations[f].count = 0
      <3>1. s \in SequenceNames /\ e \in Attached(s) /\ f \in Created
        BY <2>1, <2>2 DEF Attached
      <3>2. /\ expectations[f].count \in Nat /\ expectations[f].min \in Nat
            /\ e \in Int /\ f \in Int
        BY <2>1, <3>1, ExpectationFields DEF IInv, Created
      <3>3. ASSUME f < e PROVE expectations[f].count >= expectations[f].min
        <4>1. f \in 1 .. e - 1
          BY <2>1, <3>1, <3>3 DEF Created
        <4>2. s \in (DOMAIN expectations[f].ids) \cap (DOMAIN expectations[e].ids)
          BY DEF Attached
        <4>3. IsSatisfied(expectations[f])
          BY <4>1, <4>2
        <4> QED BY <3>2, <4>3 DEF IsSatisfied
      <3>4. ASSUME f > e, expectations[f].count # 0 PROVE FALSE
        <4>1. IdOf(e, s) < IdOf(f, s)
          BY <3>1, <3>2, <3>4 DEF IInv, IdsFollowCreation
        <4>2. IdOf(f, s) <= sequence[s].cursor
          BY <3>1, <3>2, <3>4 DEF IInv, CursorIsLastMatched
        <4>3. /\ IdOf(e, s) \in 0 .. sequence[s].size - 1
              /\ IdOf(f, s) \in 0 .. sequence[s].size - 1
              /\ MayBePassed(sequence[s].entries[IdOf(e, s)]) <=>
                    expectations[e].count >= expectations[e].min
          BY <3>1, DoneMeansMinimum
        <4>4. sequence[s].cursor \in Nat
          BY <3>1 DEF IInv, TypeOK, IsSequence
        <4>5. IdOf(e, s) \in 0 .. sequence[s].cursor - 1
          BY <4>1, <4>2, <4>3, <4>4
        <4>6. MayBePassed(sequence[s].entries[IdOf(e, s)])
          BY <3>1, <4>5 DEF IInv, PassedEntriesAreDone
        <4> QED BY <2>2, <2>3, <4>3, <4>6
      <3> QED BY <3>3, <3>4
    <2>5. expectations[e].count < expectations[e].max
      BY <2>2, <2>3
    <2>6. ControlState(expectations[e]) = "applicable"
      BY <2>1, <2>4, <2>5, ApplicableMeansInTurn
    <2> QED BY <2>1, <2>6, ApplicableIsApplicable
  <1> QED BY <1>1, Invariance, PTL

-----------------------------------------------------------------------------
(* The documented ordering is implemented *)

\* InTurn of the abstract specification, in terms of the concrete state.
LEMMA OrderedInTurn ==
    ASSUME IInv, NEW e \in Created
    PROVE  Ordered!InTurn(e) <=>
             /\ expectations[e].alive
             /\ ControlState(expectations[e]) = "applicable"
  <1>1. Len(expectations) \in Nat
    BY LenProperties DEF IInv, TypeOK
  <1>2. 1 .. Len(Promises) = Created
    BY <1>1 DEF Created, Promises
  <1>3. \A f \in Created : /\ Promises[f].min = expectations[f].min
                           /\ Promises[f].max = expectations[f].max
                           /\ Promises[f].count = expectations[f].count
                           /\ Promises[f].in = DOMAIN expectations[f].ids
                           /\ Promises[f].alive = expectations[f].alive
    BY DEF Promise, Promises
  <1>4. Ordered!InTurn(e) <=>
          /\ Promises[e].alive
          /\ Promises[e].count < Promises[e].max
          /\ \A f \in 1 .. Len(Promises) :
                Promises[e].in \cap Promises[f].in # {} =>
                   /\ f < e => Promises[f].count >= Promises[f].min
                   /\ f > e => Promises[f].count = 0
    BY DEF Ordered!InTurn
  <1>5. Ordered!InTurn(e) <=>
          /\ expectations[e].alive
          /\ expectations[e].count < expectations[e].max
          /\ \A f \in Created :
                (DOMAIN expectations[e].ids) \cap (DOMAIN expectations[f].ids) # {} =>
                   /\ f < e => expectations[f].count >= expectations[f].min
                   /\ f > e => expectations[f].count = 0
    BY <1>2, <1>3, <1>4
  <1>6. (\A f \in Created :
            (DOMAIN expectations[e].ids) \cap (DOMAIN expectations[f].ids) # {} =>
               /\ f < e => expectations[f].count >= expectations[f].min
               /\ f > e => expectations[f].count = 0)
        <=> (\A s \in DOMAIN expectations[e].ids : \A f \in Attached(s) :
               /\ f < e => expectations[f].count >= expectations[f].min
               /\ f > e => expectations[f].count = 0)
    BY DEF Attached
  <1> QED BY <1>5, <1>6, ApplicableMeansInTurn

\* An expectation is used only in its turn, and refused only out of turn.
THEOREM ExactlyInTurn == Spec => []ApplicableExactlyInTurn
  <1>1. IInv => ApplicableExactlyInTurn
    BY OrderedInTurn DEF ApplicableExactlyInTurn, Alive
  <1> QED BY <1>1, Invariance, PTL

\* SequencedExpectations implements OrderedExpectations.
THEOREM Refinement == Spec => OrderedSpec
  <1>1. Init => Ordered!Init
    <2> SUFFICES ASSUME Init PROVE Promises = << >>
      BY DEF Ordered!Init
    <2>1. Created = {}
      BY EmptySeq DEF Init, Created
    <2> QED BY <2>1 DEF Promises
  <1>2. IInv /\ [Next]_vars => [Ordered!Next]_Promises
    <2> SUFFICES ASSUME IInv, [Next]_vars
                 PROVE  Ordered!Next \/ Promises' = Promises
      OBVIOUS
    <2>1. Len(expectations) \in Nat /\ expectations \in Seq(ExpectationRecord)
      BY LenProperties DEF IInv, TypeOK
    <2>2. ASSUME NEW times \in TimesConfig, NEW S \in SUBSET SequenceNames,
                 Expect(times, S)
          PROVE  Ordered!Next
      <3> DEFINE x == [min |-> times[1], max |-> times[2], count |-> 0,
                       ids |-> [s \in S |-> sequence[s].size], alive |-> TRUE]
      <3>1. /\ expectations' = Append(expectations, x)
            /\ times[1] \in 0 .. MaxTimes /\ times[2] \in 0 .. MaxTimes
            /\ times[1] <= times[2]
        BY <2>2 DEF Expect, TimesConfig
      <3>2. Promise(x) = [min |-> times[1], max |-> times[2], count |-> 0,
                          in |-> S, alive |-> TRUE]
        BY DEF Promise
      <3> HIDE DEF x
      <3>3. /\ Len(expectations') = Len(expectations) + 1
            /\ expectations'[Len(expectations) + 1] = x
            /\ \A f \in 1 .. Len(expectations) : expectations'[f] = expectations[f]
        BY <2>1, <3>1
      <3>4. Promises' = Append(Promises, Promise(x))
        BY <2>1, <3>3 DEF Created, Promises
      <3>5. Ordered!Promised(times[1], times[2], S)
        BY <3>1, <3>2, <3>4 DEF Ordered!Promised
      <3> QED BY <3>1, <3>5 DEF Ordered!Next
    <2>3. ASSUME NEW accepting \in SUBSET Alive, CallMatched(accepting)
          PROVE  Ordered!Next
      <3>1. PICK e \in Applicable(accepting) : ConsumeExpectation(e)
        BY <2>3 DEF CallMatched
      <3>2. /\ e \in Created
            /\ expectations[e].alive
            /\ ControlState(expectations[e]) = "applicable"
        BY DEF Applicable, Alive
      <3>3. Ordered!InTurn(e)
        BY <3>2, OrderedInTurn
      <3>4. Promises' = [Promises EXCEPT ![e].count = @ + 1]
        <4> DEFINE y == [expectations[e] EXCEPT !.count = @ + 1]
        <4>1. expectations[e] \in ExpectationRecord
          BY <3>2, ExpectationFields DEF IInv
        <4>2. expectations' = [expectations EXCEPT ![e] = y]
          BY <3>1 DEF ConsumeExpectation
        <4>3. Promise(y) = [Promise(expectations[e]) EXCEPT !.count = @ + 1]
          BY <4>1 DEF Promise, ExpectationRecord
        <4> HIDE DEF y
        <4>4. /\ Created' = Created
              /\ \A f \in Created : expectations'[f] = IF f = e THEN y ELSE expectations[f]
          BY <2>1, <4>2 DEF Created
        <4>5. Promises' = [f \in Created |-> Promise(IF f = e THEN y ELSE expectations[f])]
          BY <4>4 DEF Promises
        <4> QED BY <3>2, <4>3, <4>5 DEF Promises
      <3>5. Ordered!Matched(e)
        BY <3>3, <3>4 DEF Ordered!Matched
      <3>6. e \in 1 .. Len(Promises)
        BY <2>1, <3>2 DEF Created, Promises
      <3> QED BY <3>5, <3>6 DEF Ordered!Next
    <2>4. ASSUME NEW e \in Created, DestroyExpectation(e)
          PROVE  Ordered!Next
      <3> DEFINE y == [expectations[e] EXCEPT !.alive = FALSE]
      <3>1. expectations[e] \in ExpectationRecord
        BY ExpectationFields DEF IInv
      <3>2. /\ expectations' = [expectations EXCEPT ![e] = y]
            /\ expectations[e].alive
        BY <2>4 DEF DestroyExpectation
      <3>3. Promise(y) = [Promise(expectations[e]) EXCEPT !.alive = FALSE]
        <4>1. /\ y.min = expectations[e].min /\ y.max = expectations[e].max
              /\ y.count = expectations[e].count /\ y.ids = expectations[e].ids
              /\ y.alive = FALSE
          BY <3>1 DEF ExpectationRecord
        <4> HIDE DEF y
        <4>2. Promise(y) = [min |-> expectations[e].min, max |-> expectations[e].max,
                            count |-> expectations[e].count,
                            in |-> DOMAIN expectations[e].ids, alive |-> FALSE]
          BY <4>1 DEF Promise
        <4>3. \A g : [Promise(expectations[e]) EXCEPT !.alive = g] =
                       [min |-> expectations[e].min, max |-> expectations[e].max,
                        count |-> expectations[e].count,
                        in |-> DOMAIN expectations[e].ids, alive |-> g]
          BY DEF Promise
        <4> QED BY <4>2, <4>3
      <3> HIDE DEF y
      <3>4. /\ Created' = Created
            /\ \A f \in Created : expectations'[f] = IF f = e THEN y ELSE expectations[f]
        BY <2>1, <3>2 DEF Created
      <3>5. Promises' = [f \in Created |-> Promise(IF f = e THEN y ELSE expectations[f])]
        BY <3>4 DEF Promises
      <3>6. Promises' = [Promises EXCEPT ![e].alive = FALSE]
        BY <3>3, <3>5 DEF Promises
      <3>7. Promises[e].alive /\ e \in 1 .. Len(Promises)
        BY <2>1, <3>2 DEF Promise, Created, Promises
      <3>8. Ordered!Dropped(e)
        BY <3>6, <3>7 DEF Ordered!Dropped
      <3> QED BY <3>7, <3>8 DEF Ordered!Next
    <2>5. ASSUME expectations' = expectations PROVE Promises' = Promises
      BY <2>5 DEF Created, Promises
    <2>6. \/ \E s \in SequenceNames : ReleaseSequence(s)
          \/ \E accepting \in SUBSET Alive : CallRejected(accepting)
          \/ UNCHANGED vars
          => expectations' = expectations
      BY DEF ReleaseSequence, CallRejected, vars
    <2> QED BY <2>2, <2>3, <2>4, <2>5, <2>6 DEF Next
  <1> QED BY <1>1, <1>2, Invariance, PTL DEF Spec, OrderedSpec, Ordered!Spec

-----------------------------------------------------------------------------
(* What a dying sequence reports *)

\* An entry may be passed exactly when its expectation is satisfied: none
\* has been matched too often.
LEMMA EntriesShowSatisfaction ==
    ASSUME IInv, NEW s \in SequenceNames, NEW e \in Attached(s)
    PROVE  /\ IdOf(e, s) \in 0 .. sequence[s].size - 1
           /\ MayBePassed(sequence[s].entries[IdOf(e, s)]) <=>
                 IsSatisfied(expectations[e])
  <1>1. /\ e \in Created
        /\ IdOf(e, s) \in 0 .. sequence[s].size - 1
        /\ MayBePassed(sequence[s].entries[IdOf(e, s)]) <=>
              expectations[e].count >= expectations[e].min
    BY DoneMeansMinimum
  <1>2. expectations[e].count <= expectations[e].max
    BY <1>1 DEF IInv
  <1>3. expectations[e].count \in Nat /\ expectations[e].min \in Nat
    BY <1>1, ExpectationFields DEF IInv
  <1> QED BY <1>1, <1>2, <1>3 DEF IsSatisfied

\* The destructor's search from the cursor on finds an entry exactly when
\* some expectation of the sequence missed its minimum.
LEMMA UnfulfilledMeansUnsatisfied ==
    ASSUME IInv, NEW s \in SequenceNames
    PROVE  Unfulfilled(sequence[s]) # {} <=>
             \E e \in Attached(s) : ~ IsSatisfied(expectations[e])
  <1>1. sequence[s].cursor \in Nat /\ sequence[s].size \in Nat
    BY DEF IInv, TypeOK, IsSequence
  <1>2. ASSUME NEW e \in Attached(s)
        PROVE  /\ IdOf(e, s) \in 0 .. sequence[s].size - 1
               /\ MayBePassed(sequence[s].entries[IdOf(e, s)]) <=>
                     IsSatisfied(expectations[e])
    BY EntriesShowSatisfaction
  <1>3. ASSUME NEW i \in Unfulfilled(sequence[s])
        PROVE  \E e \in Attached(s) : ~ IsSatisfied(expectations[e])
    <2>1. i \in 0 .. sequence[s].size - 1 /\ ~ MayBePassed(sequence[s].entries[i])
      BY <1>1 DEF Unfulfilled
    <2>2. PICK e \in Attached(s) : IdOf(e, s) = i
      BY <2>1 DEF IInv, IdsFollowCreation
    <2> QED BY <1>2, <2>1, <2>2
  <1>4. ASSUME NEW e \in Attached(s), ~ IsSatisfied(expectations[e])
        PROVE  IdOf(e, s) \in Unfulfilled(sequence[s])
    <2>1. /\ IdOf(e, s) \in 0 .. sequence[s].size - 1
          /\ ~ MayBePassed(sequence[s].entries[IdOf(e, s)])
      BY <1>2, <1>4
    <2>2. IdOf(e, s) \notin 0 .. sequence[s].cursor - 1
      BY <2>1 DEF IInv, PassedEntriesAreDone
    <2> QED BY <1>1, <2>1, <2>2 DEF Unfulfilled
  <1> QED BY <1>3, <1>4

\* The sequences that report when a set of them dies.
LEMMA WhichSequencesReport ==
    ASSUME IInv, NEW S \in SUBSET SequenceNames
    PROVE  \A s : s \in DOMAIN SequenceErrors(S) <=>
              s \in S /\ \E e \in Attached(s) : ~ IsSatisfied(expectations[e])
  BY UnfulfilledMeansUnsatisfied DEF SequenceErrors

\* A sequence reports an error when it dies exactly if one of the
\* expectations ever attached to it missed its minimum.
THEOREM SequenceErrors_Correct == Spec => SequenceErrorIffUnfulfilled
  <1> DEFINE Due == \A s \in SequenceNames :
          /\ s \in DOMAIN report'.errors => IsDestroyed(s)'
          /\ IsDestroyed(s)' /\ ~ IsDestroyed(s) =>
                (s \in DOMAIN report'.errors <=>
                    \E e \in Attached(s) : ~ IsSatisfied(expectations[e]))
  <1>1. IInv /\ [Next]_vars => [Due]_vars
    <2> SUFFICES ASSUME IInv, Next PROVE Due
      OBVIOUS
    <2>1. Len(expectations) \in Nat /\ expectations \in Seq(ExpectationRecord)
      BY LenProperties DEF IInv, TypeOK
    <2>2. ASSUME NEW e \in Created, DestroyExpectation(e) PROVE Due
      <3> DEFINE y == [expectations[e] EXCEPT !.alive = FALSE]
                 D == {s \in DOMAIN expectations[e].ids :
                         ~ held[s] /\ \A f \in Alive : s \in DOMAIN expectations[f].ids
                                                           => f = e}
      <3>1. /\ expectations' = [expectations EXCEPT ![e] = y]
            /\ report'.errors = SequenceErrors(D)
            /\ held' = held
        BY <2>2 DEF DestroyExpectation
      <3>2. expectations[e] \in ExpectationRecord
            /\ DOMAIN expectations[e].ids \subseteq SequenceNames
        BY ExpectationFields DEF IInv
      <3>3. y.ids = expectations[e].ids /\ y.alive = FALSE
        BY <3>2 DEF ExpectationRecord
      <3> HIDE DEF y
      <3>4. /\ Created' = Created
            /\ \A f \in Created : expectations'[f] = IF f = e THEN y ELSE expectations[f]
        BY <2>1, <3>1 DEF Created
      <3>5. /\ \A s : Attached(s)' = Attached(s)
            /\ \A f \in Created : expectations'[f].alive <=> (expectations[f].alive /\ f # e)
        BY <3>3, <3>4 DEF Attached
      <3>6. ASSUME NEW s \in SequenceNames
            PROVE  /\ s \in D => IsDestroyed(s)'
                   /\ IsDestroyed(s)' /\ ~ IsDestroyed(s) => s \in D
        BY <3>1, <3>5 DEF IsDestroyed, Attached, Alive
      <3>7. D \in SUBSET SequenceNames
        BY <3>2
      <3>8. \A s : s \in DOMAIN SequenceErrors(D) <=>
               s \in D /\ \E f \in Attached(s) : ~ IsSatisfied(expectations[f])
        BY <3>7, WhichSequencesReport
      <3> HIDE DEF D
      <3> QED BY <3>1, <3>6, <3>8
    <2>3. ASSUME NEW t \in SequenceNames, ReleaseSequence(t) PROVE Due
      <3> DEFINE D == {s \in {t} : \A e \in Attached(s) : ~ expectations[e].alive}
      <3>1. /\ expectations' = expectations
            /\ report'.errors = SequenceErrors(D)
            /\ held' = [held EXCEPT ![t] = FALSE]
        BY <2>3 DEF ReleaseSequence, Quiet
      <3>2. held \in [SequenceNames -> BOOLEAN]
        BY DEF IInv, TypeOK
      <3>3. \A s : Attached(s)' = Attached(s)
        BY <3>1 DEF Attached, Created
      <3>4. ASSUME NEW s \in SequenceNames
            PROVE  /\ s \in D => IsDestroyed(s)'
                   /\ IsDestroyed(s)' /\ ~ IsDestroyed(s) => s \in D
        BY <3>1, <3>2, <3>3 DEF IsDestroyed
      <3>5. \A s : s \in DOMAIN SequenceErrors(D) <=>
               s \in D /\ \E f \in Attached(s) : ~ IsSatisfied(expectations[f])
        BY WhichSequencesReport
      <3> HIDE DEF D
      <3> QED BY <3>1, <3>4, <3>5
    <2>4. ASSUME /\ report'.errors = << >>
                 /\ held' = held
                 /\ Created \subseteq Created'
                 /\ \A e \in Created : /\ expectations'[e].alive = expectations[e].alive
                                       /\ expectations'[e].ids = expectations[e].ids
          PROVE  Due
      <3>1. DOMAIN report'.errors = {}
        BY <2>4
      <3>2. \A s : IsDestroyed(s)' => IsDestroyed(s)
        BY <2>4 DEF IsDestroyed, Attached
      <3> QED BY <3>1, <3>2
    <2>5. ASSUME NEW times \in TimesConfig, NEW S \in SUBSET SequenceNames,
                 Expect(times, S)
          PROVE  Due
      <3> DEFINE x == [min |-> times[1], max |-> times[2], count |-> 0,
                       ids |-> [s \in S |-> sequence[s].size], alive |-> TRUE]
      <3>1. /\ expectations' = Append(expectations, x)
            /\ report'.errors = << >> /\ held' = held
        BY <2>5 DEF Expect, Quiet
      <3> HIDE DEF x
      <3>2. /\ Created \subseteq Created'
            /\ \A e \in Created : expectations'[e] = expectations[e]
        BY <2>1, <3>1 DEF Created
      <3> QED BY <2>4, <3>1, <3>2
    <2>6. ASSUME NEW accepting \in SUBSET Alive, CallMatched(accepting) PROVE Due
      <3>1. PICK e \in Applicable(accepting) :
               /\ ConsumeExpectation(e)
               /\ report' = [Quiet EXCEPT !.kind = "full_match"]
               /\ held' = held
        BY <2>6 DEF CallMatched
      <3> DEFINE y == [expectations[e] EXCEPT !.count = @ + 1]
      <3>2. e \in Created
        BY DEF Applicable, Alive
      <3>3. expectations' = [expectations EXCEPT ![e] = y]
        BY <3>1 DEF ConsumeExpectation
      <3>4. y.ids = expectations[e].ids /\ y.alive = expectations[e].alive
        BY <3>2, ExpectationFields DEF IInv, ExpectationRecord
      <3> HIDE DEF y
      <3>5. /\ Created' = Created
            /\ \A f \in Created : expectations'[f] = IF f = e THEN y ELSE expectations[f]
        BY <2>1, <3>3 DEF Created
      <3>6. report'.errors = << >>
        BY <3>1 DEF Quiet
      <3> QED BY <2>4, <3>1, <3>4, <3>5, <3>6
    <2>7. ASSUME NEW accepting \in SUBSET Alive, CallRejected(accepting) PROVE Due
      <3>1. /\ report'.errors = << >> /\ held' = held
            /\ expectations' = expectations
        BY <2>7 DEF CallRejected, Quiet
      <3> QED BY <2>4, <3>1 DEF Created
    <2> HIDE DEF Due
    <2> QED BY <2>2, <2>3, <2>5, <2>6, <2>7 DEF Next
  <1> QED BY <1>1, Invariance, PTL DEF Spec, SequenceErrorIffUnfulfilled

-----------------------------------------------------------------------------
(* What the error of a sequence counts *)

\* The message of an unfulfilled sequence says how many of its expectations
\* are satisfied (Sequence.hpp:104), and the number it prints need not be
\* that (ErrorCountsSatisfied).  What it does tell: the expectations attached
\* first, as many as it says, are satisfied, and the next one is not.
ErrorCountsSatisfiedFirst ==
    \A s \in DOMAIN report.errors :
        \E next \in Attached(s) :
            LET before == {e \in Attached(s) : e < next} IN
            /\ ~ IsSatisfied(expectations[next])
            /\ \A e \in before : IsSatisfied(expectations[e])
            /\ report.errors[s] = Cardinality(before)

\* The id of an expectation in a sequence says how many were attached before.
LEMMA IdsCount ==
    ASSUME IInv, NEW s \in SequenceNames, NEW e \in Attached(s)
    PROVE  Cardinality({f \in Attached(s) : f < e}) = IdOf(e, s)
  <1> DEFINE before == {f \in Attached(s) : f < e}
             ids == 0 .. IdOf(e, s) - 1
             id == [f \in before |-> IdOf(f, s)]
  <1>1. /\ sequence[s].size \in Nat
        /\ \A f \in Attached(s) : f \in Nat /\ IdOf(f, s) \in 0 .. sequence[s].size - 1
    BY DoneMeansMinimum DEF IInv, TypeOK, IsSequence, Created
  <1>2. \A f, g \in Attached(s) : f < g => IdOf(f, s) < IdOf(g, s)
    BY DEF IInv, IdsFollowCreation
  <1>3. IsFiniteSet(before)
    <2>1. before \subseteq 0 .. e
      BY <1>1
    <2>2. IsFiniteSet(0 .. e)
      BY <1>1, FS_Interval
    <2> HIDE DEF before
    <2> QED BY <2>1, <2>2, FS_Subset
  <1>4. id \in [before -> ids]
    BY <1>1, <1>2
  <1>5. \A f, g \in before : id[f] = id[g] => f = g
    <2> SUFFICES ASSUME NEW f \in before, NEW g \in before, IdOf(f, s) = IdOf(g, s)
                 PROVE  f = g
      OBVIOUS
    <2>1. ~ (f < g) /\ ~ (g < f)
      BY <1>1, <1>2
    <2> QED BY <1>1, <2>1
  <1>6. \A i \in ids : \E f \in before : id[f] = i
    <2> SUFFICES ASSUME NEW i \in ids  PROVE \E f \in before : IdOf(f, s) = i
      OBVIOUS
    <2>1. i \in 0 .. sequence[s].size - 1 /\ i < IdOf(e, s)
      BY <1>1
    <2>2. PICK f \in Attached(s) : IdOf(f, s) = i
      BY <2>1 DEF IInv, IdsFollowCreation
    <2>3. ~ (e < f) /\ f # e
      BY <1>1, <1>2, <2>1, <2>2
    <2> QED BY <1>1, <2>2, <2>3
  <1>7. Cardinality(ids) = Cardinality(before)
    <2> HIDE DEF before, ids, id
    <2>1. id \in Bijection(before, ids)
      BY <1>4, <1>5, <1>6, Fun_IsBij
    <2>2. ExistsBijection(before, ids)
      BY <2>1 DEF ExistsBijection
    <2> QED BY <1>3, <2>2, FS_Bijection
  <1>8. Cardinality(ids) = IdOf(e, s)
    <2>1. \A n \in Nat : Cardinality(0 .. n - 1) = n
      <3> SUFFICES ASSUME NEW n \in Nat  PROVE Cardinality(0 .. n - 1) = n
        OBVIOUS
      <3>1. 0 \in Int /\ n - 1 \in Int
        OBVIOUS
      <3>2. Cardinality(0 .. n - 1) = IF 0 > n - 1 THEN 0 ELSE (n - 1) - 0 + 1
        BY Zenon, <3>1, FS_Interval
      <3> QED BY <3>2
    <2>2. IdOf(e, s) \in Nat
      BY <1>1
    <2> QED BY Zenon, <2>1, <2>2
  <1> HIDE DEF before, ids
  <1> QED BY <1>7, <1>8 DEF before

\* The first entry the destructor's search finds, in terms of expectations.
LEMMA ReportedIsFirstUnsatisfied ==
    ASSUME IInv, NEW s \in SequenceNames, Unfulfilled(sequence[s]) # {}
    PROVE  \E next \in Attached(s) :
             /\ ~ IsSatisfied(expectations[next])
             /\ \A e \in Attached(s) : e < next => IsSatisfied(expectations[e])
             /\ ReportedCount(sequence[s]) = Cardinality({e \in Attached(s) : e < next})
  <1> DEFINE missed == Unfulfilled(sequence[s])
             i == ReportedCount(sequence[s])
  <1>1. sequence[s].cursor \in Nat /\ sequence[s].size \in Nat
    BY DEF IInv, TypeOK, IsSequence
  <1>2. missed \in SUBSET Nat
    BY <1>1 DEF Unfulfilled
  <1>3. i \in missed /\ \A j \in missed : i <= j
    <2>1. \E n \in missed : \A j \in missed : n <= j
      BY <1>2, SmallestExists
    <2> QED BY <2>1 DEF ReportedCount
  <1>4. i \in 0 .. sequence[s].size - 1 /\ ~ MayBePassed(sequence[s].entries[i])
    <2> HIDE DEF i
    <2> QED BY <1>1, <1>3 DEF Unfulfilled
  <1>5. PICK next \in Attached(s) : IdOf(next, s) = i
    <2> HIDE DEF i
    <2> QED BY <1>4 DEF IInv, IdsFollowCreation
  <1>6. ASSUME NEW e \in Attached(s)
        PROVE  /\ IdOf(e, s) \in 0 .. sequence[s].size - 1
               /\ MayBePassed(sequence[s].entries[IdOf(e, s)]) <=>
                     IsSatisfied(expectations[e])
    BY EntriesShowSatisfaction
  <1>7. ~ IsSatisfied(expectations[next])
    <2> HIDE DEF i
    <2> QED BY <1>4, <1>5, <1>6
  <1>8. ASSUME NEW e \in Attached(s), e < next  PROVE IsSatisfied(expectations[e])
    <2>1. IdOf(e, s) < IdOf(next, s)
      BY <1>8 DEF IInv, IdsFollowCreation
    <2>2. ~ (i <= IdOf(e, s))
      <3> HIDE DEF i
      <3> QED BY <1>4, <1>5, <1>6, <2>1
    <2>3. IdOf(e, s) \notin missed
      BY Zenon, <1>3, <2>2
    <2>4. CASE IdOf(e, s) \in 0 .. sequence[s].cursor - 1
      BY <1>6, <2>4 DEF IInv, PassedEntriesAreDone
    <2>5. CASE IdOf(e, s) \notin 0 .. sequence[s].cursor - 1
      BY <1>1, <1>6, <2>3, <2>5 DEF Unfulfilled
    <2> QED BY <2>4, <2>5
  <1>9. Cardinality({e \in Attached(s) : e < next}) = i
    <2> HIDE DEF i
    <2> QED BY <1>5, IdsCount
  <1> HIDE DEF i
  <1> QED BY <1>7, <1>8, <1>9 DEF i

\* Whenever sequences report, what they print is the number of expectations
\* attached before the first one that missed its minimum.
THEOREM ErrorsCountSatisfiedFirst == Spec => []ErrorCountsSatisfiedFirst
  <1> DEFINE J == ErrorCountsSatisfiedFirst
  <1>1. Init => J
    BY DEF Init, Quiet, ErrorCountsSatisfiedFirst
  <1>2. IInv /\ J /\ [Next]_vars => J'
    <2> SUFFICES ASSUME IInv, J, [Next]_vars  PROVE J'
      OBVIOUS
    <2>1. Len(expectations) \in Nat /\ expectations \in Seq(ExpectationRecord)
      BY LenProperties DEF IInv, TypeOK
    <2>2. ASSUME NEW S \in SUBSET SequenceNames, report'.errors = SequenceErrors(S),
                 \A s : Attached(s)' = Attached(s),
                 \A e \in Created : /\ expectations'[e].min = expectations[e].min
                                    /\ expectations'[e].max = expectations[e].max
                                    /\ expectations'[e].count = expectations[e].count
          PROVE  J'
      <3> SUFFICES ASSUME NEW s \in DOMAIN report'.errors
                   PROVE  \E next \in Attached(s) :
                            /\ ~ IsSatisfied(expectations'[next])
                            /\ \A e \in {f \in Attached(s) : f < next} :
                                  IsSatisfied(expectations'[e])
                            /\ report'.errors[s] =
                                  Cardinality({e \in Attached(s) : e < next})
        BY Zenon, <2>2 DEF ErrorCountsSatisfiedFirst
      <3>1. /\ s \in SequenceNames /\ Unfulfilled(sequence[s]) # {}
            /\ report'.errors[s] = ReportedCount(sequence[s])
        BY <2>2 DEF SequenceErrors
      <3>2. \A e \in Attached(s) : IsSatisfied(expectations'[e]) <=>
                                     IsSatisfied(expectations[e])
        BY <2>2 DEF IsSatisfied, Attached
      <3>3. PICK next \in Attached(s) :
               /\ ~ IsSatisfied(expectations[next])
               /\ \A e \in Attached(s) : e < next => IsSatisfied(expectations[e])
               /\ ReportedCount(sequence[s]) = Cardinality({e \in Attached(s) : e < next})
        BY <3>1, ReportedIsFirstUnsatisfied
      <3> QED BY Zenon, <3>1, <3>2, <3>3
    <2>3. ASSUME NEW e \in Created, DestroyExpectation(e)  PROVE J'
      <3> DEFINE y == [expectations[e] EXCEPT !.alive = FALSE]
                 D == {s \in DOMAIN expectations[e].ids :
                         ~ held[s] /\ \A f \in Alive : s \in DOMAIN expectations[f].ids
                                                           => f = e}
      <3>1. /\ expectations' = [expectations EXCEPT ![e] = y]
            /\ report'.errors = SequenceErrors(D)
        BY <2>3 DEF DestroyExpectation
      <3>2. expectations[e] \in ExpectationRecord
            /\ DOMAIN expectations[e].ids \subseteq SequenceNames
        BY ExpectationFields DEF IInv
      <3>3. /\ y.ids = expectations[e].ids /\ y.count = expectations[e].count
            /\ y.min = expectations[e].min /\ y.max = expectations[e].max
        BY <3>2 DEF ExpectationRecord
      <3> HIDE DEF y
      <3>4. /\ Created' = Created
            /\ \A f \in Created : expectations'[f] = IF f = e THEN y ELSE expectations[f]
        BY <2>1, <3>1 DEF Created
      <3>5. \A s : Attached(s)' = Attached(s)
        BY <3>3, <3>4 DEF Attached
      <3>6. \A f \in Created : /\ expectations'[f].min = expectations[f].min
                               /\ expectations'[f].max = expectations[f].max
                               /\ expectations'[f].count = expectations[f].count
        BY <3>3, <3>4
      <3>7. D \in SUBSET SequenceNames
        BY <3>2
      <3> HIDE DEF D, J
      <3> QED BY <2>2, <3>1, <3>5, <3>6, <3>7
    <2>4. ASSUME NEW t \in SequenceNames, ReleaseSequence(t)  PROVE J'
      <3> DEFINE D == {s \in {t} : \A e \in Attached(s) : ~ expectations[e].alive}
      <3>1. expectations' = expectations /\ report'.errors = SequenceErrors(D)
        BY <2>4 DEF ReleaseSequence, Quiet
      <3>2. \A s : Attached(s)' = Attached(s)
        BY <3>1 DEF Attached, Created
      <3>3. D \in SUBSET SequenceNames
        OBVIOUS
      <3> HIDE DEF D, J
      <3> QED BY <2>2, <3>1, <3>2, <3>3
    <2>5. ASSUME report'.errors = << >>  PROVE J'
      <3>1. DOMAIN report'.errors = {}
        BY <2>5
      <3> QED BY <3>1 DEF ErrorCountsSatisfiedFirst
    <2>6. ASSUME NEW times \in TimesConfig, NEW S \in SUBSET SequenceNames,
                 Expect(times, S)
          PROVE  J'
      <3>1. report'.errors = << >>
        BY <2>6 DEF Expect, Quiet
      <3> HIDE DEF J
      <3> QED BY <2>5, <3>1
    <2>7. ASSUME NEW accepting \in SUBSET Alive,
                 CallMatched(accepting) \/ CallRejected(accepting)
          PROVE  J'
      <3>1. report'.errors = << >>
        BY <2>7 DEF CallMatched, CallRejected, Quiet
      <3> HIDE DEF J
      <3> QED BY <2>5, <3>1
    <2>8. CASE UNCHANGED vars
      <3>1. /\ report' = report /\ expectations' = expectations
            /\ \A s : Attached(s)' = Attached(s)
        BY <2>8 DEF vars, Attached, Created
      <3> QED BY Zenon, <3>1 DEF ErrorCountsSatisfiedFirst
    <2> HIDE DEF J
    <2> QED BY <2>3, <2>4, <2>6, <2>7, <2>8 DEF Next
  <1> QED BY <1>1, <1>2, Invariance, PTL DEF Spec

-----------------------------------------------------------------------------
(* What the order comes to *)

\* "The expectation, which gets attached first must match before all
\* subsequent expectations" (Sequence.hpp:40-41), of the whole history:
\* whoever has been matched in a sequence, all attached before have had
\* their minimum, also those that are gone.
MatchesInOrder ==
    \A e, f \in Created :
        /\ f < e /\ expectations[e].count > 0
        /\ (DOMAIN expectations[e].ids) \cap (DOMAIN expectations[f].ids) # {}
        => expectations[f].count >= expectations[f].min

\* Whatever was matched, destroyed or created since, no match ever turns out
\* to have been too early: the cursor does not move back, and is_consumable
\* has looked at every entry it has passed.
THEOREM MatchesKeepOrder == Spec => []MatchesInOrder
  <1>1. IInv => MatchesInOrder
    <2> SUFFICES ASSUME IInv, NEW e \in Created, NEW f \in Created,
                        f < e, expectations[e].count > 0,
                        NEW s \in DOMAIN expectations[e].ids,
                        s \in DOMAIN expectations[f].ids
                 PROVE  expectations[f].count >= expectations[f].min
      BY DEF MatchesInOrder
    <2>1. s \in SequenceNames /\ e \in Attached(s) /\ f \in Attached(s)
      BY ExpectationFields DEF IInv, Attached
    <2>2. IdOf(f, s) < IdOf(e, s) /\ IdOf(e, s) <= sequence[s].cursor
      BY <2>1 DEF IInv, IdsFollowCreation, CursorIsLastMatched
    <2>3. /\ IdOf(f, s) \in 0 .. sequence[s].size - 1
          /\ IdOf(e, s) \in 0 .. sequence[s].size - 1
          /\ MayBePassed(sequence[s].entries[IdOf(f, s)]) <=>
                expectations[f].count >= expectations[f].min
      BY <2>1, DoneMeansMinimum
    <2>4. sequence[s].cursor \in Nat /\ sequence[s].size \in Nat
      BY <2>1 DEF IInv, TypeOK, IsSequence
    <2>5. IdOf(f, s) \in 0 .. sequence[s].cursor - 1
      BY <2>2, <2>3, <2>4
    <2> QED BY <2>1, <2>3, <2>5 DEF IInv, PassedEntriesAreDone
  <1> QED BY <1>1, Invariance, PTL

-----------------------------------------------------------------------------
(* Which match a call is given to *)

\* The cursor of a sequence shifts its priorities alike, and ids follow the
\* order of creation: lazy sequences prefer the older match, the others the
\* newer one.
LEMMA RatingsCompare ==
    ASSUME IInv, NEW e \in Created, NEW f \in Created, f < e
    PROVE  StrategiesOrder(Ratings(expectations[e]), Ratings(expectations[f]),
                           LazySequences)
  <1> DEFINE lhs == Ratings(expectations[e])
             rhs == Ratings(expectations[f])
             In(g) == DOMAIN expectations[g].ids
  <1>1. DOMAIN lhs = In(e) /\ DOMAIN rhs = In(f)
    BY Zenon DEF Ratings
  <1>2. \A s \in In(e) \cap In(f) :
          /\ s \in LazySequences =>
                /\ lhs[s] = LazyPriority(IdOf(e, s), sequence[s].cursor)
                /\ rhs[s] = LazyPriority(IdOf(f, s), sequence[s].cursor)
          /\ s \notin LazySequences =>
                /\ lhs[s] = GreedyPriority(IdOf(e, s), sequence[s].cursor)
                /\ rhs[s] = GreedyPriority(IdOf(f, s), sequence[s].cursor)
    BY Zenon DEF Ratings, IdOf
  <1> HIDE DEF lhs, rhs
  <1>3. ASSUME NEW s \in In(e) \cap In(f)
        PROVE  lhs[s] < rhs[s] <=> s \in LazySequences
    <2>1. s \in SequenceNames /\ e \in Attached(s) /\ f \in Attached(s)
      BY ExpectationFields DEF IInv, Attached
    <2>2. IdOf(f, s) \in Nat /\ IdOf(e, s) \in Nat /\ IdOf(f, s) < IdOf(e, s)
      BY <2>1, ExpectationFields DEF IInv, IdsFollowCreation
    <2>3. sequence[s].cursor \in Nat
      BY <2>1 DEF IInv, TypeOK, IsSequence
    <2>4. CASE s \in LazySequences
      <3>1. /\ lhs[s] = LazyPriority(IdOf(e, s), sequence[s].cursor)
            /\ rhs[s] = LazyPriority(IdOf(f, s), sequence[s].cursor)
        BY Zenon, <1>2, <2>4
      <3> QED BY <2>2, <2>3, <2>4, <3>1 DEF LazyPriority, IntMax
    <2>5. CASE s \notin LazySequences
      <3>1. /\ lhs[s] = GreedyPriority(IdOf(e, s), sequence[s].cursor)
            /\ rhs[s] = GreedyPriority(IdOf(f, s), sequence[s].cursor)
        BY Zenon, <1>2, <2>5
      <3> QED BY <2>2, <2>3, <2>5, <3>1 DEF GreedyPriority
    <2> QED BY <2>4, <2>5
  <1>4. \A s \in DOMAIN lhs \cap DOMAIN rhs : lhs[s] < rhs[s] <=> s \in LazySequences
    BY Zenon, <1>1, <1>3
  <1> QED BY Zenon, <1>4 DEF StrategiesOrder, lhs, rhs

\* Calls are given to the match that the strategies promise, in every
\* state: priorities compare as the positions in the sequences do, and the
\* fold over has_better_rating ends at that match.
THEOREM StrategiesDecide == Spec => []CallsFollowStrategy
  <1>1. IInv => CallsFollowStrategy
    <2> SUFFICES ASSUME IInv, NEW accepting \in SUBSET Alive,
                        NEW matches, matches = Applicable(accepting), matches # {}
                 PROVE  FollowsStrategy([e \in Created |-> DOMAIN expectations[e].ids],
                                        LazySequences, matches, Best(matches))
      BY Zenon DEF CallsFollowStrategy
    <2> DEFINE attached == [e \in Created |-> DOMAIN expectations[e].ids]
               rating == [e \in matches |-> Ratings(expectations[e])]
    <2>1. matches \in SUBSET Int /\ matches \subseteq Created /\ IsFiniteSet(matches)
      <3>1. matches \subseteq Created
        BY DEF Applicable, Alive
      <3>2. Len(expectations) \in Nat
        BY DEF IInv, TypeOK
      <3>3. Created \subseteq Int /\ IsFiniteSet(Created)
        BY <3>2, FS_Interval DEF Created
      <3> QED BY <3>1, <3>3, FS_Subset
    <2>2. IsFiniteSet(SequenceNames)
      BY SequencesAssumption, FS_Union DEF SequenceNames
    <2>3. \A e \in matches : /\ attached[e] = DOMAIN expectations[e].ids
                             /\ rating[e] = Ratings(expectations[e])
      BY Zenon, <2>1
    <2> HIDE DEF attached, rating
    <2>4. ASSUME NEW e \in matches  PROVE AreRatingsOf(rating[e], attached[e])
      <3>1. attached[e] \subseteq SequenceNames
        BY <2>1, <2>3, ExpectationFields DEF IInv
      <3>2. IsFiniteSet(attached[e])
        BY <2>2, <3>1, FS_Subset
      <3>3. DOMAIN rating[e] = attached[e]
        BY Zenon, <2>3 DEF Ratings
      <3> QED BY Zenon, <3>2, <3>3 DEF AreRatingsOf
    <2>5. ASSUME NEW e \in matches, NEW f \in matches, f < e
          PROVE  StrategiesOrder(rating[e], rating[f], LazySequences)
      <3>1. StrategiesOrder(Ratings(expectations[e]), Ratings(expectations[f]),
                            LazySequences)
        BY <2>1, <2>5, RatingsCompare
      <3> QED BY Zenon, <2>3, <3>1
    <2>6. FollowsStrategy(attached, LazySequences, matches,
                          PickBestMatch(NewestFirst(matches), rating))
      BY <2>1, <2>4, <2>5, PickFollowsStrategy
    <2> QED BY Zenon, <2>6 DEF Best, attached, rating
  <1> QED BY <1>1, Invariance, PTL

\* Expectations that share a lazy sequence share all their sequences, most
\* of which are lazy: no expectation is in a second sequence, for instance.
LazyGoTogether ==
    \A s \in LazySequences : \A e, f \in Attached(s) :
        /\ DOMAIN expectations[e].ids = DOMAIN expectations[f].ids
        /\ LazyMajority(DOMAIN expectations[e].ids, LazySequences)

LazySkipsNoMatchTogether == LazyGoTogether => LazySkipsNoMatch

\* A lazy sequence "prefers not to skip sequence elements" (Sequence.hpp:70)
\* as long as its expectations are all in the same sequences; it takes one
\* in a further sequence to make it skip a match.
THEOREM LazySkipsOnlyForOthers == Spec => []LazySkipsNoMatchTogether
  <1>1. ASSUME CallsFollowStrategy, LazyGoTogether  PROVE LazySkipsNoMatch
    <2> SUFFICES ASSUME NEW accepting \in SUBSET Alive,
                        NEW matches, matches = Applicable(accepting), matches # {},
                        NEW s \in LazySequences, NEW f \in matches \cap Attached(s),
                        Best(matches) \in Attached(s)
                 PROVE  Best(matches) <= f
      BY Zenon DEF LazySkipsNoMatch
    <2> DEFINE attached == [e \in Created |-> DOMAIN expectations[e].ids]
               best == Best(matches)
    <2>1. FollowsStrategy(attached, LazySequences, matches, best)
      BY Zenon, <1>1 DEF CallsFollowStrategy
    <2>2. best \in Created /\ f \in Created
      BY DEF Attached
    <2>3. attached[best] = attached[f] /\ LazyMajority(attached[best], LazySequences)
      BY Zenon, <1>1, <2>2 DEF LazyGoTogether
    <2> HIDE DEF attached
    <2> QED BY Zenon, <2>1, <2>3 DEF FollowsStrategy
  <1>2. CallsFollowStrategy => LazySkipsNoMatchTogether
    BY <1>1 DEF LazySkipsNoMatchTogether
  <1> QED BY <1>2, StrategiesDecide, PTL

=============================================================================
