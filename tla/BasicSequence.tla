--------------------------- MODULE BasicSequence ---------------------------
(***************************************************************************)
(* sequence::detail::BasicSequence (Sequence.hpp): the value of one        *)
(* sequence and the operations expectations perform on it.  A sequence is  *)
(* a vector of entry states, indexed by the ids that add() hands out       *)
(* (0, 1, 2, ...), and a cursor, the id that was consumed last.  The       *)
(* module has no state of its own; the operators map a sequence to the     *)
(* sequence the C++ member function leaves behind.                         *)
(***************************************************************************)
EXTENDS Integers

\* std::numeric_limits<int>::max(), the base of the lazy priority.
IntMax == 2147483647

EntryState == {"unsatisfied", "satisfied", "saturated"}

\* m_Entries as a function on the ids handed out so far, and m_Cursor.
IsSequence(seq) ==
    /\ seq \in [size : Nat, entries : [0 .. seq.size - 1 -> EntryState], cursor : Nat]
    /\ seq.cursor = 0 \/ seq.cursor < seq.size

EmptySequence == [size |-> 0, entries |-> [i \in {} |-> "unsatisfied"], cursor |-> 0]

IsValid(seq, id) == id \in 0 .. seq.size - 1

\* The predicate both searches in the class use: the cursor may pass it.
MayBePassed(state) == state \in {"satisfied", "saturated"}

\* Faulty: entries that still need matches are skipped.
ConsumableAnywhere(seq, id) ==
    /\ seq.cursor <= id
    /\ seq.entries[id] \in {"unsatisfied", "satisfied"}

\* Faulty: the cursor may move back.
ConsumableBehindCursor(seq, id) ==
    /\ \A i \in seq.cursor .. id - 1 : MayBePassed(seq.entries[i])
    /\ seq.entries[id] \in {"unsatisfied", "satisfied"}

\* An entry can be consumed when the cursor has not passed it, every entry
\* between the cursor and it may be passed, and it is not used up itself.
IsConsumable(seq, id) ==
    /\ seq.cursor <= id
    /\ \A i \in seq.cursor .. id - 1 : MayBePassed(seq.entries[i])
    /\ seq.entries[id] \in {"unsatisfied", "satisfied"}

\* LazyStrategy and GreedyStrategy, the priority of a consumable entry.
LazyPriority(id, cursor) == IntMax - (id - cursor)
GreedyPriority(id, cursor) == id - cursor

-----------------------------------------------------------------------------
(* The mutators.  Each comes with the condition its assert() states.       *)

\* add(): a new unsatisfied entry; its id is the size before.
Add(seq) ==
    [size |-> seq.size + 1,
     entries |-> [i \in 0 .. seq.size |->
                    IF i = seq.size THEN "unsatisfied" ELSE seq.entries[i]],
     cursor |-> seq.cursor]

SetSatisfied(seq, id) == [seq EXCEPT !.entries[id] = "satisfied"]

SetSatisfiedAsserts(seq, id) ==
    /\ IsValid(seq, id)
    /\ seq.cursor <= id
    /\ seq.entries[id] = "unsatisfied"

SetSaturated(seq, id) == [seq EXCEPT !.entries[id] = "saturated"]

SetSaturatedAsserts(seq, id) ==
    /\ IsValid(seq, id)
    /\ seq.cursor <= id
    /\ seq.entries[id] \in {"unsatisfied", "satisfied"}

\* Faulty: the cursor moves behind the consumed entry.
ConsumePast(seq, id) == [seq EXCEPT !.cursor = id + 1]

Consume(seq, id) == [seq EXCEPT !.cursor = id]

ConsumeAsserts(seq, id) == IsValid(seq, id) /\ IsConsumable(seq, id)

-----------------------------------------------------------------------------
(* What the destructor looks at: the entries from the cursor on that may   *)
(* not be passed.  If there is one it reports an error that prints the     *)
(* distance from the first entry to the first of them.                     *)

\* Faulty: the entry at the cursor is not looked at.
UnfulfilledBehindCursor(seq) ==
    {i \in seq.cursor + 1 .. seq.size - 1 : ~ MayBePassed(seq.entries[i])}

Unfulfilled(seq) ==
    {i \in seq.cursor .. seq.size - 1 : ~ MayBePassed(seq.entries[i])}

ReportedCount(seq) ==
    CHOOSE i \in Unfulfilled(seq) : \A j \in Unfulfilled(seq) : i <= j

=============================================================================
