--------------------------- MODULE FixedVecSlots ----------------------------
(***************************************************************************)
(* FixedVec<T, N> as it lies in memory (shared/core/src/fixed_vec.rs): N   *)
(* slots, of which the first len are in use, moved by the loops of the     *)
(* code.  The other modules use a vector as a sequence (FixedVec); here    *)
(* the same calls are made on a sequence, held, and the two are compared.  *)
(***************************************************************************)
EXTENDS FixedVec, SequencesExt

CONSTANTS
    Values,  \* the elements T
    Default, \* T::default()
    N        \* the capacity

ASSUME CapacityAssumption == N \in Nat \ {0} /\ Default \in Values

VARIABLES
    data, \* slot -> element
    len,
    held  \* ghost: the sequence that the vector stands for

slotsVars == <<data, len, held>>

Slots == 0 .. N - 1

SlotsInit ==
    /\ data = [i \in Slots |-> Default]
    /\ len = 0
    /\ held = <<>>

\* A push on a vector that is full fails.
Push ==
    \E value \in Values :
      /\ len < N
      /\ data' = [data EXCEPT ![len] = value]
      /\ len' = len + 1
      /\ held' = Append(held, value)

Pop ==
    /\ len > 0
    /\ data' = [data EXCEPT ![len - 1] = Default]
    /\ len' = len - 1
    /\ held' = Front(held)

Clear ==
    /\ data' = [i \in Slots |-> IF i < len THEN Default ELSE data[i]]
    /\ len' = 0
    /\ held' = <<>>

\* extend keeps what fits and then fails.
Extend ==
    \E a, b \in Values :
      LET fits == SubSeq(<<a, b>>, 1, IF N - len < 2 THEN N - len ELSE 2)
      IN  /\ data' = [i \in Slots |->
                        IF len <= i /\ i < len + Len(fits) THEN fits[i - len + 1]
                                                           ELSE data[i]]
          /\ len' = len + Len(fits)
          /\ held' = held \o fits

\* The slots after the elements from index + 1 on have moved down by one: what the
\* loop of remove() leaves, which copies each slot before it overwrites it.
ShiftDown(index) ==
    [i \in Slots |-> IF index <= i /\ i < len - 1 THEN data[i + 1]
                     ELSE IF i = len - 1 THEN Default ELSE data[i]]

RemoveElement ==
    \E index \in Slots :
      /\ index < len
      /\ data' = ShiftDown(index)
      /\ len' = len - 1
      /\ held' = RemoveAt(held, index + 1)

\* Mutant of ShiftUp: the slots are copied in ascending order, each one after
\* it was overwritten.
ShiftUpAscending(index) ==
    [i \in Slots |-> IF index < i /\ i <= len THEN data[index] ELSE data[i]]

\* The slots after the elements from index on have moved up by one: what the loop of
\* insert() leaves, which goes from the end so that each slot is copied in time.
ShiftUp(index) ==
    [i \in Slots |-> IF index < i /\ i <= len THEN data[i - 1] ELSE data[i]]

Insert ==
    \E index \in Slots, element \in Values :
      /\ len < N
      /\ index <= len
      /\ data' = [ShiftUp(index) EXCEPT ![index] = element]
      /\ len' = len + 1
      /\ held' = InsertAt(held, index + 1, element)

\* The loop of retain over the elements before read: those of K are moved to
\* the slots before write.
RetainLoop(K) ==
    LET loop[read \in 0 .. len] ==
          IF read = 0 THEN [data |-> data, write |-> 0]
          ELSE LET before == loop[read - 1]
               IN  IF read - 1 \in K
                   THEN [data  |-> [before.data EXCEPT
                                      ![before.write] = before.data[read - 1]],
                         write |-> before.write + 1]
                   ELSE before
    IN  loop[len]

\* The elements from write on are zeroed out.
ZeroedOut(slots, write) ==
    [i \in Slots |-> IF write <= i /\ i < len THEN Default ELSE slots[i]]

\* K: the positions at which the predicate holds.
RetainStep ==
    \E K \in SUBSET (0 .. len - 1) :
      LET kept == RetainLoop(K)
      IN  /\ data' = ZeroedOut(kept.data, kept.write)
          /\ len' = kept.write
          /\ held' = Retain(held, {i + 1 : i \in K})

SlotsNext ==
    \/ Push
    \/ Pop
    \/ Clear
    \/ Extend
    \/ RemoveElement
    \/ Insert
    \/ RetainStep

SlotsSpec == SlotsInit /\ [][SlotsNext]_slotsVars

-----------------------------------------------------------------------------
\* The slots in use hold, in order, what the same calls leave in a sequence: no
\* loop of remove, insert or retain overwrites a slot that it has yet to read.
HoldsSequence ==
    /\ len = Len(held)
    /\ \A i \in 0 .. len - 1 : data[i] = At(held, i)

\* The slots that are not in use are zeroed out, whichever calls used them: an
\* account on chain shows no element that was removed from it.
UnusedSlotsCleared == \A i \in Slots : i >= len => data[i] = Default

\* The array of a FixedVec holds the sequence of its calls, and nothing else.
SlotsInv ==
    /\ HoldsSequence
    /\ UnusedSlotsCleared
=============================================================================
