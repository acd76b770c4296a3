--------------------------- MODULE DataSelection ---------------------------
(***************************************************************************)
(* Who does what in a round and on which data: the committee and the       *)
(* witnesses (coordinator/src/committee_selection.rs) by the swap-or-not   *)
(* shuffle (core/src/swap_or_not.rs), the data by the order of a seeded    *)
(* Fisher-Yates shuffle (core/src/deterministic_shuffle.rs, lcg.rs) and    *)
(* the sizes of coordinator/src/data_selection.rs.  Every client computes  *)
(* all of it for itself, from the coordinator's state.                     *)
(*                                                                         *)
(* Abstractions.  A hash is any value: the pivot and the bits of a round   *)
(* of the shuffle, and the next number of the generator, are chosen.       *)
(***************************************************************************)
EXTENDS Integers, FixedVec, SequencesExt, FiniteSetsExt, Functions

CONSTANTS
    MaxNodes,       \* bound: clients of a round
    ShuffleRounds,  \* bound: SHUFFLE_ROUND_COUNT, 90 in the code
    MaxWitnesses,   \* SOLANA_MAX_NUM_WITNESSES
    MaxRoundBatch,  \* bound: global batch sizes
    SelectionSteps, \* total_steps
    TokensOf,       \* get_sequence_length
    Percents,       \* verification_percent
    WarmupTokens    \* global_batch_size_warmup_tokens

ASSUME DataSelectionAssumption ==
    /\ {MaxNodes, ShuffleRounds, MaxWitnesses, MaxRoundBatch, SelectionSteps, TokensOf}
         \subseteq Nat \ {0}
    /\ Percents \subseteq Nat /\ WarmupTokens \subseteq Nat

VARIABLES
    selection,  \* the CommitteeSelection: total, ties, percent, witnesses, verifiers
    picking,    \* "new", "invalid", "committee", "witness", "order", "assigned"
    turn,       \* rounds of the shuffle that is running, or swaps to come
    seats,      \* index of a client -> its position in the shuffle, of one salt
    order,      \* the trainers, in the order they get data
    sizes,      \* global_batch_size_start, _end and _warmup_tokens
    step, index \* the step and the data index of the coordinator's round

selectionVars == <<selection, picking, turn, seats, order, sizes, step, index>>

Nodes == 0 .. selection.total - 1
Salts == {"committee", "witness"}

-----------------------------------------------------------------------------
(* The committee and the witnesses. *)

SelectionInit ==
    /\ selection \in [total : 1 .. MaxNodes, ties : 0 .. MaxNodes, percent : Percents,
                      witnesses : 0 .. MaxNodes, verifiers : {0}]
    /\ picking = "new" /\ turn = 0
    /\ seats = [i \in Nodes |-> i]
    /\ order = <<>>
    /\ sizes = [first |-> 0, last |-> 0, warmup |-> 0]
    /\ step = 1 /\ index = 0

InvalidSelection ==
    \/ selection.total < selection.ties
    \/ selection.witnesses # 0 /\ selection.total < selection.witnesses
    \/ selection.percent > 100

\* CommitteeSelection::new, for the committee or for the witnesses.
NewSelection ==
    /\ picking = "new"
    /\ IF InvalidSelection THEN picking' = "invalid" /\ UNCHANGED selection
       ELSE /\ selection' = [selection EXCEPT !.verifiers =
                               ((selection.total - selection.ties) * selection.percent) \div 100]
            /\ picking' \in Salts
    /\ UNCHANGED <<turn, seats, order, sizes, step, index>>

\* The bit at the larger one of the two positions.
BitOf(bits, current, flip) == Max({current, flip}) \in bits

\* One round of compute_shuffled_index.
Swapped(current, pivot, bits) ==
    LET flip == (pivot + selection.total - current) % selection.total
    IN  IF BitOf(bits, current, flip) THEN flip ELSE current

SwapOrNot(salt) ==
    /\ picking = salt
    /\ turn < ShuffleRounds
    /\ \E pivot \in Nodes, bits \in SUBSET Nodes :
         seats' = [i \in Nodes |-> Swapped(seats[i], pivot, bits)]
    /\ turn' = turn + 1
    /\ UNCHANGED <<selection, picking, order, sizes, step, index>>

\* get_committee_from_position.
CommitteeAt(position) ==
    CASE position < selection.ties -> "TieBreaker"
      [] position >= selection.ties /\ position < selection.ties + selection.verifiers -> "Verifier"
      [] OTHER -> "Trainer"

\* get_witness_from_position.
WitnessAt(position) ==
    position < (IF selection.witnesses = 0 THEN MaxWitnesses ELSE selection.witnesses)

Seated(committee) == {i \in Nodes : CommitteeAt(seats[i]) = committee}

\* The trainers by their index, to be shuffled; with tie breakers or verifiers the
\* assertions of assign_data_for_state fail.
Shuffled ==
    /\ picking = "committee" /\ turn = ShuffleRounds
    /\ Seated("TieBreaker") = {} /\ Seated("Verifier") = {}
    /\ order' = Retain([i \in 1 .. selection.total |-> i - 1],
                       {i \in 1 .. selection.total : i - 1 \in Seated("Trainer")})
    /\ picking' = "order" /\ turn' = Len(order')
    /\ UNCHANGED <<selection, seats, sizes, step, index>>

-----------------------------------------------------------------------------
(* The data. *)

Exchanged(i, j) == [order EXCEPT ![i] = order[j], ![j] = order[i]]

\* One turn of deterministic_shuffle, from the last item to the second one; next_range
\* is any number up to the item's place.
ShuffleItem ==
    /\ picking = "order" /\ turn > 1
    /\ \E j \in 1 .. turn : order' = Exchanged(turn, j)
    /\ turn' = turn - 1
    /\ UNCHANGED <<selection, picking, seats, sizes, step, index>>

\* The shuffles are over and their positions forgotten; any batch sizes of the
\* configuration come in here.
Ordered ==
    /\ picking = "order" /\ turn <= 1
    /\ picking' = "assigned"
    /\ seats' = [i \in Nodes |-> i]
    /\ sizes' \in {s \in [first : 1 .. MaxRoundBatch, last : 1 .. MaxRoundBatch,
                          warmup : WarmupTokens] : s.first <= s.last}
    /\ UNCHANGED <<selection, turn, order, step, index>>

\* get_batch_size: linear over the warmup tokens, and rounded half up.
RoundBatchSize(tokens) ==
    IF tokens >= sizes.warmup THEN sizes.last
    ELSE (2 * sizes.first * sizes.warmup + 2 * (sizes.last - sizes.first) * tokens + sizes.warmup)
            \div (2 * sizes.warmup)

TotalSize == RoundBatchSize(index * TokensOf)

\* Mutant of NodeSize: every trainer gets the same.
NodeSizeEven(i, trainers) == TotalSize \div trainers

\* What the trainer at place i gets, the first one at 0.
NodeSize(i, trainers) ==
    TotalSize \div trainers + (IF i < TotalSize % trainers THEN 1 ELSE 0)

\* The samples before the ones of the trainer at place i.
Before(i, trainers) == SumFunction([k \in 0 .. i - 1 |-> NodeSize(k, trainers)])

\* assign_data_for_state: the intervals of data and who they are for.
AssignData ==
    {[start |-> index + Before(i, Len(order)),
      end |-> index + Before(i + 1, Len(order)) - 1, node |-> order[i + 1]] :
       i \in {k \in 0 .. Len(order) - 1 : NodeSize(k, Len(order)) > 0}}

\* get_num_trainer_nodes
NumTrainerNodes == selection.total - selection.ties - selection.verifiers

\* get_batch_ids_for_round, of the number of the trainers only; it ends where the
\* data of the round does.
BatchIdsForRound ==
    {[start |-> index + Before(i, NumTrainerNodes), end |-> index + Before(i + 1, NumTrainerNodes) - 1] :
       i \in {k \in 0 .. NumTrainerNodes - 1 :
                NodeSize(k, NumTrainerNodes) > 0 /\ Before(k, NumTrainerNodes) < TotalSize}}

\* "for _ in 1..target_step"
StepsBefore(target) == target - 1

\* get_data_index_for_step.
DataIndexForStep(target) ==
    LET after[s \in 0 .. SelectionSteps] ==
          IF s = 0 THEN 0 ELSE after[s - 1] + RoundBatchSize(after[s - 1] * TokensOf)
    IN  IF target <= 1 \/ target > SelectionSteps THEN 0 ELSE after[StepsBefore(target)]

\* The coordinator starts the next round.
NextRoundData ==
    /\ picking = "assigned" /\ step < SelectionSteps
    /\ index' = index + TotalSize
    /\ step' = step + 1
    /\ UNCHANGED <<selection, picking, turn, seats, order, sizes>>

SelectionNext ==
    \/ NewSelection \/ Shuffled \/ ShuffleItem \/ Ordered \/ NextRoundData
    \/ \E salt \in Salts : SwapOrNot(salt)

SelectionSpec == SelectionInit /\ [][SelectionNext]_selectionVars

-----------------------------------------------------------------------------
(* Properties. *)

\* The variables keep their types, and the trainers are shuffled without losing any.
SelectionTypeOK ==
    /\ picking \in {"new", "invalid", "committee", "witness", "order", "assigned"}
    /\ turn \in 0 .. Max({MaxNodes, ShuffleRounds})
    /\ seats \in [Nodes -> Nodes]
    /\ picking \in {"order", "assigned"} => ToSet(order) = Seated("Trainer") /\ IsInjective(order)

\* Whatever the hashes are, no two clients get the same position, in any round of the
\* shuffle: swap or not is a permutation.
OneSeatEach == IsInjective(seats)

\* The committees and the witnesses are as many as were asked for.
CommitteesFilled ==
    /\ picking = "committee" =>
         /\ Cardinality(Seated("TieBreaker")) = selection.ties
         /\ Cardinality(Seated("Verifier")) = selection.verifiers
         /\ Cardinality(Seated("Trainer")) = NumTrainerNodes
    /\ picking = "witness" =>
         Cardinality({i \in Nodes : WitnessAt(seats[i])}) =
           IF selection.witnesses = 0 THEN Min({MaxWitnesses, selection.total})
           ELSE selection.witnesses

\* The data of a round is assigned without a gap and without an overlap, in shares
\* that differ by at most a sample.
AssignedOnce ==
    picking = "assigned" =>
      /\ \A d \in index .. index + TotalSize - 1 :
           Cardinality({a \in AssignData : d \in a.start .. a.end}) = 1
      /\ \A a \in AssignData :
           /\ a.start \in index .. a.end /\ a.end < index + TotalSize
           /\ \A b \in AssignData : a.end - a.start <= b.end - b.start + 1

\* The batches that a client waits for, which it finds from the number of trainers
\* only, are the ones that the trainers have.
BatchIdsAgree ==
    picking = "assigned" =>
      BatchIdsForRound = {[start |-> a.start, end |-> a.end] : a \in AssignData}

\* A run that is set back to a step goes on with the data it had there the first time,
\* also while the batches are still growing.
RestartsWithSameData == picking = "assigned" => DataIndexForStep(step) = index

\* All clients compute one assignment from the seed, in which every sequence of a round
\* has one trainer and every seat one client, and which a restart computes again.
SelectionInv ==
    /\ SelectionTypeOK
    /\ OneSeatEach
    /\ CommitteesFilled
    /\ AssignedOnce
    /\ BatchIdsAgree
    /\ RestartsWithSameData
=============================================================================
