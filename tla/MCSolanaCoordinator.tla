------------------------ MODULE MCSolanaCoordinator -------------------------
(* Small instances of SolanaCoordinator for TLC. *)
EXTENDS SolanaCoordinator, TLC

CONSTANTS c1, c2

\* A seed rotates the indices; the two salts give two rotations.
MCShuffle(salt, seed, n, i) ==
    (i + seed + (IF salt = "witness" THEN 1 ELSE 0)) % n

OneWitness ==
    [warmup_time |-> 1, cooldown_time |-> 1, max_round_train_time |-> 1,
     round_witness_time |-> 1, epoch_time |-> 1, total_steps |-> 3,
     init_min_clients |-> 1, min_clients |-> 1, witness_nodes |-> 1,
     global_batch_size_start |-> 1, global_batch_size_end |-> 3,
     global_batch_size_warmup_tokens |-> 2,
     waiting_for_members_extra_time |-> 1]

\* Every client is a witness.
AllWitnesses == [OneWitness EXCEPT !.witness_nodes = 0]

\* Two configurations for the owner to choose from; one is long enough for a health
\* check, which needs two rounds before.
MCConfigs == {OneWitness, [AllWitnesses EXCEPT !.total_steps = 4]}

MCCheckpoints == {[kind |-> "Hub", repo |-> "repo"]}

SomeProgress == {[epoch |-> 1, step |-> 2, epoch_start_data_index |-> 1]}

MCSymmetry == Permutations(ClientIds)
=============================================================================
