--------------------------- MODULE MCCoordinator ----------------------------
(* Small instances of Coordinator for TLC. *)
EXTENDS Coordinator, TLC

CONSTANTS c1, c2, c3

\* A seed rotates the indices; the two salts give two rotations.
MCShuffle(salt, seed, n, i) ==
    (i + seed + (IF salt = "witness" THEN 1 ELSE 0)) % n

BaseConfig ==
    [warmup_time |-> 1, cooldown_time |-> 1, max_round_train_time |-> 1,
     round_witness_time |-> 1, epoch_time |-> 2, total_steps |-> 4,
     init_min_clients |-> 2, min_clients |-> 2, witness_nodes |-> 2,
     global_batch_size_start |-> 1, global_batch_size_end |-> 3,
     global_batch_size_warmup_tokens |-> 4,
     waiting_for_members_extra_time |-> 1]

\* An epoch times out after one unit of time.
MCConfigs == {[BaseConfig EXCEPT !.epoch_time = 1]}

\* The shortest run with a round after the first one, in which one client is enough; and
\* epochs that are long enough to go round the ring of stored rounds.
EpochConfigs ==
    {[BaseConfig EXCEPT !.epoch_time = 1, !.total_steps = 3, !.min_clients = 1,
                        !.witness_nodes = 1],
     [BaseConfig EXCEPT !.epoch_time = 3, !.total_steps = 6, !.witness_nodes = 1]}

\* Everybody took part, or nobody did.
MCBlooms == {ClientIds, {}}

MCCheckpoints == {[kind |-> "Hub", repo |-> "repo"]}

MCSymmetry == Permutations(ClientIds)
=============================================================================
