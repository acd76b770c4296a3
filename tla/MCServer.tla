------------------------------ MODULE MCServer ------------------------------
(* Small instances of CentralizedServer for TLC. *)
EXTENDS CentralizedServer, TLC

CONSTANTS c1, c2, nobody

\* A seed rotates the indices.
ServerShuffle(salt, seed, n, i) == (i + seed) % n

MCServerConfig ==
    [warmup_time |-> 1, cooldown_time |-> 1, max_round_train_time |-> 1,
     round_witness_time |-> 1, epoch_time |-> 1, total_steps |-> 5,
     init_min_clients |-> 2, min_clients |-> 1, witness_nodes |-> 1,
     global_batch_size_start |-> 1, global_batch_size_end |-> 3,
     global_batch_size_warmup_tokens |-> 4,
     waiting_for_members_extra_time |-> 1]

\* An epoch goes on with one client, or a client that leaves ends it: a warmup is then
\* abandoned while the other one stays.
MCServerConfigs == {[MCServerConfig EXCEPT !.min_clients = m] : m \in {1, 2}}

\* The configurations of the files, or with another warmup time.
MCAllConfigs == {[g EXCEPT !.warmup_time = t] : g \in MCServerConfigs, t \in {0, 1}}

MCServerCheckpoint == [kind |-> "Hub", repo |-> "repo"]

MCServerBlooms == {{}}

MCServerSymmetry == Permutations(Peers)
=============================================================================
