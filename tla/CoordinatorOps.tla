--------------------------- MODULE CoordinatorOps ---------------------------
(***************************************************************************)
(* The methods of Coordinator<T> (shared/coordinator/src/coordinator.rs)   *)
(* as functions from a coordinator to a coordinator.  They are functions   *)
(* and not actions because the programs that own a coordinator run several *)
(* of them in one atomic step: an instruction of the Solana program is a   *)
(* method followed by tick.                                                *)
(*                                                                         *)
(* A method that can fail is split into its condition (CanX) and its       *)
(* effect (X).  Failing methods leave the coordinator alone, except        *)
(* withdraw_all and so pause, which may fail half-way.                     *)
(*                                                                         *)
(* Abstractions.                                                           *)
(*  - Timestamps are kept as ages: age is now minus                        *)
(*    run_state_start_unix_timestamp and epoch_age is now minus            *)
(*    epoch_state.start_timestamp, the only way the code reads them.       *)
(*  - A random seed is what it decides: the shuffled position              *)
(*    Shuffle(salt, seed, n, index) of each of n indices.                  *)
(*  - A participant bloom filter is the set of identities it contains;     *)
(*    a client is told apart by its identity.                              *)
(*  - verification_percent and tie_breaker_tasks are 0, so that every      *)
(*    member of the committee is a trainer (the other committees are       *)
(*    todo!() in the code).                                                *)
(*  - A stored witness carries its sender as a ghost field, from, that no  *)
(*    method reads.                                                        *)
(***************************************************************************)
EXTENDS Integers, Sequences, FiniteSets, FixedVec

CONSTANTS
    ClientIds,           \* the identities T of clients
    MaxClients,          \* SOLANA_MAX_NUM_CLIENTS
    MaxWitnesses,        \* SOLANA_MAX_NUM_WITNESSES
    NumStoredRounds,     \* NUM_STORED_ROUNDS
    SeqLen,              \* llm.max_seq_len
    Configs,             \* the configurations a run may have
    Repos,               \* hub repositories of checkpoints
    Seeds,               \* random seeds
    Shuffle(_, _, _, _), \* compute_shuffled_index, by salt and seed
    MaxAge               \* ages are counted up to here

ConfigType ==
    [warmup_time : Nat, cooldown_time : Nat, max_round_train_time : Nat,
     round_witness_time : Nat, epoch_time : Nat, total_steps : Nat,
     init_min_clients : Nat, min_clients : Nat, witness_nodes : Nat,
     global_batch_size_start : Nat, global_batch_size_end : Nat,
     global_batch_size_warmup_tokens : Nat,
     waiting_for_members_extra_time : Nat]

\* CoordinatorConfig::check
ConfigCheck(g) ==
    /\ g.max_round_train_time # 0
    /\ g.round_witness_time # 0
    /\ g.min_clients # 0
    /\ g.init_min_clients >= g.min_clients
    /\ g.init_min_clients <= MaxClients
    /\ g.global_batch_size_start # 0
    /\ g.global_batch_size_end # 0
    /\ g.global_batch_size_end >= g.global_batch_size_start
    /\ g.total_steps # 0
    /\ g.witness_nodes <= g.min_clients
    /\ g.witness_nodes <= MaxWitnesses
    /\ g.cooldown_time > 0
    /\ g.waiting_for_members_extra_time > 0

ASSUME SizesAssumption ==
    /\ MaxClients \in Nat \ {0}
    /\ MaxWitnesses \in Nat \ {0}
    /\ NumStoredRounds \in Nat /\ NumStoredRounds > 1
    /\ SeqLen \in Nat \ {0}
    /\ MaxAge \in Nat \ {0}
    /\ 0 \in Seeds

\* Every owner of a coordinator runs CoordinatorConfig::check before it starts.
ASSUME ConfigsAssumption ==
    \A g \in Configs : g \in ConfigType /\ ConfigCheck(g)

Salts == {"committee", "witness"}

\* A shuffle is a permutation of the n indices.
ASSUME ShuffleAssumption ==
    \A salt \in Salts, seed \in Seeds, n \in 0 .. MaxClients :
       /\ \A i \in 0 .. n - 1 : Shuffle(salt, seed, n, i) \in 0 .. n - 1
       /\ \A i, j \in 0 .. n - 1 :
             Shuffle(salt, seed, n, i) = Shuffle(salt, seed, n, j) => i = j

-----------------------------------------------------------------------------
(* The state of a coordinator. *)

RunStates == {"Uninitialized", "WaitingForMembers", "Warmup", "RoundTrain",
              "RoundWitness", "Cooldown", "Finished", "Paused"}

ClientStates == {"Healthy", "Dropped", "Withdrawn", "Ejected"}

Client == [id : ClientIds, state : ClientStates, exited_height : Nat]

NewClient(id) == [id |-> id, state |-> "Healthy", exited_height |-> 0]

Witness == [from : ClientIds, index : Nat, position : Nat,
            witness : BOOLEAN, participants : SUBSET ClientIds]

Round == [witnesses : Seq(Witness), data_index : Nat, random_seed : Seeds,
          height : Nat, clients_len : Nat]

ZeroRound == [witnesses |-> <<>>, data_index |-> 0, random_seed |-> 0,
              height |-> 0, clients_len |-> 0]

Checkpoint == [kind : {"Hub", "P2P", "Dummy", "Ephemeral"}, repo : Repos]

RoundSlots == 0 .. NumStoredRounds - 1

CoordinatorType ==
    [run_state : RunStates, pending_pause : BOOLEAN, config : Configs,
     age : Nat, epoch_age : Nat,
     epoch : Nat, step : Nat, epoch_start_data_index : Nat,
     checkpoint : Checkpoint,
     clients : Seq(Client), exited_clients : Seq(Client),
     rounds : [RoundSlots -> Round], rounds_head : RoundSlots,
     first_round : BOOLEAN, cold_start_epoch : BOOLEAN,
     start_step : Nat, last_step : Nat]

\* A coordinator that has not run yet, ready to be resumed or joined.
FreshCoordinator(g, ckpt, state) ==
    [run_state |-> state, pending_pause |-> FALSE, config |-> g,
     age |-> 0, epoch_age |-> 0,
     epoch |-> 0, step |-> 1, epoch_start_data_index |-> 0,
     checkpoint |-> ckpt,
     clients |-> <<>>, exited_clients |-> <<>>,
     rounds |-> [r \in RoundSlots |-> ZeroRound], rounds_head |-> 0,
     first_round |-> TRUE, cold_start_epoch |-> FALSE,
     start_step |-> 0, last_step |-> 0]

-----------------------------------------------------------------------------
(* Observers. *)

Active(c) == c.run_state \in {"RoundTrain", "RoundWitness", "Cooldown"}

Halted(c) == c.run_state \in {"Uninitialized", "Finished", "Paused"}

CurrentRound(c) == c.rounds[c.rounds_head]

\* previous_round().is_some()
HasPreviousRound(c) == ~(c.rounds_head = 0 /\ CurrentRound(c).height = 0)

PreviousRound(c) ==
    IF c.rounds_head = 0 THEN c.rounds[NumStoredRounds - 1]
                         ELSE c.rounds[c.rounds_head - 1]

\* No identity stands twice in the two client lists.
EachListedOnce(c) ==
    LET here == c.clients
        left == c.exited_clients
    IN  /\ \A i, j \in DOMAIN here : here[i].id = here[j].id => i = j
        /\ \A i, j \in DOMAIN left : left[i].id = left[j].id => i = j
        /\ \A i \in DOMAIN here, j \in DOMAIN left : here[i].id # left[j].id

LastStepSet(c) == c.last_step # 0

CheckTimeout(c, duration) == c.age # 0 /\ c.age >= duration

CheckEpochTimeout(c) == c.epoch_age # 0 /\ c.epoch_age >= c.config.epoch_time

\* get_batch_size: linear from start to end over the warmup tokens, rounded
\* half up.
BatchSize(g, tokens) ==
    LET w == g.global_batch_size_warmup_tokens
        rise == g.global_batch_size_end - g.global_batch_size_start
    IN  IF tokens >= w THEN g.global_batch_size_end
        ELSE (2 * (g.global_batch_size_start * w + rise * tokens) + w)
                \div (2 * w)

\* The data index right after the batch of round r.
NextDataIndex(c, r) == r.data_index + BatchSize(c.config, r.data_index * SeqLen)

\* The number of witnesses that a round waits for.
WitnessNodes(c) ==
    IF c.config.witness_nodes # 0 THEN c.config.witness_nodes
    ELSE IF Len(c.clients) <= MaxWitnesses THEN Len(c.clients)
    ELSE MaxWitnesses

\* witness_quorum: (x * 2/3) truncated from 4 on.
WitnessQuorum(c, num_witnesses) ==
    LET w == IF c.config.witness_nodes = 0 THEN num_witnesses
                                           ELSE c.config.witness_nodes
    IN  CASE w <= 2 -> w
          [] w = 3  -> 2
          [] w > 3  -> (2 * w) \div 3

\* Mutant of HistoricalClient: counts from the first exited client.
HistoricalClientFromFront(c, n, prev_clients_len) ==
    IF Has(c.clients, n) THEN At(c.clients, n)
    ELSE LET offset == prev_clients_len - n - 1
         IN  At(c.exited_clients, offset)

\* The client that stood at index n when there were prev_clients_len clients.
HistoricalClient(c, n, prev_clients_len) ==
    IF Has(c.clients, n) THEN At(c.clients, n)
    ELSE LET offset == prev_clients_len - n - 1
         IN  c.exited_clients[Len(c.exited_clients) - offset]

\* get_client_at_historical_index(n, prev_clients_len).is_some()
HasHistoricalClient(c, n, prev_clients_len) ==
    \/ Has(c.clients, n)
    \/ n < prev_clients_len /\ prev_clients_len - n <= Len(c.exited_clients)

\* verify_client
VerifyClient(c, id, index) ==
    Has(c.clients, index) /\ At(c.clients, index).id = id

\* get_witness_from_position
IsWitnessPosition(c, position) ==
    position < (IF c.config.witness_nodes = 0 THEN MaxWitnesses
                                              ELSE c.config.witness_nodes)

Position(salt, round, index) ==
    Shuffle(salt, round.random_seed, round.clients_len, index)

\* CommitteeSelection::new succeeds.  Since every client is verified against
\* epoch_state.clients first, the shuffle is only ever asked about an index
\* below clients_len.
SelectionExists(c, round) ==
    c.config.witness_nodes # 0 => round.clients_len >= c.config.witness_nodes

\* verify_witness_for_client, and the proof claims membership
VerifyWitness(c, w) ==
    /\ VerifyClient(c, w.from, w.index)
    /\ w.position = Position("witness", CurrentRound(c), w.index)
    /\ w.witness = IsWitnessPosition(c, w.position)
    /\ w.witness

\* The sender is found among the witnesses of the current round.  The loop
\* looks each one up at its index in the client list, and so it panics at an
\* index that is out of bounds (LookupPanics) unless it returned before.
IsDuplicateWitness(c, from) ==
    LET ws == CurrentRound(c).witnesses
    IN  \E i \in DOMAIN ws : VerifyClient(c, from, ws[i].index)

LookupPanics(c, from) ==
    LET ws == CurrentRound(c).witnesses
    IN  \E i \in DOMAIN ws :
           /\ ~Has(c.clients, ws[i].index)
           /\ \A j \in 1 .. i - 1 : ~VerifyClient(c, from, ws[j].index)

\* trainer_healthy_score_by_witnesses
Score(id, witnesses) ==
    Cardinality({i \in DOMAIN witnesses : id \in witnesses[i].participants})

TrainerHealthy(c, id) ==
    LET witnesses == PreviousRound(c).witnesses
    IN  Score(id, witnesses) >= WitnessQuorum(c, Len(witnesses))

\* healthy(id, proof) is Ok(_): the proof is valid for the previous round.
HealthProofValid(c, check) ==
    LET round == PreviousRound(c)
    IN  /\ HasPreviousRound(c)
        /\ check.index < round.clients_len
        /\ HasHistoricalClient(c, check.index, round.clients_len)
        /\ SelectionExists(c, round)
        /\ HistoricalClient(c, check.index, round.clients_len).id = check.id
        /\ VerifyClient(c, check.id, check.index)
        /\ check.position = Position("committee", round, check.index)

-----------------------------------------------------------------------------
(* Private steps of the methods. *)

\* change_state.  Its assertion, that the state changes, holds at every call: no
\* method asks for the state that it is in.
ChangeState(c, new_state) == [c EXCEPT !.run_state = new_state, !.age = 0]

\* move_clients_to_exited
MoveClientsToExited(c, height) ==
    LET healthy == {i \in DOMAIN c.clients : c.clients[i].state = "Healthy"}
        leaving == Retain(c.clients, DOMAIN c.clients \ healthy)
    IN  [c EXCEPT
           !.clients = Retain(c.clients, healthy),
           !.exited_clients = @ \o
               [i \in DOMAIN leaving |->
                   [leaving[i] EXCEPT !.exited_height = height]]]

CanWithdraw(c, index) ==
    Has(c.clients, index) /\ At(c.clients, index).state = "Healthy"

Withdraw(c, index) ==
    [c EXCEPT !.clients[index + 1].state = "Withdrawn"]

\* withdraw_all stops with an error at the first client that is not Healthy.
CanWithdrawAll(c) ==
    \A i \in DOMAIN c.clients : c.clients[i].state = "Healthy"

WithdrawAll(c) ==
    [c EXCEPT !.clients =
        [i \in DOMAIN c.clients |->
            IF \A j \in 1 .. i : c.clients[j].state = "Healthy"
            THEN [c.clients[i] EXCEPT !.state = "Withdrawn"]
            ELSE c.clients[i]]]

StartCooldown(c) ==
    ChangeState([c EXCEPT !.rounds[c.rounds_head].witnesses = <<>>], "Cooldown")

StartWaitingForMembers(c) ==
    ChangeState(c, IF c.step < c.config.total_steps THEN "WaitingForMembers"
                                                    ELSE "Finished")

StartRoundTrain(c, seed) ==
    LET prev == CurrentRound(c)
        head == IF c.first_round THEN 0
                ELSE (c.rounds_head + 1) % NumStoredRounds
        round == [witnesses |-> <<>>,
                  data_index |-> IF c.first_round THEN c.epoch_start_data_index
                                 ELSE NextDataIndex(c, prev),
                  random_seed |-> seed,
                  height |-> IF c.first_round THEN 0 ELSE prev.height + 1,
                  clients_len |-> Len(c.clients)]
    IN  ChangeState([c EXCEPT !.rounds[head] = round, !.rounds_head = head],
                    "RoundTrain")

-----------------------------------------------------------------------------
(* tick, by run state.  A tick also returns its TickResult. *)

Ticked(c) == [st |-> c, result |-> "Ticked"]

\* The checkpoint a new epoch starts from: peers can share the model only if
\* one of the previous epoch is there.
CheckpointForEpoch(c, prev_clients, pending) ==
    IF /\ c.checkpoint.kind = "P2P"
       /\ \A i \in DOMAIN prev_clients :
             \A j \in DOMAIN pending : prev_clients[i].id # pending[j]
    THEN [c.checkpoint EXCEPT !.kind = "Hub"]
    ELSE c.checkpoint

\* The first MaxClients pending clients.
Admitted(pending) ==
    SubSeq(pending, 1, IF Len(pending) <= MaxClients THEN Len(pending)
                                                     ELSE MaxClients)

TickWaitingForMembers(c, pending) ==
    IF /\ Len(pending) >= c.config.init_min_clients
       /\ CheckTimeout(c, c.config.waiting_for_members_extra_time)
    THEN LET moved == MoveClientsToExited(c, CurrentRound(c).height)
             admitted == Admitted(pending)
         IN  Ticked(ChangeState(
               [c EXCEPT
                  !.checkpoint = CheckpointForEpoch(c, moved.clients, pending),
                  !.rounds = [r \in RoundSlots |-> ZeroRound],
                  !.rounds_head = 0,
                  !.exited_clients = <<>>,
                  !.last_step = 0,
                  !.first_round = TRUE,
                  !.start_step = c.step,
                  !.epoch_age = 0,
                  !.clients = [i \in DOMAIN admitted |-> NewClient(admitted[i])]],
               "Warmup"))
    ELSE Ticked(c)

TickWarmup(c, seed) ==
    LET next == IF CheckTimeout(c, c.config.warmup_time)
                THEN StartRoundTrain(c, seed)
                ELSE MoveClientsToExited(c, 0)
    IN  IF Len(next.clients) < c.config.min_clients
        THEN [st |-> StartWaitingForMembers(next), result |-> "EpochAbandoned"]
        ELSE Ticked(next)

\* Mutant of TickRoundTrain: clients are moved before the round is over.
TickRoundTrainMovesClients(c) ==
    Ticked(IF CheckTimeout(c, c.config.max_round_train_time)
           THEN MoveClientsToExited(ChangeState(c, "RoundWitness"), 0) ELSE c)

\* Mutant of TickRoundTrain: only witnesses end the training of a round.
TickRoundTrainNoTimeout(c) == Ticked(c)

TickRoundTrain(c) ==
    Ticked(IF CheckTimeout(c, c.config.max_round_train_time)
           THEN ChangeState(c, "RoundWitness") ELSE c)

\* Once the epoch has timed out, the last step is two steps ahead.
SetLastStep(c) ==
    IF CheckEpochTimeout(c) /\ ~LastStepSet(c) /\ c.step + 2 >= 4
    THEN [c EXCEPT !.last_step = c.step + 2]
    ELSE c

\* Mutant of EpochMustEnd: the last step is compared with the wrong operator.
EpochMustEndAfterLastStep(c, num_witnesses) ==
    \/ LastStepSet(c) /\ c.step > c.last_step
    \/ Len(c.clients) < c.config.min_clients
    \/ num_witnesses < WitnessQuorum(c, num_witnesses)
    \/ c.step >= c.config.total_steps
    \/ c.pending_pause

\* The conditions, in tick_round_witness, under which the epoch cools down.
EpochMustEnd(c, num_witnesses) ==
    \/ LastStepSet(c) /\ c.step = c.last_step
    \/ Len(c.clients) < c.config.min_clients
    \/ num_witnesses < WitnessQuorum(c, num_witnesses)
    \/ c.step >= c.config.total_steps
    \/ c.pending_pause

TickRoundWitness(c, seed) ==
    IF CheckTimeout(c, c.config.round_witness_time)
    THEN LET num_witnesses == Len(CurrentRound(c).witnesses)
             moved == MoveClientsToExited(
                         [c EXCEPT !.first_round = FALSE, !.step = @ + 1],
                         CurrentRound(c).height)
             next == SetLastStep(moved)
         IN  Ticked(IF num_witnesses = 0 THEN StartCooldown(WithdrawAll(moved))
                    ELSE IF EpochMustEnd(next, num_witnesses)
                    THEN StartCooldown(next)
                    ELSE StartRoundTrain(next, seed))
    ELSE Ticked(c)

\* Mutant of TickCooldown: the next epoch restarts at the last round's data
\* and a pending pause is forgotten.
TickCooldownForgets(c) ==
    IF CheckTimeout(c, c.config.cooldown_time)
    THEN LET moved == MoveClientsToExited(
                [c EXCEPT
                   !.epoch_start_data_index = CurrentRound(c).data_index,
                   !.epoch = @ + 1,
                   !.pending_pause = FALSE],
                CurrentRound(c).height)
         IN  [st |-> [StartWaitingForMembers(moved) EXCEPT
                        !.cold_start_epoch = FALSE],
              result |-> "EpochEnd"]
    ELSE Ticked(c)

TickCooldown(c) ==
    IF CheckTimeout(c, c.config.cooldown_time)
    THEN LET moved == MoveClientsToExited(
                [c EXCEPT
                   !.epoch_start_data_index = NextDataIndex(c, CurrentRound(c)),
                   !.epoch = @ + 1,
                   !.checkpoint.kind = IF @ \in {"Hub", "Dummy"} THEN "P2P"
                                                                 ELSE @],
                CurrentRound(c).height)
             next == IF c.pending_pause
                     THEN [ChangeState(WithdrawAll(moved), "Paused") EXCEPT
                             !.pending_pause = FALSE,
                             !.cold_start_epoch = TRUE]
                     ELSE [StartWaitingForMembers(moved) EXCEPT
                             !.cold_start_epoch = FALSE]
         IN  [st |-> next, result |-> "EpochEnd"]
    ELSE Ticked(c)

CanTick(c) == ~Halted(c)

\* tick; pending stands for new_clients, which only WaitingForMembers reads.
Tick(c, pending, seed) ==
    CASE c.run_state = "WaitingForMembers" -> TickWaitingForMembers(c, pending)
      [] c.run_state = "Warmup"            -> TickWarmup(c, seed)
      [] c.run_state = "RoundTrain"        -> TickRoundTrain(c)
      [] c.run_state = "RoundWitness"      -> TickRoundWitness(c, seed)
      [] c.run_state = "Cooldown"          -> TickCooldown(c)

-----------------------------------------------------------------------------
(* The other public methods. *)

PushWitness(c, w) ==
    [c EXCEPT !.rounds[c.rounds_head].witnesses = Append(@, w)]

\* warmup_witness returns Ok.  The index of w is not verified, so that the look-up of the
\* next witness may panic.  A panic changes nothing: on chain it fails the transaction,
\* and in the server it ends the process, as a crash does (Restart in CentralizedServer).
CanWarmupWitness(c, w) ==
    \/ c.run_state = "RoundTrain"
    \/ /\ c.run_state = "Warmup"
       /\ ~LookupPanics(c, w.from)
       /\ ~IsDuplicateWitness(c, w.from)
       /\ CanPush(CurrentRound(c).witnesses, MaxWitnesses)

WarmupWitness(c, w, seed) ==
    IF c.run_state = "RoundTrain" THEN c
    ELSE LET next == PushWitness(c, w)
         IN  IF Len(CurrentRound(next).witnesses) = WitnessNodes(c)
             THEN StartRoundTrain(next, seed) ELSE next

CanWitness(c, w) ==
    /\ c.run_state \in {"RoundWitness", "RoundTrain"}
    /\ SelectionExists(c, CurrentRound(c))
    /\ VerifyWitness(c, w)
    /\ ~LookupPanics(c, w.from)
    /\ ~IsDuplicateWitness(c, w.from)
    /\ CanPush(CurrentRound(c).witnesses, MaxWitnesses)

WitnessEffect(c, w) ==
    LET next == PushWitness(c, w)
    IN  IF /\ Len(CurrentRound(next).witnesses) = WitnessNodes(c)
           /\ c.run_state # "RoundWitness"
        THEN ChangeState(next, "RoundWitness") ELSE next

\* Every check must be valid and show an unhealthy client, or none is applied.
CanHealthCheck(c, checks) ==
    /\ ~Halted(c)
    /\ CurrentRound(c).height >= 2
    /\ \A k \in checks : HealthProofValid(c, k) /\ ~TrainerHealthy(c, k.id)

HealthCheck(c, checks) ==
    [c EXCEPT !.clients =
        [i \in DOMAIN c.clients |->
            IF /\ c.clients[i].state = "Healthy"
               /\ \E k \in checks : k.index + 1 = i
            THEN [c.clients[i] EXCEPT !.state = "Dropped"]
            ELSE c.clients[i]]]

CanCheckpoint(c, from, index) ==
    Has(c.clients, index) /\ At(c.clients, index).id = from

RecordCheckpoint(c, repo) ==
    IF c.checkpoint.kind \in {"P2P", "Hub"}
    THEN [c EXCEPT !.checkpoint.repo = repo] ELSE c

\* pause; outside the active states it can fail half-way through withdraw_all.
CanPause(c) == ~Halted(c) /\ (Active(c) \/ CanWithdrawAll(c))

Pause(c) ==
    IF Active(c) THEN [c EXCEPT !.pending_pause = TRUE]
    ELSE [ChangeState(WithdrawAll(c), "Paused") EXCEPT !.cold_start_epoch = TRUE]

PauseFails(c) == ~Halted(c) /\ ~Active(c) /\ ~CanWithdrawAll(c)

CanResume(c) == c.run_state = "Paused"

Resume(c) == StartWaitingForMembers(c)

\* Time passes: every timestamp gets one second further away.
Older(age) == IF age < MaxAge THEN age + 1 ELSE age

TimePasses(c) == [c EXCEPT !.age = Older(@), !.epoch_age = Older(@)]

-----------------------------------------------------------------------------
(***************************************************************************)
(* What holds of every coordinator c between two calls of its methods.     *)
(* The predicates are stated over c so that every owner of a coordinator   *)
(* (Coordinator, and the programs that restrict it) checks the same ones.  *)
(***************************************************************************)

InRound(c) == c.run_state \in {"RoundTrain", "RoundWitness"}

\* A pause is pending only while an epoch is being trained or cools down.
PauseInEpoch(c) == c.pending_pause => Active(c)

\* While a round is open, every stored witness was sent by the client at its
\* index, holds the position that the seed of the round gives it, and is the
\* only one of its sender.
WitnessesVerified(c) ==
    InRound(c) =>
      LET ws == CurrentRound(c).witnesses
      IN  /\ CurrentRound(c).clients_len = Len(c.clients)
          /\ \A i \in DOMAIN ws : VerifyWitness(c, ws[i])
          /\ \A i, j \in DOMAIN ws : ws[i].from = ws[j].from => i = j

\* A training round still waits for some witness.
ShortOfWitnesses(c) ==
    c.run_state = "RoundTrain" =>
      Len(CurrentRound(c).witnesses) < WitnessNodes(c)

\* Both client lists fit in one vector together, and list a client once.
RosterFits(c) ==
    /\ Len(c.clients) + Len(c.exited_clients) <= MaxClients
    /\ EachListedOnce(c)

\* A round with a predecessor in its epoch follows one that had a quorum, by
\* the configuration of that epoch: a halted coordinator may be given another.
FollowsQuorum(c) ==
    CurrentRound(c).height > 0 =>
      LET ws == PreviousRound(c).witnesses
      IN  /\ HasPreviousRound(c)
          /\ PreviousRound(c).height = CurrentRound(c).height - 1
          /\ Len(ws) > 0
          /\ Active(c) => Len(ws) >= WitnessQuorum(c, Len(ws))

\* The last step, once set, is at most two steps ahead of an open round.
LastStepClose(c) ==
    InRound(c) /\ LastStepSet(c) =>
      c.step < c.last_step /\ c.last_step <= c.step + 2

\* The parts below only make the others inductive.  A warmup starts an epoch
\* afresh and has enough clients; an epoch only starts if a step is left.
WarmupIsFresh(c) ==
    c.run_state = "Warmup" =>
      /\ c.first_round
      /\ c.last_step = 0
      /\ CurrentRound(c).height = 0
      /\ Len(c.clients) >= c.config.min_clients

\* A run whose total_steps is 1 starts in WaitingForMembers and trains step 1.
StepAllowed(g, s) == s < g.total_steps \/ s = 1

StepsRemain(c) ==
    c.run_state \in {"WaitingForMembers", "Warmup"} => StepAllowed(c.config, c.step)

CoordinatorInv(c) ==
    /\ c \in CoordinatorType
    /\ PauseInEpoch(c)
    /\ WitnessesVerified(c)
    /\ ShortOfWitnesses(c)
    /\ RosterFits(c)
    /\ FollowsQuorum(c)
    /\ LastStepClose(c)
    /\ WarmupIsFresh(c)
    /\ StepsRemain(c)

-----------------------------------------------------------------------------
(* The training ledger that a coordinator stands for: see TrainingLedger. *)

\* Where the batch of the step being, or next, trained starts.
LedgerIndex(c) ==
    IF InRound(c) THEN CurrentRound(c).data_index
    ELSE IF c.run_state = "Cooldown" THEN NextDataIndex(c, CurrentRound(c))
    ELSE c.epoch_start_data_index
=============================================================================
