------------------------- MODULE SolanaCoordinator --------------------------
(***************************************************************************)
(* The Solana program that owns a coordinator: the account of one run and  *)
(* the instructions on it (solana-coordinator/src).  An instruction is one *)
(* atomic step, most of them a method of the coordinator followed by tick, *)
(* and an instruction that fails leaves no trace: only those that succeed  *)
(* are actions.                                                            *)
(*                                                                         *)
(* Abstractions.                                                           *)
(*  - Accounts are checked by the runtime: the owner's instructions are    *)
(*    signed by main_authority, and a client that joins is authorised.     *)
(*  - metadata, client_version, run_id and nonce are read by no            *)
(*    instruction and are left out.                                        *)
(*  - A zeroed config is config plus configured = FALSE; a zeroed model is *)
(*    one with an Ephemeral checkpoint, which fails Model::check.          *)
(*  - A client is its signer: the p2p identity takes no part in equality.  *)
(***************************************************************************)
EXTENDS CoordinatorOps

CONSTANTS
    UpdateCheckpoints, \* checkpoints of the models that the owner may set
    Progresses,        \* progress that the owner may set
    EarningRates,      \* earning_rate_total_shared
    SlashingRates,     \* slashing_rate_per_client
    Blooms,            \* participant filters that witnesses may report
    MaxActive          \* bound: the owner resumes while next_active is below it

ASSUME OwnerAssumption ==
    /\ Configs # {}
    /\ UpdateCheckpoints \subseteq {k \in Checkpoint : k.kind # "Ephemeral"}
    /\ Progresses \subseteq
         [epoch : Nat, step : Nat \ {0}, epoch_start_data_index : Nat]
    /\ EarningRates \subseteq Nat
    /\ SlashingRates \subseteq Nat
    /\ Blooms \subseteq SUBSET ClientIds
    /\ Repos # {}
    /\ MaxActive \in Nat

VARIABLES
    open,                  \* the account exists
    configured,            \* config passes CoordinatorConfig::check
    coordinator,           \* state.coordinator
    clients,               \* state.clients_state.clients
    next_active,           \* state.clients_state.next_active
    current_epoch_rates,
    future_epoch_rates,
    is_warmup_first_tick,
    is_training_first_tick,
    rejoined               \* ghost: who joined since training last started
                           \* or the run was last resumed

ratesVars == <<current_epoch_rates, future_epoch_rates>>
flags == <<is_warmup_first_tick, is_training_first_tick>>
vars == <<open, configured, coordinator, clients, next_active, ratesVars, flags,
          rejoined>>

EpochRates == [earning : Nat, slashing : Nat]

NoRates == [earning |-> 0, slashing |-> 0]

RegisteredClient == [id : ClientIds, earned : Nat, slashed : Nat, active : Nat]

Registered == {clients[k].id : k \in DOMAIN clients}

\* get_active_clients_ids
ActiveIds(registry, active) ==
    LET pending == {k \in DOMAIN registry : registry[k].active = active}
        s == Retain(registry, pending)
    IN  [i \in DOMAIN s |-> s[i].id]

\* The zeroed account.  Nothing reads its config before update replaces it.
ZeroedCoordinator ==
    [FreshCoordinator(CHOOSE g \in Configs : TRUE,
                      [kind |-> "Ephemeral", repo |-> CHOOSE r \in Repos : TRUE],
                      "Uninitialized")
     EXCEPT !.step = 0, !.first_round = FALSE]

Init ==
    /\ open = FALSE
    /\ configured = FALSE
    /\ coordinator = ZeroedCoordinator
    /\ clients = <<>>
    /\ next_active = 0
    /\ current_epoch_rates = NoRates
    /\ future_epoch_rates = NoRates
    /\ is_warmup_first_tick = FALSE
    /\ is_training_first_tick = FALSE
    /\ rejoined = {}

-----------------------------------------------------------------------------
(* tick *)

WarmupJustStarting(c) == c.first_round /\ c.run_state = "Warmup"

TrainingJustStarting(c) == c.first_round /\ c.run_state = "RoundTrain"

\* How many entries of the epoch's list each prefix of the registry has met:
\* the two lists are read in step, and the index into the second one only
\* moves when the clients agree.
Merge(registry, list) ==
    LET met[k \in 0 .. Len(registry)] ==
          IF k = 0 THEN 0
          ELSE IF /\ met[k - 1] < Len(list)
                  /\ registry[k].id = list[met[k - 1] + 1].id
               THEN met[k - 1] + 1
               ELSE met[k - 1]
    IN  met

\* Mutant of Settle: takes the index in the registry for that in the epoch.
SettleByIndex(registry, c, rates) ==
    LET share == IF Len(c.clients) = 0 THEN 0
                 ELSE rates.earning \div Len(c.clients)
    IN  [k \in DOMAIN registry |->
           IF k \in DOMAIN c.clients /\ c.clients[k].state = "Healthy"
           THEN [registry[k] EXCEPT !.earned = @ + share]
           ELSE registry[k]]

\* The end of an epoch: healthy finishers share the earning rate, and clients
\* that were ejected are slashed.
Settle(registry, c, rates) ==
    LET finished == Merge(registry, c.clients)
        exited == Merge(registry, c.exited_clients)
        earns(k) == /\ finished[k] \in DOMAIN c.clients
                    /\ finished[k] # finished[k - 1]
                    /\ c.clients[finished[k]].state = "Healthy"
        loses(k) == /\ exited[k] \in DOMAIN c.exited_clients
                    /\ exited[k] # exited[k - 1]
                    /\ c.exited_clients[exited[k]].state = "Ejected"
    IN  [k \in DOMAIN registry |->
           [registry[k] EXCEPT
              !.earned = IF earns(k) THEN @ + rates.earning \div Len(c.clients)
                                     ELSE @,
              !.slashed = IF loses(k) THEN @ + rates.slashing ELSE @]]

\* Mutant of FirstTick: the flag is not set again for a new epoch.
FirstTickSticky(c, flag) == flag

\* A coordinator that waits for members sets both flags again.
FirstTick(c, flag) == c.run_state = "WaitingForMembers" \/ flag

\* Mutant of SavesRates: every tick of a warmup takes the rates over.
SavesRatesEachTick(d, first) == WarmupJustStarting(d)

SavesRates(d, first) == WarmupJustStarting(d) /\ first

EndsJoining(d, first) == TrainingJustStarting(d) /\ first

\* CoordinatorInstanceState::tick, once a method has left the coordinator c, the
\* registry and the number of the epoch that joins.
TickInstance(c, registry, active, seed) ==
    LET t == Tick(c, ActiveIds(registry, active), seed)
        d == t.st
        first_warmup == FirstTick(c, is_warmup_first_tick)
        first_training == FirstTick(c, is_training_first_tick)
        saves == t.result = "Ticked" /\ SavesRates(d, first_warmup)
        ends == /\ t.result = "Ticked"
                /\ ~saves
                /\ EndsJoining(d, first_training)
    IN  /\ CanTick(c)
        /\ coordinator' = d
        /\ clients' = IF t.result = "Ticked" THEN registry
                      ELSE Settle(registry, d, current_epoch_rates)
        /\ current_epoch_rates' = IF saves THEN future_epoch_rates
                                           ELSE current_epoch_rates
        /\ next_active' = IF ends THEN active + 1 ELSE active
        /\ is_warmup_first_tick' = (first_warmup /\ ~saves)
        /\ is_training_first_tick' = (first_training /\ ~ends)
        /\ UNCHANGED <<open, configured, future_epoch_rates>>

\* The ghost follows the coordinator, not the counter: joining starts again
\* when an epoch starts to train.
Joins(ids) ==
    rejoined' = IF /\ coordinator.run_state = "Warmup"
                   /\ coordinator'.run_state = "RoundTrain"
                THEN {} ELSE rejoined \cup ids

-----------------------------------------------------------------------------
(* The instructions of the owner. *)

InitCoordinator ==
    /\ ~open
    /\ open' = TRUE
    /\ UNCHANGED <<configured, coordinator, clients, next_active, ratesVars,
                   flags, rejoined>>

\* Both accounts are closed; the same run may be created again later.
FreeCoordinator ==
    /\ open /\ Halted(coordinator)
    /\ open' = FALSE
    /\ configured' = FALSE
    /\ coordinator' = ZeroedCoordinator
    /\ clients' = <<>>
    /\ next_active' = 0
    /\ current_epoch_rates' = NoRates
    /\ future_epoch_rates' = NoRates
    /\ is_warmup_first_tick' = FALSE
    /\ is_training_first_tick' = FALSE
    /\ rejoined' = {}

\* Mutant of CanUpdate: the run need not be halted.
CanUpdateAnytime(c) == c.run_state # "Finished"

\* update with a config, a model or a progress; one with several of them has
\* the effect of one after the other.
CanUpdate(c) == Halted(c) /\ c.run_state # "Finished"

UpdateConfig ==
    /\ open /\ CanUpdate(coordinator)
    /\ \E g \in Configs : coordinator' = [coordinator EXCEPT !.config = g]
    /\ configured' = TRUE
    /\ UNCHANGED <<open, clients, next_active, ratesVars, flags, rejoined>>

UpdateModel ==
    /\ open /\ CanUpdate(coordinator)
    /\ \E k \in UpdateCheckpoints :
          coordinator' = [coordinator EXCEPT !.checkpoint = k]
    /\ UNCHANGED <<open, configured, clients, next_active, ratesVars, flags,
                   rejoined>>

UpdateProgress ==
    /\ open /\ CanUpdate(coordinator)
    /\ \E p \in Progresses :
          coordinator' = [coordinator EXCEPT
                            !.epoch = p.epoch, !.step = p.step,
                            !.epoch_start_data_index = p.epoch_start_data_index]
    /\ UNCHANGED <<open, configured, clients, next_active, ratesVars, flags,
                   rejoined>>

\* Each rate is optional.
SetFutureEpochRates ==
    /\ open
    /\ \E e \in EarningRates \cup {future_epoch_rates.earning},
          s \in SlashingRates \cup {future_epoch_rates.slashing} :
          future_epoch_rates' = [earning |-> e, slashing |-> s]
    /\ UNCHANGED <<open, configured, coordinator, clients, next_active,
                   current_epoch_rates, flags, rejoined>>

\* set_paused(true) does not tick.
SetPaused ==
    /\ open /\ CanPause(coordinator)
    /\ coordinator' = Pause(coordinator)
    /\ UNCHANGED <<open, configured, clients, next_active, ratesVars, flags,
                   rejoined>>

\* The coordinator that set_paused(false) resumes: it leaves Uninitialized, at
\* step 1 whatever the progress was set to.
ReadyToResume(c) ==
    IF c.run_state = "Uninitialized"
    THEN [c EXCEPT !.run_state = "Paused", !.step = 1] ELSE c

\* set_paused(false) ticks, so that it fails on a run with no step left: the
\* coordinator that it resumes is Finished.
SetUnpaused ==
    LET c == ReadyToResume(coordinator)
    IN  /\ open /\ configured
        /\ coordinator.checkpoint.kind # "Ephemeral"
        /\ c.step > 0
        /\ CanResume(c)
        /\ next_active < MaxActive
        /\ \E seed \in Seeds : TickInstance(Resume(c), clients, next_active + 1, seed)
        /\ rejoined' = {}

-----------------------------------------------------------------------------
(* The instructions of clients, and of anybody. *)

TickInstruction ==
    /\ open
    /\ \E seed \in Seeds : TickInstance(coordinator, clients, next_active, seed)
    /\ Joins({})

\* A client that is known is active again.
Rejoin(registry, id, active) ==
    [k \in DOMAIN registry |->
        IF registry[k].id = id THEN [registry[k] EXCEPT !.active = active]
                               ELSE registry[k]]

\* configured: a zeroed config has room for no client.
JoinRun ==
    \E id \in ClientIds, seed \in Seeds :
      LET known == id \in Registered
          new == [id |-> id, earned |-> 0, slashed |-> 0, active |-> next_active]
          registry == IF known THEN Rejoin(clients, id, next_active)
                               ELSE Append(clients, new)
      IN  /\ open /\ configured
          /\ known \/ (/\ coordinator.config.global_batch_size_end # Len(clients)
                       /\ CanPush(clients, MaxClients))
          /\ IF Halted(coordinator)
             THEN /\ clients' = registry
                  /\ UNCHANGED <<open, configured, coordinator, next_active,
                                 ratesVars, flags>>
             ELSE TickInstance(coordinator, registry, next_active, seed)
          /\ Joins({id})

WitnessInstruction ==
    \E from \in Registered, index, position \in 0 .. MaxClients - 1,
       bloom \in Blooms, seed \in Seeds :
      LET w == [from |-> from, index |-> index, position |-> position,
                witness |-> TRUE, participants |-> bloom]
      IN  /\ open
          /\ CanWitness(coordinator, w)
          /\ TickInstance(WitnessEffect(coordinator, w), clients, next_active, seed)
          /\ Joins({})

\* The index is not verified: it may come from an earlier warmup.
WarmupWitnessInstruction ==
    \E from \in Registered, index \in 0 .. MaxClients - 1, seed \in Seeds :
      LET w == [from |-> from, index |-> index, position |-> index,
                witness |-> FALSE, participants |-> {}]
      IN  /\ open
          /\ CanWarmupWitness(coordinator, w)
          /\ TickInstance(WarmupWitness(coordinator, w, seed), clients,
                          next_active, seed)
          /\ Joins({})

\* One check per instruction, sent by any client of the registry.
HealthCheckInstruction ==
    \E id \in ClientIds, index, position \in 0 .. MaxClients - 1, seed \in Seeds :
      LET checks == {[id |-> id, index |-> index, position |-> position]}
      IN  /\ open /\ Registered # {}
          /\ CanHealthCheck(coordinator, checks)
          /\ TickInstance(HealthCheck(coordinator, checks), clients, next_active, seed)
          /\ Joins({})

\* A checkpoint is also recorded while the run is halted.
CheckpointInstruction ==
    \E from \in Registered, index \in 0 .. MaxClients - 1, repo \in Repos,
       seed \in Seeds :
      /\ open
      /\ CanCheckpoint(coordinator, from, index)
      /\ IF Halted(coordinator)
         THEN /\ coordinator' = RecordCheckpoint(coordinator, repo)
              /\ UNCHANGED <<open, configured, clients, next_active, ratesVars,
                             flags>>
         ELSE TickInstance(RecordCheckpoint(coordinator, repo), clients,
                           next_active, seed)
      /\ Joins({})

TimeStep ==
    /\ open
    /\ coordinator.age < MaxAge \/ coordinator.epoch_age < MaxAge
    /\ coordinator' = TimePasses(coordinator)
    /\ UNCHANGED <<open, configured, clients, next_active, ratesVars, flags,
                   rejoined>>

Next ==
    \/ InitCoordinator
    \/ FreeCoordinator
    \/ UpdateConfig
    \/ UpdateModel
    \/ UpdateProgress
    \/ SetFutureEpochRates
    \/ SetPaused
    \/ SetUnpaused
    \/ TickInstruction
    \/ JoinRun
    \/ WitnessInstruction
    \/ WarmupWitnessInstruction
    \/ HealthCheckInstruction
    \/ CheckpointInstruction
    \/ TimeStep

Spec == Init /\ [][Next]_vars

-----------------------------------------------------------------------------
(* Properties. *)

\* Every field of the account keeps its type.
TypeOK ==
    /\ open \in BOOLEAN /\ configured \in BOOLEAN
    /\ coordinator \in CoordinatorType
    /\ clients \in Seq(RegisteredClient) /\ Len(clients) <= MaxClients
    /\ next_active \in Nat
    /\ current_epoch_rates \in EpochRates /\ future_epoch_rates \in EpochRates
    /\ is_warmup_first_tick \in BOOLEAN /\ is_training_first_tick \in BOOLEAN
    /\ rejoined \in SUBSET ClientIds

\* Whatever the owner updates between epochs, and although every instruction
\* ticks, the coordinator on chain keeps the invariant of Coordinator<T>.
OnChainInvariant == CoordinatorInv(coordinator)

\* The clients of an epoch stand in the order of the registry.  The single pass
\* of tick() over both lists misses nobody for this reason alone.
EpochInRegistryOrder ==
    \E f \in [DOMAIN coordinator.clients -> DOMAIN clients] :
       /\ \A i \in DOMAIN f : clients[f[i]].id = coordinator.clients[i].id
       /\ \A i, j \in DOMAIN f : i < j => f[i] < f[j]

\* The end of an epoch pays every client that finished it healthy the same
\* share of the rate, once, and nobody else; no other step pays.  A pause that was asked
\* for during the epoch withdraws everybody before the payment, so that nobody is among
\* those that finished: see FinishersRewarded.
FinishersPaidOnce ==
    [][open' /\ open =>
         \A k \in DOMAIN clients :
           LET finishers == {i \in DOMAIN coordinator'.clients :
                               coordinator'.clients[i].state = "Healthy"}
               finished == \E i \in finishers :
                              coordinator'.clients[i].id = clients[k].id
               ended == coordinator'.epoch # coordinator.epoch
                          /\ coordinator.run_state = "Cooldown"
           IN  clients'[k].earned - clients[k].earned =
                 IF ended /\ finished
                 THEN current_epoch_rates.earning \div Cardinality(finishers)
                 ELSE 0]_vars

\* "Each client is rewarded at the end of an epoch if the client sucessfully completed the
\* whole epoch" (psyche-book/src/explain/rewards.md): whoever was still healthy in the
\* cooldown has its share once the epoch has ended.
FinishersRewarded ==
    [][open' /\ open /\ coordinator.run_state = "Cooldown"
         /\ coordinator'.epoch # coordinator.epoch =>
         LET finishers == {coordinator.clients[i].id :
                             i \in {j \in DOMAIN coordinator.clients :
                                       coordinator.clients[j].state = "Healthy"}}
         IN  \A k \in DOMAIN clients :
               clients[k].id \in finishers =>
                 clients'[k].earned = clients[k].earned
                   + current_epoch_rates.earning \div Cardinality(finishers)]_vars

\* The rates of an epoch are those set when its warmup starts: a later
\* set_future_epoch_rates does not change what its clients were promised.
RatesFixedInEpoch ==
    [][open' /\ current_epoch_rates' # current_epoch_rates =>
         /\ coordinator.run_state = "WaitingForMembers"
         /\ coordinator'.run_state = "Warmup"]_vars

\* The clients that an epoch may admit are those that joined since training last
\* started or the run was last resumed: no join is lost, and nobody takes part
\* in two epochs with one join.
JoinsCount ==
    /\ coordinator.run_state = "WaitingForMembers" =>
         rejoined = {clients[k].id : k \in {j \in DOMAIN clients :
                                              clients[j].active = next_active}}
    /\ coordinator.run_state = "Warmup" =>
         \A i \in DOMAIN coordinator.clients : coordinator.clients[i].id \in rejoined

\* Both lists of the account agree on who takes part: an epoch has the clients that
\* joined for it, and stands in the order of the registry, so that neither a join nor
\* a reward goes to somebody else, however instructions are interleaved.
EpochFromRegistry ==
    /\ EpochInRegistryOrder
    /\ JoinsCount
=============================================================================
