---------------------------- MODULE Coordinator -----------------------------
(***************************************************************************)
(* A coordinator driven by any owner: its public methods are called in any *)
(* order, with the arguments that clients, the clock and the operator of   *)
(* the run can produce.  The centralized server and the Solana program are *)
(* two owners that restrict this behaviour.                                *)
(***************************************************************************)
EXTENDS CoordinatorOps

CONSTANTS
    InitialCheckpoints, \* what a run may start training from
    Blooms              \* the participant filters that witnesses may report

ASSUME InputsAssumption ==
    /\ InitialCheckpoints \subseteq Checkpoint
    /\ Blooms \subseteq SUBSET ClientIds

VARIABLES
    coordinator, \* the Coordinator<T>
    rosters      \* ghost: the identities that started each stored round

vars == <<coordinator, rosters>>

Ids(clients) == {clients[i].id : i \in DOMAIN clients}

\* Orderings of some pending clients, each listed once.
PendingClients ==
    UNION {{s \in [1 .. n -> ClientIds] :
               \A i, j \in 1 .. n : s[i] = s[j] => i = j}
           : n \in 0 .. Cardinality(ClientIds)}

Init ==
    /\ \E g \in Configs, ckpt \in InitialCheckpoints :
          coordinator = FreshCoordinator(g, ckpt, "WaitingForMembers")
    /\ rosters = [r \in RoundSlots |-> {}]

\* The coordinator becomes c; the ghost records who starts a round.
Becomes(c) ==
    /\ coordinator' = c
    /\ rosters' = IF c.run_state = "RoundTrain" /\ coordinator.run_state # "RoundTrain"
                  THEN [rosters EXCEPT ![c.rounds_head] = Ids(c.clients)]
                  ELSE rosters

\* Only a coordinator that waits for members looks at the pending clients.
TickStep ==
    /\ CanTick(coordinator)
    /\ \E pending \in IF coordinator.run_state = "WaitingForMembers"
                      THEN PendingClients ELSE {<<>>},
          seed \in Seeds :
          \E ticked \in {Tick(coordinator, pending, seed)} : Becomes(ticked.st)

\* The index is one that the sender could have seen in this epoch: it only
\* ever moves down as other clients leave.
WarmupWitnessStep ==
    \E from \in ClientIds, index \in 0 .. MaxClients - 1, seed \in Seeds :
       LET w == [from |-> from, index |-> index, position |-> index,
                 witness |-> FALSE, participants |-> {}]
       IN  /\ \E i \in 0 .. index : VerifyClient(coordinator, from, i)
           /\ index < Len(coordinator.clients) + Len(coordinator.exited_clients)
           /\ CanWarmupWitness(coordinator, w)
           /\ Becomes(WarmupWitness(coordinator, w, seed))

WitnessStep ==
    \E from \in ClientIds, index, position \in 0 .. MaxClients - 1,
       bloom \in Blooms :
       LET w == [from |-> from, index |-> index, position |-> position,
                 witness |-> TRUE, participants |-> bloom]
       IN  /\ CanWitness(coordinator, w)
           /\ Becomes(WitnessEffect(coordinator, w))

\* A health check names clients of the previous round by their index there.
HealthCheckStep ==
    \E indexes \in SUBSET (0 .. MaxClients - 1) :
       LET round == PreviousRound(coordinator)
           checks == {[id |-> HistoricalClient(coordinator, i, round.clients_len).id,
                       index |-> i,
                       position |-> Position("committee", round, i)] : i \in indexes}
       IN  /\ \A i \in indexes :
                 i < round.clients_len
                 /\ HasHistoricalClient(coordinator, i, round.clients_len)
           /\ CanHealthCheck(coordinator, checks)
           /\ Becomes(HealthCheck(coordinator, checks))

CheckpointStep ==
    \E index \in 0 .. MaxClients - 1, repo \in Repos :
       /\ Has(coordinator.clients, index)
       /\ CanCheckpoint(coordinator, At(coordinator.clients, index).id, index)
       /\ Becomes(RecordCheckpoint(coordinator, repo))

WithdrawStep ==
    \E index \in 0 .. MaxClients - 1 :
       /\ CanWithdraw(coordinator, index)
       /\ Becomes(Withdraw(coordinator, index))

PauseStep == CanPause(coordinator) /\ Becomes(Pause(coordinator))

\* A pause that fails keeps the withdrawals it made before the error.
PauseFailsStep == PauseFails(coordinator) /\ Becomes(WithdrawAll(coordinator))

ResumeStep == CanResume(coordinator) /\ Becomes(Resume(coordinator))

TimeStep ==
    /\ coordinator.age < MaxAge \/ coordinator.epoch_age < MaxAge
    /\ Becomes(TimePasses(coordinator))

Next ==
    \/ TickStep
    \/ WarmupWitnessStep
    \/ WitnessStep
    \/ HealthCheckStep
    \/ CheckpointStep
    \/ WithdrawStep
    \/ PauseStep
    \/ PauseFailsStep
    \/ ResumeStep
    \/ TimeStep

Spec == Init /\ [][Next]_vars

\* The server ticks every 500 ms, and anybody may send a tick transaction; the
\* clock advances.  Clients owe nothing.
Fairness == WF_vars(TickStep) /\ WF_vars(TimeStep)

FairSpec == Spec /\ Fairness

-----------------------------------------------------------------------------
(* Properties. *)

\* Every field of Coordinator<T> keeps its type.
TypeOK ==
    /\ coordinator \in CoordinatorType
    /\ rosters \in [RoundSlots -> SUBSET ClientIds]

\* A pause is pending only while an epoch is being trained or cools down:
\* pause(), tick_cooldown() and every way out of an epoch agree on the flag,
\* so that no stale request pauses a later epoch.
PendingPauseIsActive == PauseInEpoch(coordinator)

\* While a round is open, every stored witness was sent by the client at its
\* index, holds the position that the seed of the round gives it, and is the
\* only one of its sender.  The lookups epoch_state.clients[proof.index] of
\* witness() are therefore within bounds and find duplicates by identity.
WitnessesInPlace == WitnessesVerified(coordinator)

\* A training round is left as soon as its whole witness committee has
\* reported: witness() compares the number of witnesses with ==, and the
\* number it waits for must not change while the round is open.
OpenRoundIsShortOfWitnesses == ShortOfWitnesses(coordinator)

\* The clients that left during an epoch and those still there fit in one
\* vector together and are listed once: the push(..).unwrap() of
\* move_clients_to_exited cannot panic, and no client comes back in the epoch
\* that it left.
EpochRosterFits == RosterFits(coordinator)

\* The ring of stored rounds holds the last rounds of the epoch, and
\* get_client_at_historical_index finds, for each of them, exactly the
\* clients that started it, however many left since and in whichever order.
HistoricalClientsComplete ==
    Active(coordinator) =>
      \A back \in 0 .. NumStoredRounds - 1 :
        LET head == coordinator.rounds_head
            slot == (head + NumStoredRounds - back) % NumStoredRounds
            round == coordinator.rounds[slot]
            found == {i \in 0 .. round.clients_len - 1 :
                        HasHistoricalClient(coordinator, i, round.clients_len)}
        IN  back <= CurrentRound(coordinator).height =>
              /\ round.height = CurrentRound(coordinator).height - back
              /\ found = 0 .. round.clients_len - 1
              /\ {HistoricalClient(coordinator, i, round.clients_len).id : i \in found}
                    = rosters[slot]

\* A round follows another one of the epoch only if that one had a quorum of
\* witnesses, and at least one: witness_quorum(0), which is unreachable!(),
\* is never asked for by a health check.
PreviousRoundWitnessed == FollowsQuorum(coordinator)

\* The last step, once set, is ahead of every open round and at most two steps
\* ahead: tick_round_witness compares with == and cannot miss it.
LastStepAhead == LastStepClose(coordinator)

\* The inductive invariant: the properties above hold together, and with them the
\* two parts of CoordinatorInv that they need, that a warmup starts its epoch afresh
\* and that an epoch starts only while steps are left.  CoordinatorProofs proves it.
Inv ==
    /\ CoordinatorInv(coordinator)
    /\ rosters \in [RoundSlots -> SUBSET ClientIds]

\* The coordinator keeps the training ledger: see TrainingLedger.
Ledger == INSTANCE TrainingLedger WITH
    config <- coordinator.config,
    step <- coordinator.step,
    training <- InRound(coordinator),
    next <- LedgerIndex(coordinator)

\* Steps are trained in order, on contiguous batches, and never beyond
\* total_steps, across rounds, epochs, pauses and abandoned warmups.
KeepsLedger == Ledger!LedgerSpec

\* A pause that was asked for during an epoch takes effect.
PauseHonoured == coordinator.pending_pause ~> coordinator.run_state = "Paused"

\* An epoch does not go on for ever, even if no client ever answers.
EpochEnds == Active(coordinator) ~> ~Active(coordinator)

=============================================================================
