---------------------------- MODULE ClientSteps -----------------------------
(***************************************************************************)
(* RunManager and StepStateMachine (shared/client/src/state): one client,  *)
(* Me, follows the states of the coordinator, trains its batch of every    *)
(* round, collects the results of the others, witnesses them and applies   *)
(* the ones that the witnesses agreed on.  The main loop of the client     *)
(* (shared/client/src/client.rs) handles one event at a time; trainings,   *)
(* downloads and deserializations are tasks that run between its events.   *)
(*                                                                         *)
(* The rest of the network is the environment: a coordinator that takes    *)
(* its transitions at any time, another trainer, Other, whose messages     *)
(* arrive late, more than once or never, and a third client, Extra, whose  *)
(* only effect is its place in the list of clients.                        *)
(*                                                                         *)
(* Abstractions.                                                           *)
(*  - A round has at most one batch for each of the two trainers, so that  *)
(*    a result is named by its step and its trainer.  Its blob hash, its   *)
(*    commitment and its ticket are told apart by that pair.               *)
(*  - One witness is elected in each round, so that its vote is the        *)
(*    consensus.  A bloom filter is the set it holds.                      *)
(*  - The downloads, blooms and remaining batches of a round are shared    *)
(*    with tasks by reference; they are kept by step.                      *)
(*  - A download that fails for good, or whose payload does not match its  *)
(*    commitment, is one that never ends.                                  *)
(*  - Of the finished broadcasts only the last one that was missing is     *)
(*    seen by a guard: those of the others are accepted together.          *)
(***************************************************************************)
EXTENDS FixedVec, SequencesExt

CONSTANTS
    Me, Other, Extra,
    Memberships, \* the client lists with which an epoch may start
    Assigned(_), \* the trainers that have a batch in the round of a step
    Droppable,   \* the clients that may leave during an epoch
    Doubtful,    \* the trainers whose results may turn out to be unusable
    LastStep,    \* bound on the steps of the coordinator
    MaxEpochs,   \* bound on the warmups
    MaxIncidents \* bound on the epochs cut short, the clients that leave and the
                 \* coordinator states that Me never sees, taken together

Trainers == {Me, Other}

Steps == 1 .. LastStep

ASSUME ClientAssumption ==
    /\ LastStep \in Nat \ {0} /\ MaxEpochs \in Nat /\ MaxIncidents \in Nat
    /\ Me # Other /\ Me # Extra /\ Other # Extra
    /\ Memberships \subseteq Seq({Me, Other, Extra})
    /\ \A s \in Steps : Assigned(s) \subseteq Trainers

VARIABLES
    coord,    \* the coordinator's state, as far as clients read it
    mail,     \* witnesses of Me that have not reached the coordinator
    fresh,    \* Me has not seen the state that the coordinator is in
    missed,   \* ghost: there was a state of the coordinator that Me has not seen
    stage,    \* InitStage, or Failed once an error has ended the client
    init,     \* the init_run task and the state that it was spawned with
    failure,  \* the error that ended the client
    active,   \* active_step
    cs,       \* coordinator_state
    current,  \* current_round
    previous, \* previous_round
    payload,  \* per step and trainer: how far its result has come
    task,     \* applying_and_training
    outbox,   \* rx_distro_result: results of Me to announce
    warmup,   \* sent_warmup_finished and sent_warmup_witness
    applied,  \* ghost: the results that Me has applied in this round
    lost,     \* ghost: the agreed ones that Me never heard of or could not use
    late      \* ghost: Me was not ready when the first round began

coordVars == <<coord, mail, fresh, missed>>
ghostVars == <<applied, lost, late>>
roundVars == <<current, previous, payload>>
clientVars ==
    <<coord, mail, fresh, missed, stage, init, failure, active, cs, current,
      previous, payload, task, outbox, warmup, applied, lost, late>>

-----------------------------------------------------------------------------
(* Rounds. *)

NoVote == [cast |-> FALSE, results |-> {}]

\* RoundState::new.  remaining and complete stand for the optional set
\* batch_ids_not_yet_trained_on; the witnesses sent about the round and whether one
\* went out before the end of the training are ghosts.
EmptyRound ==
    [step |-> 0, height |-> 0, sent_witness |-> FALSE, sent_finished |-> FALSE,
     results |-> {}, finished |-> {}, assigned |-> {}, clients |-> <<>>,
     committee |-> FALSE, witness |-> FALSE, bloom |-> {}, remaining |-> {},
     complete |-> TRUE, votes |-> 0, early |-> FALSE]

\* The last two rounds of an epoch only apply results.
HasTraining(c) == c.last_step = 0

IsMember(c, client) == Contains(c.clients, client)

\* The place of a client in a list, or 0.
Place(clients, client) ==
    IF Contains(clients, client)
    THEN CHOOSE i \in DOMAIN clients : clients[i] = client ELSE 0

PayloadStates ==
    {"none", "Downloading", "Voted", "Deserializing", "Ready", "Unusable"}

\* Its task has deserialized the result, or has failed to.
Deserialized == {"Ready", "Unusable"}

NoPayloads == [t \in Trainers |-> "none"]

\* What the client reads again of a coordinator state that it has applied.
View(c) == [run_state |-> c.run_state, clients |-> c.clients]

CoordStates == {"WaitingForMembers", "Warmup", "RoundTrain", "RoundWitness",
                "Cooldown", "Paused", "Finished"}

CoordType ==
    [run_state : CoordStates, step : Nat, height : Nat, last_step : Nat,
     epoch : Nat, clients : Seq({Me, Other, Extra}), elected : Trainers,
     assigned : SUBSET Trainers, prev_assigned : SUBSET Trainers,
     published : SUBSET Steps, incidents : 0 .. MaxIncidents,
     vote : [cast : BOOLEAN, results : SUBSET Trainers],
     prev_vote : [cast : BOOLEAN, results : SUBSET Trainers]]

RoundType ==
    [step : Nat, height : Nat, sent_witness : BOOLEAN, sent_finished : BOOLEAN,
     results : SUBSET Trainers, finished : SUBSET {Me, Other, Extra},
     assigned : SUBSET Trainers, clients : Seq({Me, Other, Extra}),
     committee : BOOLEAN, witness : BOOLEAN, bloom : SUBSET Trainers,
     remaining : SUBSET Trainers, complete : BOOLEAN,
     votes : Nat, early : BOOLEAN]

\* The state of the client has its types, and results are collected only for
\* the rounds that it still looks at.
ClientTypeOK ==
    /\ coord \in CoordType
    /\ cs \in [run_state : CoordStates, clients : Seq({Me, Other, Extra})]
    /\ current \in RoundType /\ previous \in RoundType
    /\ stage \in {"NotYetInitialized", "Initializing", "Running", "Failed"}
    /\ failure \in {"none", "Init", "Desync", "Apply", "NoActiveRound"}
    /\ active \in {"Warmup", "Training", "Witness", "Cooldown"}
    /\ payload \in [Steps -> [Trainers -> PayloadStates]]
    /\ \A s \in Steps :
          payload[s] # NoPayloads =>
             s \in {current.step, previous.step, task.step}

NoTask == [phase |-> "idle", step |-> 0, results |-> {}, assigned |-> {},
           vote |-> {}, training |-> FALSE, finished |-> FALSE,
           early |-> FALSE, checks |-> 0]

ClientInit ==
    /\ coord = [run_state |-> "WaitingForMembers", step |-> 1, height |-> 0,
                epoch |-> 0, last_step |-> 0, clients |-> <<>>, elected |-> Other,
                assigned |-> {}, prev_assigned |-> {}, published |-> {},
                incidents |-> 0, vote |-> NoVote, prev_vote |-> NoVote]
    /\ mail = {}
    /\ fresh = TRUE
    /\ missed = FALSE
    /\ stage = "NotYetInitialized"
    /\ init = "running"
    /\ failure = "none"
    /\ active = "Warmup"
    /\ cs = View(coord)
    /\ current = EmptyRound
    /\ previous = EmptyRound
    /\ payload = [s \in Steps |-> NoPayloads]
    /\ task = NoTask
    /\ outbox = {}
    /\ warmup = [finished |-> FALSE, witness |-> FALSE]
    /\ applied = {}
    /\ lost = {}
    /\ late = FALSE

-----------------------------------------------------------------------------
(* The coordinator, as CoordinatorOps describes it. *)

\* Its next state, after a tick or a message of somebody.
CoordinatorStep(next, incident) ==
    LET incidents == coord.incidents + Cardinality({i \in {1, 2} :
                        \/ i = 1 /\ fresh
                        \/ i = 2 /\ incident})
    IN  /\ incidents <= MaxIncidents
        /\ coord' = [next EXCEPT !.incidents = incidents]
        /\ missed' = (missed \/ fresh)
        /\ fresh' = TRUE
        /\ UNCHANGED <<mail, stage, init, failure, active, cs, roundVars, task,
                       outbox, warmup, ghostVars>>

StartEpoch ==
    /\ coord.run_state = "WaitingForMembers"
    /\ coord.epoch < MaxEpochs
    /\ \E clients \in Memberships :
          CoordinatorStep([coord EXCEPT
             !.epoch = @ + 1, !.run_state = "Warmup", !.clients = clients, !.height = 0,
             !.last_step = 0, !.vote = NoVote, !.prev_vote = NoVote], FALSE)

AbandonEpoch ==
    /\ coord.run_state = "Warmup"
    /\ CoordinatorStep([coord EXCEPT !.run_state = "WaitingForMembers"], TRUE)

StartFirstRound ==
    /\ coord.run_state = "Warmup"
    /\ \E elected \in Trainers \cap Range(coord.clients) :
          CoordinatorStep([coord EXCEPT
             !.run_state = "RoundTrain", !.elected = elected,
             !.assigned = Assigned(coord.step), !.prev_assigned = {}], FALSE)

EndTraining ==
    /\ coord.run_state = "RoundTrain"
    /\ CoordinatorStep([coord EXCEPT !.run_state = "RoundWitness"], FALSE)

\* The list after a round: at most one client was dropped or withdrew.
AfterRound(clients) ==
    {clients} \cup {Retain(clients, {i \in DOMAIN clients : clients[i] # gone}) :
                       gone \in Droppable}

\* tick_round_witness starts another round.  Its witnesses agreed on results of
\* the round before the one that ends.
StartNextRound ==
    /\ coord.run_state = "RoundWitness"
    /\ coord.vote.cast
    /\ coord.step + 1 \in Steps
    /\ coord.step + 1 # coord.last_step
    /\ \E clients \in AfterRound(coord.clients), ending \in BOOLEAN :
       \E elected \in Trainers \cap Range(clients) :
          /\ ending => coord.last_step = 0 /\ coord.step + 3 >= 4
          /\ CoordinatorStep([coord EXCEPT
                !.run_state = "RoundTrain", !.step = @ + 1, !.height = @ + 1,
                !.last_step = IF ending THEN coord.step + 3 ELSE @,
                !.clients = clients, !.elected = elected,
                !.assigned = IF ending \/ coord.last_step # 0 THEN {}
                             ELSE Assigned(coord.step + 1) \cap Range(clients),
                !.prev_assigned = coord.assigned,
                !.published = {s \in @ : s = coord.step},
                !.vote = NoVote, !.prev_vote = coord.vote],
                clients # coord.clients)

\* tick_round_witness ends the epoch: it was the last step, there was no witness or
\* too few clients are left, or the run is to pause.
StartCooldown ==
    /\ coord.run_state = "RoundWitness"
    /\ coord.step + 1 \in Steps
    /\ CoordinatorStep([coord EXCEPT
          !.run_state = "Cooldown", !.step = @ + 1, !.vote = NoVote,
          !.prev_vote = NoVote, !.assigned = {}, !.prev_assigned = {},
          !.published = {}],
          ~(coord.vote.cast /\ coord.step + 1 = coord.last_step))

EndEpoch ==
    /\ coord.run_state = "Cooldown"
    /\ \E state \in {"WaitingForMembers", "Paused", "Finished"} :
          CoordinatorStep([coord EXCEPT !.run_state = state], FALSE)

Resume ==
    /\ coord.run_state = "Paused"
    /\ CoordinatorStep([coord EXCEPT !.run_state = "WaitingForMembers"], FALSE)

\* Another client is the witness and votes for results of the previous round.
OtherWitnesses ==
    /\ coord.run_state \in {"RoundTrain", "RoundWitness"}
    /\ coord.elected = Other /\ ~coord.vote.cast
    /\ \E results \in SUBSET coord.prev_assigned :
          /\ Me \in results => coord.step - 1 \in coord.published
          /\ coord' = [coord EXCEPT !.vote = [cast |-> TRUE, results |-> results]]
    /\ UNCHANGED <<mail, fresh, missed, stage, init, failure, active, cs,
                   roundVars, task, outbox, warmup, ghostVars>>

\* A witness of Me arrives.  It carries no round number: one from an earlier
\* round is accepted too, but it holds no commitment of the right round.
WitnessArrives ==
    \E m \in mail :
       /\ mail' = mail \ {m}
       /\ coord' = IF /\ coord.run_state \in {"RoundTrain", "RoundWitness"}
                      /\ coord.elected = Me /\ IsMember(coord, Me)
                      /\ ~coord.vote.cast
                   THEN [coord EXCEPT !.vote =
                           [cast |-> TRUE,
                            results |-> IF m.step = coord.step THEN m.results
                                                               ELSE {}]]
                   ELSE coord
       /\ UNCHANGED <<fresh, missed, stage, init, failure, active, cs, roundVars,
                      task, outbox, warmup, ghostVars>>

CoordinatorNext ==
    \/ StartEpoch \/ AbandonEpoch \/ StartFirstRound \/ EndTraining
    \/ StartNextRound \/ StartCooldown \/ EndEpoch \/ Resume
    \/ OtherWitnesses \/ WitnessArrives

-----------------------------------------------------------------------------
(* StepStateMachine::apply_state *)

Fail(error) ==
    /\ stage' = "Failed"
    /\ failure' = error

GoOn == stage' = "Running" /\ UNCHANGED failure

\* get_witness_to_send
GetWitness(prev) == [prev EXCEPT !.sent_witness = TRUE, !.votes = @ + 1]

\* It returns a witness.
HasWitness(prev, cur) == ~prev.sent_witness /\ cur.committee /\ cur.witness

\* WarmupStepMetadata::start resets both rounds and keeps the trainers.
BackToWarmup ==
    /\ active' = "Warmup"
    /\ current' = EmptyRound
    /\ previous' = EmptyRound
    /\ payload' = [s \in Steps |-> NoPayloads]
    /\ task' = NoTask

\* The results of the rounds that no longer matter are dropped.
KeepPayloads(kept) ==
    payload' = [s \in Steps |-> IF s \in kept THEN payload[s] ELSE NoPayloads]

\* RoundState of the round that starts.
NewRound(state) ==
    LET training == HasTraining(state)
        assigned == state.assigned
    IN  [step |-> state.step, height |-> state.height,
         sent_witness |-> FALSE, sent_finished |-> FALSE, results |-> {},
         finished |-> {}, assigned |-> assigned, clients |-> state.clients,
         committee |-> TRUE, witness |-> state.elected = Me, bloom |-> {},
         remaining |-> assigned, complete |-> ~training,
         votes |-> 0, early |-> FALSE]

\* start_sending_health_checks: a witness of the round that ends, if there was
\* a round before it.
SendsHealthChecks == current.height # 0 /\ current.witness

\* Mutant of HasResultsToApply: the second round of an epoch is taken for the first.
HasResultsToApplyLater == current.height > 1

\* There was a round before the one that ends.
HasResultsToApply == current.height # 0

\* TrainingStepMetadata::start.  apply_results takes the results and payloads of
\* the previous round, unless the round that ends is the first one; the task
\* applies them and then trains.  Without training, its finished flag is set even
\* before the results are applied.
StartTraining(state) ==
    LET applies == HasResultsToApply
        training == HasTraining(state)
    IN  IF applies /\ ~previous.committee
        THEN /\ Fail("NoActiveRound")
             /\ UNCHANGED <<active, cs, roundVars, task, applied, lost>>
        ELSE /\ active' = "Training"
             /\ cs' = View(state)
             /\ previous' = [current EXCEPT !.finished = {}]
             /\ current' = NewRound(state)
             /\ task' = [phase |-> "applying",
                         step |-> IF applies THEN previous.step ELSE 0,
                         results |-> previous.results,
                         assigned |-> previous.assigned,
                         vote |-> state.prev_vote.results,
                         training |-> training, finished |-> ~training,
                         early |-> previous.early,
                         checks |-> IF SendsHealthChecks THEN state.height ELSE 0]
             /\ KeepPayloads({current.step} \cup
                             (IF applies THEN {previous.step} ELSE {}))
             /\ applied' = {}
             /\ lost' = {}
             /\ GoOn

\* TrainingStep::finish waits for the task, whose error comes out now.
TrainingFinishes(state) ==
    IF task.phase = "error"
    THEN /\ Fail("Apply")
         /\ UNCHANGED <<active, cs, roundVars, task, mail, applied, lost>>
    ELSE /\ task.phase # "applying"
         /\ active' = "Witness"
         /\ cs' = View(state)
         /\ task' = NoTask
         /\ previous' = IF HasWitness(previous, current)
                        THEN GetWitness(previous) ELSE previous
         /\ mail' = IF HasWitness(previous, current)
                    THEN mail \cup {[step |-> current.step, results |-> previous.bloom]}
                    ELSE mail
         /\ KeepPayloads({current.step, previous.step})
         /\ GoOn
         /\ UNCHANGED <<current, applied, lost>>

\* The run state changes nothing: allowed_in_run_state.
StayInStep(state) ==
    /\ cs' = View(state)
    /\ GoOn
    /\ UNCHANGED <<active, roundVars, task, mail, warmup, applied, lost>>

AllowedInRunState(step, run_state) ==
    \/ step = "Warmup" /\ run_state \in {"Warmup", "WaitingForMembers", "Paused"}
    \/ step = "Cooldown" /\ run_state = "Cooldown"
    \/ step = "Training" /\ run_state = "RoundTrain"
    \/ step = "Witness" /\ run_state = "RoundWitness"

\* Cooldown is done.
EntersWarmup(step, run_state) ==
    step = "Cooldown" /\ run_state \in {"WaitingForMembers", "Warmup", "Paused"}

\* A client that is not in the list goes back to warmup and forgets the state.
ApplyNotMember(state) ==
    /\ ~IsMember(state, Me)
    /\ task.phase # "applying"
    /\ IF task.phase = "error"
       THEN Fail("Apply") /\ UNCHANGED <<active, roundVars, task>>
       ELSE /\ IF active = "Warmup" THEN UNCHANGED <<active, roundVars, task>>
                                    ELSE BackToWarmup
            /\ GoOn
    /\ UNCHANGED <<cs, mail, warmup, applied, lost>>

ApplyMember(state) ==
    /\ IsMember(state, Me)
    /\ \/ /\ active = "Warmup" /\ state.run_state = "RoundTrain"
          /\ warmup' = [finished |-> FALSE, witness |-> FALSE]
          /\ StartTraining(state)
          /\ UNCHANGED mail
       \/ /\ active = "Training" /\ state.run_state = "RoundWitness"
          /\ TrainingFinishes(state)
          /\ UNCHANGED warmup
       \/ /\ active = "Witness" /\ state.run_state = "RoundTrain"
          /\ StartTraining(state)
          /\ UNCHANGED <<mail, warmup>>
       \/ /\ active = "Witness" /\ state.run_state = "Cooldown"
          /\ active' = "Cooldown"
          /\ cs' = View(state)
          /\ GoOn
          /\ UNCHANGED <<roundVars, task, mail, warmup, applied, lost>>
       \/ /\ EntersWarmup(active, state.run_state)
          /\ BackToWarmup
          /\ cs' = View(state)
          /\ GoOn
          /\ UNCHANGED <<mail, warmup, applied, lost>>
       \/ /\ AllowedInRunState(active, state.run_state)
          /\ StayInStep(state)
       \/ /\ ~AllowedInRunState(active, state.run_state)
          /\ ~EntersWarmup(active, state.run_state)
          /\ <<active, state.run_state>> \notin
                {<<"Warmup", "RoundTrain">>, <<"Training", "RoundWitness">>,
                 <<"Witness", "RoundTrain">>, <<"Witness", "Cooldown">>}
          /\ Fail("Desync")
          /\ UNCHANGED <<active, cs, roundVars, task, mail, warmup, applied, lost>>

ApplyState(state) == ApplyNotMember(state) \/ ApplyMember(state)

-----------------------------------------------------------------------------
(* RunManager::apply_state: poll_next has returned the coordinator's state. *)

\* The first warmup with Me among the clients spawns init_run.
BeginInit ==
    /\ stage = "NotYetInitialized"
    /\ stage' = IF coord.run_state = "Warmup" /\ IsMember(coord, Me)
                THEN "Initializing" ELSE stage
    /\ cs' = View(coord)
    /\ UNCHANGED <<failure, active, roundVars, task, mail, warmup, applied, lost>>

\* The state is ignored while the model is loaded, and while the network waits.
WaitsInInit(state) ==
    \/ state.run_state \in {"WaitingForMembers", "Paused"}
    \/ init = "running"

\* The first round of the epoch has begun and Me will not see its RoundTrain.
TooLate(state) ==
    /\ coord.run_state \in {"RoundTrain", "RoundWitness", "Cooldown"}
    /\ ~ /\ coord.run_state = "RoundTrain" /\ coord.height = 0
         /\ fresh \/ state = coord

\* A finished init_run makes a StepStateMachine in its warmup, which takes the
\* state at once.
FinishInit(state) ==
    /\ stage = "Initializing"
    /\ ~WaitsInInit(state)
    /\ IF init = "failed"
       THEN /\ Fail("Init")
            /\ UNCHANGED <<active, cs, roundVars, task, mail, warmup, applied, lost>>
       ELSE ApplyState(state)

NoteLate(state) ==
    late' = \/ late
            \/ stage = "Initializing" /\ stage' # stage /\ TooLate(state)
            \/ active = "Warmup" /\ active' = "Training" /\ state.height # 0

\* The coordinator is published whenever anything in it changes, and so the same
\* run state may come again.
ObserveState ==
    /\ fresh' = FALSE
    /\ \/ BeginInit
       \/ stage = "Initializing" /\ WaitsInInit(coord)
             /\ UNCHANGED <<stage, failure, active, cs, roundVars, task, mail,
                            warmup, applied, lost>>
       \/ FinishInit(coord)
       \/ stage = "Running" /\ ApplyState(coord)
    /\ NoteLate(coord)
    /\ UNCHANGED <<coord, missed, init, outbox>>

\* init_run: the model is loaded from the hub, or from the other clients.
InitRunEnds ==
    /\ stage = "Initializing" /\ init = "running"
    /\ init' \in {"ok", "failed"}
    /\ UNCHANGED <<coordVars, stage, failure, active, cs, roundVars, task,
                   outbox, warmup, ghostVars>>

-----------------------------------------------------------------------------
(* The training task. *)

\* apply_results.  A batch that nobody announced, or that has no consensus, is
\* skipped; a result that was agreed on and whose task has not ended ends this one.
\* One that is unusable is passed over with a line in the log.
ApplyResults ==
    LET agreement == task.assigned \cap task.results \cap task.vote
        usable == {t \in agreement : payload[task.step][t] = "Ready"}
    IN  /\ task.phase = "applying"
        /\ IF task.step = 0
           THEN /\ task' = [task EXCEPT !.phase = "training"]
                /\ UNCHANGED ghostVars
           ELSE IF \E t \in agreement : payload[task.step][t] \notin Deserialized
           THEN /\ task' = [task EXCEPT !.phase = "error"]
                /\ UNCHANGED ghostVars
           ELSE /\ task' = [task EXCEPT !.phase = "training"]
                /\ applied' = usable
                /\ lost' = ((task.assigned \cap task.vote) \ task.results)
                              \cup {t \in agreement : payload[task.step][t] = "Unusable"}
                /\ UNCHANGED late
        /\ UNCHANGED <<coordVars, stage, init, failure, active, cs, roundVars,
                       outbox, warmup>>

\* The task ends and sets the finished flag: Me has trained its batch and the
\* result is queued; or there is no batch, or its data could not be fetched.
TrainingEnds ==
    /\ task.phase = "training" /\ task.training /\ ~task.finished
    /\ task' = [task EXCEPT !.finished = TRUE]
    /\ \/ UNCHANGED outbox
       \/ Me \in current.assigned /\ outbox' = outbox \cup {current.step}
    /\ UNCHANGED <<coordVars, stage, init, failure, active, cs, roundVars, warmup,
                   ghostVars>>

-----------------------------------------------------------------------------
(* apply_message *)

\* The round that a broadcast is for.
RoundOf(step) == IF current.step = step THEN current ELSE previous

WithRound(step, round) ==
    IF current.step = step THEN current' = round /\ UNCHANGED previous
                           ELSE previous' = round /\ UNCHANGED current

\* verify_committee_for_client: the proof was made with the client list of the
\* round and is verified with the list of the last state that was applied.
VerifyCommittee(from, round) ==
    /\ Contains(round.clients, from)
    /\ Place(cs.clients, from) = Place(round.clients, from)

\* A broadcast is looked at: its step is one of the two rounds and its sender
\* belongs to the committee.
Accepts(from, step) ==
    /\ stage = "Running"
    /\ step \in {current.step, previous.step}
    /\ IF from = Me THEN IsMember(cs, Me)
       ELSE RoundOf(step).committee /\ VerifyCommittee(from, RoundOf(step))

\* An announcement of a result is accepted once and starts its download.
AcceptsResult(from, step) ==
    /\ Accepts(from, step)
    /\ from \in RoundOf(step).assigned
    /\ payload[step][from] = "none"

ResultAnnounced(step) ==
    /\ AcceptsResult(Other, step)
    /\ WithRound(step, [RoundOf(step) EXCEPT !.results = @ \cup {Other}])
    /\ payload' = [payload EXCEPT ![step][Other] = "Downloading"]
    /\ UNCHANGED <<coordVars, stage, init, failure, active, cs, task, outbox,
                   warmup, ghostVars>>

\* The result of Me is announced, applied like anyone else's, and is there.  It
\* is dropped if its round is no longer one of the two.
AnnounceOwnResult ==
    \E step \in outbox :
       /\ outbox' = outbox \ {step}
       /\ IF AcceptsResult(Me, step)
          THEN /\ WithRound(step, [RoundOf(step) EXCEPT !.results = @ \cup {Me}])
               /\ payload' = [payload EXCEPT ![step][Me] = "Downloading"]
          ELSE UNCHANGED roundVars
       /\ coord' = [coord EXCEPT !.published =
             IF step + 1 >= coord.step THEN @ \cup {step} ELSE @]
       /\ UNCHANGED <<mail, fresh, missed, stage, init, failure, active, cs, task, 
                      warmup, ghostVars>>

\* The last finished broadcast of the other clients that Me was waiting for.  The
\* ones of the previous round are accepted as well and never looked at.
FinishedReceived ==
    LET senders == {c \in Range(cs.clients) \ {Me} : Accepts(c, current.step)}
    IN  /\ current.committee
        /\ ~(senders \subseteq current.finished)
        /\ current' = [current EXCEPT !.finished = @ \cup senders]
        /\ UNCHANGED <<coordVars, stage, init, failure, active, cs, previous,
                       payload, task, outbox, warmup, ghostVars>>

\* The same for those that say that their sender has warmed up; they are of step 0.
WarmupFinishedReceived ==
    LET senders == Range(cs.clients) \ {Me}
    IN  /\ stage = "Running" /\ current.step = 0
        /\ ~(senders \subseteq current.finished)
        /\ current' = [current EXCEPT !.finished = @ \cup senders]
        /\ UNCHANGED <<coordVars, stage, init, failure, active, cs, previous,
                       payload, task, outbox, warmup, ghostVars>>

-----------------------------------------------------------------------------
(* apply_distro_result and the tasks it spawns. *)

\* The download of a result ends, or Me has handed its own one over: a task checks
\* it against its commitment, votes for it if it is the first of its batch, and
\* no longer waits for the batch.
ResultArrives(step, from) ==
    /\ stage = "Running"
    /\ payload[step][from] = "Downloading"
    /\ from = Me \/ step \in {current.step, previous.step}
    /\ payload' = [payload EXCEPT ![step][from] = "Voted"]
    /\ IF step \in {current.step, previous.step}
       THEN LET round == RoundOf(step)
            IN  WithRound(step, [round EXCEPT
                   !.bloom = IF round.complete THEN @ ELSE @ \cup {from},
                   !.remaining = @ \ {from}])
       ELSE UNCHANGED <<current, previous>>
    /\ UNCHANGED <<coordVars, stage, init, failure, active, cs, task, outbox,
                   warmup, ghostVars>>

\* The lock is taken again to note that no batch is left; then the downloads hold
\* a task that deserializes the result.
NoteComplete(step, from) ==
    /\ payload[step][from] = "Voted"
    /\ payload' = [payload EXCEPT ![step][from] = "Deserializing"]
    /\ IF step \in {current.step, previous.step} /\ RoundOf(step).remaining = {}
       THEN WithRound(step, [RoundOf(step) EXCEPT !.complete = TRUE])
       ELSE UNCHANGED <<current, previous>>
    /\ UNCHANGED <<coordVars, stage, init, failure, active, cs, task, outbox,
                   warmup, ghostVars>>

\* The result is unusable if it does not deserialize, or if its trainer says that it is
\* still warming up, outside of the first epoch and of a cold start.
DeserializeEnds(step, from) ==
    /\ payload[step][from] = "Deserializing"
    /\ \E outcome \in Deserialized :
          /\ outcome = "Unusable" => from \in Doubtful
          /\ payload' = [payload EXCEPT ![step][from] = outcome]
    /\ UNCHANGED <<coordVars, stage, init, failure, active, cs, current, previous,
                   task, outbox, warmup, ghostVars>>

-----------------------------------------------------------------------------
(* try_send_opportunistic_witness, twice a second. *)

\* Mutant of DoneWithPrevious: only the set of remaining batches is looked at.
DoneWithPreviousUnchecked ==
    /\ task.finished
    /\ previous.complete

\* Me has trained, and every task that deserializes something of the previous round
\* has ended.
DoneWithPrevious ==
    /\ task.finished
    /\ previous.complete
    /\ \A t \in Trainers :
          previous.step \in Steps =>
             payload[previous.step][t] \in Deserialized \cup {"none"}

\* First the finished broadcast, which Me also applies to itself.
SendFinished ==
    /\ stage = "Running" /\ active = "Training" /\ current.committee
    /\ DoneWithPrevious
    /\ ~current.sent_finished
    /\ current' = [current EXCEPT !.sent_finished = TRUE,
                                  !.finished = @ \cup {Me}]
    /\ UNCHANGED <<coordVars, stage, init, failure, active, cs, previous, payload,
                   task, outbox, warmup, ghostVars>>

\* Then, once everybody has finished, the witness.
SendOpportunisticWitness ==
    /\ stage = "Running" /\ active = "Training" /\ current.committee
    /\ DoneWithPrevious
    /\ current.sent_finished
    /\ Range(cs.clients) \subseteq current.finished
    /\ HasWitness(previous, current)
    /\ previous' = [GetWitness(previous) EXCEPT !.early = TRUE]
    /\ mail' = mail \cup {[step |-> current.step, results |-> previous.bloom]}
    /\ UNCHANGED <<coord, fresh, missed, stage, init, failure, active, cs,
                   current, payload, task, outbox, warmup, ghostVars>>

\* In the warmup there is no committee yet: the same two messages.
SendWarmupFinished ==
    /\ stage = "Running" /\ ~current.committee /\ cs.run_state = "Warmup"
    /\ ~warmup.finished
    /\ warmup' = [warmup EXCEPT !.finished = TRUE]
    /\ current' = [current EXCEPT !.finished = IF IsMember(cs, Me) THEN @ \cup {Me} ELSE @]
    /\ UNCHANGED <<coordVars, stage, init, failure, active, cs, previous, payload,
                   task, outbox, ghostVars>>

SendWarmupWitness ==
    /\ stage = "Running" /\ ~current.committee /\ cs.run_state = "Warmup"
    /\ warmup.finished /\ ~warmup.witness
    /\ Range(cs.clients) \subseteq current.finished
    /\ warmup' = [warmup EXCEPT !.witness = TRUE]
    /\ UNCHANGED <<coordVars, stage, init, failure, active, cs, roundVars, task,
                   outbox, ghostVars>>

\* While it initializes, the same timer looks whether init_run has ended, with the
\* state for which it was spawned.
PollInit ==
    LET state == [coord EXCEPT !.run_state = cs.run_state, !.clients = cs.clients]
    IN  /\ stage = "Initializing" /\ init # "running"
        /\ FinishInit(state)
        /\ NoteLate(state)
        /\ UNCHANGED <<coord, fresh, missed, init, outbox>>

\* An error ends the client.
ClientNext ==
    /\ stage # "Failed"
    /\ \/ CoordinatorNext
       \/ ObserveState \/ InitRunEnds \/ PollInit
       \/ ApplyResults \/ TrainingEnds \/ AnnounceOwnResult
       \/ \E step \in Steps :
             \/ ResultAnnounced(step)
             \/ \E t \in Trainers : \/ ResultArrives(step, t)
                                    \/ NoteComplete(step, t)
                                    \/ DeserializeEnds(step, t)
       \/ FinishedReceived \/ WarmupFinishedReceived
       \/ SendFinished \/ SendOpportunisticWitness
       \/ SendWarmupFinished \/ SendWarmupWitness

ClientSpec == ClientInit /\ [][ClientNext]_clientVars

-----------------------------------------------------------------------------
(* Properties. *)

\* A client is told that it is out of step only if it is: it missed a state of
\* the coordinator, it was not ready when the epoch began, or the run is over.
DesyncMeansBehind ==
    failure = "Desync" =>
       missed \/ late \/ coord.run_state = "Finished"

\* Whatever a witness votes for before the end of the training does not end its client:
\* every payload behind its bloom filter is through its deserialization when it votes.
EarlyVotesApply == task.phase = "error" => ~task.early

\* One round is witnessed once, by the timer or at the end of the training.
WitnessedOnce == previous.votes <= 1

\* The coordinator refuses health checks before the third round of an epoch, as
\* a whole; a client sends them earlier only if it missed the end of the epoch before,
\* and so takes the second round of this one for a later round of that one.
HealthChecksInTime == task.checks # 0 => missed \/ task.checks >= 2

\* Me has come through the training of the coordinator's round, which is at least
\* the third one of the epoch: results of the round before the previous one are due.
ResultsDue ==
    /\ stage = "Running" /\ active = "Witness"
    /\ current.step = coord.step /\ coord.height >= 2

\* Then it has applied every result that the witnesses agreed on and no other, save the
\* ones of which it never heard and the ones that it could not use (they did not
\* deserialize, which is logged as DESYNC, or their trainer was warming up), unless it
\* was not there from the beginning or missed a state of the coordinator.  So every
\* round is applied, and once, the last ones of the epoch too.
AppliesAgreement ==
    ResultsDue /\ ~late /\ ~missed => applied \cup lost = coord.prev_vote.results

\* A client that follows the coordinator, with messages lost, late or doubled and states
\* of the coordinator skipped, neither leaves a run that it could follow, nor votes for
\* what it cannot apply, nor witnesses or reports health out of turn.
StepsInv ==
    /\ ClientTypeOK
    /\ DesyncMeansBehind
    /\ EarlyVotesApply
    /\ WitnessedOnce
    /\ HealthChecksInTime
=============================================================================
