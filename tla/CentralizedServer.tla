------------------------- MODULE CentralizedServer --------------------------
(***************************************************************************)
(* The centralized server (architectures/centralized/server): a single     *)
(* loop, App::poll_next, that takes one event at a time from its           *)
(* connections, its 500 ms tick and the operator's pause key, and owns the *)
(* coordinator.  At the end of every epoch it saves the coordinator; the   *)
(* operator starts it again from the last file after a crash.              *)
(*                                                                         *)
(* A message other than a join is handled at any time, whatever has become *)
(* of its sender since it was sent: the queue of incoming messages holds   *)
(* the joins only.                                                         *)
(***************************************************************************)
EXTENDS CoordinatorOps, ClientNotifications

CONSTANTS
    NoIdentity,         \* ClientId::default()
    ServerConfigs,      \* configurations in state files
    InitWarmupTimes,    \* what --init-warmup-time may be
    WithdrawOnDisconnect,
    HostsData,          \* data_location is Server: the data server runs in this process
    ServerBlooms,       \* participant filters that witnesses report
    ServerCheckpoint,   \* what the run starts training from
    MaxInterventions    \* bound on the restarts and the pauses

ASSUME ServerAssumption ==
    /\ Messages = {"Join"}
    /\ NoIdentity \in ClientIds /\ Peers = ClientIds \ {NoIdentity}
    /\ IsFiniteSet(Peers)
    /\ ServerConfigs \subseteq Configs
    /\ \A g \in ServerConfigs, t \in InitWarmupTimes :
          [g EXCEPT !.warmup_time = t] \in Configs
    /\ ServerBlooms \subseteq SUBSET Peers
    /\ ServerCheckpoint \in Checkpoint
    /\ WithdrawOnDisconnect \in BOOLEAN /\ HostsData \in BOOLEAN
    /\ MaxInterventions \in Nat

VARIABLES
    coordinator,          \* App.coordinator
    pending,              \* backend.pending_clients
    original_warmup_time,
    file,                 \* the last state file
    interventions,        \* the restarts and the pauses so far
    stayed,               \* ghost: between epochs, who was in the last one when it ended,
                          \* or when its warmup was abandoned, and is still here
    left                  \* ghost: who left an epoch unhealthy and did not ask again

appVars == <<coordinator, pending, original_warmup_time, file, interventions,
             stayed, left>>
serverVars == <<appVars, notificationVars>>

DefaultClient == NewClient(NoIdentity)

\* reset_ephemeral; the lists keep their lengths.
ResetEphemeral(c) ==
    [c EXCEPT !.run_state = "WaitingForMembers",
              !.clients = [i \in DOMAIN c.clients |-> DefaultClient],
              !.exited_clients = [i \in DOMAIN c.exited_clients |-> DefaultClient]]

\* App::new does not bail.  A server that hosts the data wants a checkpoint to load,
\* which the state saved after an epoch, P2P, is not.
CanStart(c) ==
    /\ ConfigCheck(c.config)
    /\ HostsData => c.checkpoint.kind \in {"Hub", "Dummy"}

\* App::new, given what load_config_state read and the command line.
Started(c, init_warmup_time) ==
    [ResetEphemeral(c) EXCEPT !.config.warmup_time = init_warmup_time]

ServerInit ==
    \E g \in ServerConfigs, t \in InitWarmupTimes :
       LET c == FreshCoordinator(g, ServerCheckpoint, "WaitingForMembers")
       IN  /\ CanStart(c)
           /\ NotificationsInit
           /\ coordinator = Started(c, t)
           /\ original_warmup_time = g.warmup_time
           /\ file = c
           /\ pending = {}
           /\ interventions = 0
           /\ stayed = {}
           /\ left = {}

\* post_state_change.  The broadcast goes to the clients, on which nothing in
\* this module depends; TcpServer has it.
PostStateChange(c) ==
    IF Active(c) THEN [c EXCEPT !.config.warmup_time = original_warmup_time]
                 ELSE c

Unhealthy(clients) ==
    {clients[i].id : i \in {j \in DOMAIN clients : clients[j].state # "Healthy"}}

HealthyIds(clients) ==
    {clients[i].id : i \in {j \in DOMAIN clients : clients[j].state = "Healthy"}}

-----------------------------------------------------------------------------
(* The handlers of App. *)

\* Mutant of Disconnect: a client that disconnects is not withdrawn.
DisconnectKeepsClient(c, from) == c

\* The coordinator after the disconnection of from.
Disconnect(c, from) ==
    LET at == {i \in DOMAIN c.clients : c.clients[i].id = from}
    IN  IF WithdrawOnDisconnect /\ at # {}
        THEN LET index == (CHOOSE i \in at : \A j \in at : i <= j) - 1
             IN  IF CanWithdraw(c, index) THEN Withdraw(c, index) ELSE c
        ELSE c

OnDisconnect ==
    \E from \in Peers :
       /\ TakeDisconnection(from)
       /\ pending' = pending \ {from}
       /\ coordinator' = Disconnect(coordinator, from)
       /\ stayed' = stayed \ {from}
       /\ UNCHANGED <<original_warmup_time, file, interventions, left>>

\* Join names this run or another one.
OnJoin ==
    \E from \in Peers, known \in BOOLEAN :
       /\ TakeMessage(from, "Join")
       /\ pending' = IF known THEN pending \cup {from} ELSE pending
       /\ left' = IF known THEN left \ {from} ELSE left
       /\ coordinator' = PostStateChange(coordinator)
       /\ UNCHANGED <<original_warmup_time, file, interventions, stayed>>

\* The coordinator becomes c because of a message; if c is unchanged, it was
\* refused.
Handled(c) ==
    /\ coordinator' = PostStateChange(c)
    /\ UNCHANGED <<pending, original_warmup_time, file, interventions, stayed, left,
                   notificationVars>>

OnWitness ==
    \E from \in Peers, index, position \in 0 .. MaxClients - 1,
       bloom \in ServerBlooms :
       LET w == [from |-> from, index |-> index, position |-> position,
                 witness |-> TRUE, participants |-> bloom]
           c == WitnessEffect(coordinator, w)
       IN  /\ CanWitness(coordinator, w)
           /\ Handled(c)

\* Anybody may send one, at any time and with any index.
OnWarmupWitness ==
    \E from \in Peers, index \in 0 .. MaxClients - 1, seed \in Seeds :
       LET w == [from |-> from, index |-> index, position |-> index,
                 witness |-> FALSE, participants |-> {}]
           c == WarmupWitness(coordinator, w, seed)
       IN  /\ CanWarmupWitness(coordinator, w)
           /\ Handled(c)

OnHealthCheck ==
    \E index \in 0 .. MaxClients - 1 :
       LET round == PreviousRound(coordinator)
           check == [id |-> HistoricalClient(coordinator, index, round.clients_len).id,
                     index |-> index,
                     position |-> Position("committee", round, index)]
           c == HealthCheck(coordinator, {check})
       IN  /\ index < round.clients_len
           /\ HasHistoricalClient(coordinator, index, round.clients_len)
           /\ CanHealthCheck(coordinator, {check})
           /\ Handled(c)

OnCheckpoint ==
    \E from \in Peers, repo \in Repos :
       /\ \E i \in DOMAIN coordinator.clients : coordinator.clients[i].id = from
       /\ Handled(RecordCheckpoint(coordinator, repo))

\* kick_unhealthy_clients, run at every tick.
KickUnhealthyClients(c, waiting) == waiting \ Unhealthy(c.exited_clients)

\* A HashSet is iterated in any order.
Orderings(S) ==
    {s \in [1 .. Cardinality(S) -> S] :
        \A i, j \in DOMAIN s : s[i] = s[j] => i = j}

\* Mutant of SavedState: the state before the tick is saved.
StateBeforeTick(before, after) == ResetEphemeral(before)

\* What on_tick writes to the save directory when an epoch ends.
SavedState(before, after) == ResetEphemeral(after)

\* on_tick.  Only ticks read the clock, so that time passes here.
OnTick ==
    \E order \in Orderings(KickUnhealthyClients(coordinator, pending)),
       seed \in Seeds, before \in {coordinator, TimePasses(coordinator)} :
       LET ticked == IF CanTick(before) THEN Tick(before, order, seed)
                                        ELSE Ticked(before)
           c == ticked.st
       IN  /\ pending' = KickUnhealthyClients(coordinator, pending)
           /\ coordinator' = PostStateChange(c)
           /\ file' = IF ticked.result = "EpochEnd"
                      THEN SavedState(before, c) ELSE file
           /\ stayed' = IF ticked.result \in {"EpochEnd", "EpochAbandoned"}
                        THEN HealthyIds(c.clients)
                        ELSE IF c.run_state \in {"WaitingForMembers", "Paused"}
                        THEN stayed ELSE {}
           /\ left' = left \cup (Unhealthy(c.exited_clients) \
                                 Unhealthy(before.exited_clients))
           /\ UNCHANGED <<original_warmup_time, interventions, notificationVars>>

\* The operator's pause key.
OnPause ==
    /\ coordinator' =
          IF coordinator.run_state = "Paused" THEN Resume(coordinator)
          ELSE IF CanPause(coordinator) THEN Pause(coordinator)
          ELSE IF PauseFails(coordinator) THEN WithdrawAll(coordinator)
          ELSE coordinator
    /\ coordinator' # coordinator
    /\ coordinator.run_state # "Paused" => interventions < MaxInterventions
    /\ interventions' = IF coordinator.run_state = "Paused" THEN interventions
                        ELSE interventions + 1
    /\ UNCHANGED <<pending, original_warmup_time, file, stayed, left,
                   notificationVars>>

\* The process stops, and is started from the last file.  Its clients exit when
\* their connection ends.
Restart ==
    \E t \in InitWarmupTimes :
       /\ interventions < MaxInterventions
       /\ CanStart(file)
       /\ interventions' = interventions + 1
       /\ sessions' = [p \in Peers |-> 0]
       /\ incoming' = <<>>
       /\ disconnected' = <<>>
       /\ coordinator' = Started(file, t)
       /\ original_warmup_time' = file.config.warmup_time
       /\ pending' = {}
       /\ stayed' = {}
       /\ left' = {}
       /\ UNCHANGED file

ServerNext ==
    \/ SessionStep /\ UNCHANGED appVars
    \/ OnDisconnect
    \/ OnJoin
    \/ OnWitness
    \/ OnWarmupWitness
    \/ OnHealthCheck
    \/ OnCheckpoint
    \/ OnTick
    \/ OnPause
    \/ Restart

ServerSpec == ServerInit /\ [][ServerNext]_serverVars

-----------------------------------------------------------------------------
(* Properties. *)

\* Every field of App keeps its type.
ServerTypeOK ==
    /\ NotificationsTypeOK
    /\ coordinator \in CoordinatorType
    /\ file \in CoordinatorType
    /\ pending \subseteq Peers

\* A tick admits the pending clients to an epoch.
EpochStarts ==
    /\ coordinator.run_state = "WaitingForMembers"
    /\ coordinator'.run_state = "Warmup"

\* The index of the first sequence of every step, from the configuration.
FirstIndexOf(g, step) ==
    LET first[s \in Nat] ==
          IF s <= 1 THEN 0
          ELSE first[s - 1] + BatchSize(g, first[s - 1] * SeqLen)
    IN  first[step]

\* The data that a step trains on depends on its number only: neither a crash
\* at any moment, nor the file that the server starts again from, repeats or
\* skips a sequence of the steps that count.
DataFollowsSteps ==
    coordinator.run_state \in {"RoundTrain", "RoundWitness"} =>
        CurrentRound(coordinator).data_index =
            FirstIndexOf(coordinator.config, coordinator.step)

\* --init-warmup-time is for the first epoch of this process: no state file
\* holds it, or the server that starts from the file would keep it for good.
OverrideNotSaved == \E g \in ServerConfigs : file.config = g

\* An epoch that is to fetch the model from its peers has a client that has not been
\* gone since the last epoch ended, or since its warmup was abandoned: what
\* tick_waiting_for_members can ensure.  After an abandoned warmup that client may not
\* hold the model: it may have joined for that epoch and never have got it.  It looks at
\* every pending client, of which it admits MaxClients.
P2PHasHolder ==
    /\ WithdrawOnDisconnect
    /\ Cardinality(pending') <= MaxClients
    /\ coordinator'.checkpoint.kind = "P2P"
    => HealthyIds(coordinator'.clients) \cap stayed # {}

\* A client that was dropped or withdrawn is in a later epoch only if it asked to
\* join after it had left.
UnhealthyMustRejoin == left \cap HealthyIds(coordinator'.clients) = {}

\* An epoch starts with the right clients.  Neither a restart of the server nor a client
\* that came back with the same key starts an epoch that fetches its model from peers
\* none of which was in the epoch before, ended or abandoned in its warmup; and nobody is
\* admitted by a join from before it left: pending_clients is cleaned before the tick
\* that could admit it.
AdmitsRightClients ==
    [][EpochStarts => P2PHasHolder /\ UnhealthyMustRejoin]_serverVars

\* The server between two events: its fields are typed, and whenever it crashes and
\* starts again from its file, the steps get the data and the configuration that they
\* would have had without the crash.
ServerInv ==
    /\ ServerTypeOK
    /\ DataFollowsSteps
    /\ OverrideNotSaved
=============================================================================
