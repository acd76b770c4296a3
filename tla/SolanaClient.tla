----------------------------- MODULE SolanaClient -----------------------------
(***************************************************************************)
(* The decentralized client between the chain and the run                  *)
(* (architectures/decentralized/solana-client/src/backend.rs and app.rs):  *)
(* the subscriptions to the coordinator account, which fail and connect    *)
(* again on their own, the task that drops what is not newer, the          *)
(* broadcast channel to the watcher and to the app, and the app, which     *)
(* joins the run while members gather and leaves when it is not selected.  *)
(*                                                                         *)
(* The account is its history: entry n is the account with nonce n.  Of    *)
(* the coordinator only what the app reads is kept.  Other clients and the *)
(* owner change the account at any time.                                   *)
(***************************************************************************)
EXTENDS Integers, Sequences, SequencesExt

CONSTANTS
    Subscriptions,    \* the cluster and its backups
    MaxNonce,         \* bound on the changes of the account
    ChannelCapacity,  \* of the channel tx_update: 32
    SendRetries,      \* SEND_RETRIES
    NodeLag,          \* bound on how far a node is behind
    MaxReconnects     \* bound on the lost connections

ASSUME SolanaClientAssumption ==
    /\ {MaxNonce, ChannelCapacity, SendRetries} \subseteq Nat \ {0}
    /\ {NodeLag, MaxReconnects} \subseteq Nat

VARIABLES
    account,     \* the accounts, by nonce
    cursor,      \* per subscription: -1 when closed, else the last nonce it has notified
    reconnects,  \* connections lost so far
    last_nonce,  \* of the task that drops duplicates
    sent,        \* nonces sent to the channel
    app          \* App::run

solanaClientVars == <<account, cursor, reconnects, last_nonce, sent, app>>

ChainStates ==
    [run_state : {"WaitingForMembers", "Warmup", "RoundTrain", "Paused"},
     me : {"absent", "Healthy", "Unhealthy"},  \* this client in epoch_state.clients
     pending : BOOLEAN,                        \* its active = next_active
     version : {1, 2}]                         \* client_version

Now == Len(account)

SolanaClientTypeOK ==
    /\ account \in Seq(ChainStates) /\ Now \in 1 .. MaxNonce
    /\ cursor \in [Subscriptions -> -1 .. MaxNonce]
    /\ reconnects \in 0 .. MaxReconnects
    /\ last_nonce \in 0 .. MaxNonce
    /\ sent \in Seq(1 .. MaxNonce) /\ Len(sent) <= MaxNonce
    /\ app \in [pc : {"backend", "boot", "bootJoining", "subscribe", "loop",
                      "joining", "ended"},
                attempts : 0 .. SendRetries - 1,
                joined : BOOLEAN,   \* joined_run_this_epoch
                ever : BOOLEAN,     \* ever_joined_run
                start : 0 .. MaxNonce,   \* start_coordinator_state
                latest : 0 .. MaxNonce,  \* latest_update
                first : 0 .. MaxNonce,   \* entries of the channel before `updates`
                read : 0 .. MaxNonce]

ChainState(run_state, me, pending) ==
    [run_state |-> run_state, me |-> me, pending |-> pending, version |-> 1]

\* The process may have been a member before it was started again; or the history
\* begins where it has joined at boot.
SolanaClientInit ==
    /\ cursor = [s \in Subscriptions |-> -1]
    /\ reconnects = 0
    /\ last_nonce = 0
    /\ sent = <<>>
    /\ \/ /\ account \in {<<ChainState("WaitingForMembers", "absent", FALSE)>>,
                          <<ChainState("RoundTrain", "absent", FALSE)>>,
                          <<ChainState("RoundTrain", "Healthy", FALSE)>>}
          /\ app = [pc |-> "backend", attempts |-> 0, joined |-> FALSE, ever |-> FALSE,
                    start |-> 0, latest |-> 0, first |-> 0, read |-> 0]
       \/ /\ account = <<ChainState("WaitingForMembers", "absent", TRUE)>>
          /\ app = [pc |-> "loop", attempts |-> 0, joined |-> TRUE, ever |-> TRUE,
                    start |-> 1, latest |-> 1, first |-> 0, read |-> 0]

-----------------------------------------------------------------------------
(* The chain, as the client meets it. *)

Change(new) ==
    /\ Now < MaxNonce
    /\ account' = Append(account, new)

\* The instructions of others.
ChainMoves ==
    /\ LET a == Last(account)
       IN  \/ /\ a.run_state = "WaitingForMembers"
              /\ Change([a EXCEPT !.run_state = "Warmup",
                                  !.me = IF a.pending THEN "Healthy" ELSE "absent"])
           \/ /\ a.run_state = "Warmup"
              /\ Change([a EXCEPT !.run_state = "RoundTrain", !.pending = FALSE])
           \/ /\ a.run_state \in {"Warmup", "RoundTrain"}
              /\ Change([a EXCEPT !.run_state = "WaitingForMembers"])
           \/ /\ a.run_state = "RoundTrain" /\ a.me = "Healthy"
              /\ Change([a EXCEPT !.me = "Unhealthy"])
           \/ /\ a.run_state # "Paused"
              /\ Change([a EXCEPT !.run_state = "Paused"])
           \/ /\ a.run_state = "Paused" /\ a.version = 1
              /\ Change([a EXCEPT !.version = 2])
           \/ /\ a.run_state = "Paused"
              /\ Change([a EXCEPT !.run_state = "WaitingForMembers", !.pending = FALSE])
    /\ app.pc \notin {"backend", "ended"}
    /\ UNCHANGED <<cursor, reconnects, last_nonce, sent, app>>

-----------------------------------------------------------------------------
(* Subscriptions and the channel. *)

\* subscribe_to_account connects, to a node that may be up to NodeLag changes
\* behind.
Subscribed(s) ==
    /\ app.pc \notin {"backend", "ended"}
    /\ cursor[s] = -1
    /\ \E n \in 1 .. Now : Now - n <= NodeLag /\ cursor' = [cursor EXCEPT ![s] = n]
    /\ UNCHANGED <<account, reconnects, last_nonce, sent, app>>

\* The websocket closes; the task will try again, after a growing delay.
Closed(s) ==
    /\ app.pc # "ended"
    /\ cursor[s] # -1 /\ reconnects < MaxReconnects
    /\ cursor' = [cursor EXCEPT ![s] = -1]
    /\ reconnects' = reconnects + 1
    /\ UNCHANGED <<account, last_nonce, sent, app>>

\* The task that drops what every other subscription has brought before.
IsNewer(nonce) == nonce > last_nonce

\* A notification, through the unbounded channel to that task.
Notification(s) ==
    /\ app.pc # "ended"
    /\ cursor[s] \in 1 .. Now - 1
    /\ LET n == cursor[s] + 1
       IN  /\ cursor' = [cursor EXCEPT ![s] = n]
           /\ IF IsNewer(n)
              THEN sent' = Append(sent, n) /\ last_nonce' = n
              ELSE UNCHANGED <<sent, last_nonce>>
    /\ UNCHANGED <<account, reconnects, app>>

\* The channel has dropped what the receiver would read next.
Lagged(read) == Len(sent) - read > ChannelCapacity

\* wait_for_new_state: the watcher reads the channel too, and may be behind as far as
\* anything; an error ends the client, and with it the app.
WatcherLags ==
    /\ app.pc \in {"loop", "joining"}
    /\ \E read \in 0 .. Len(sent) : Lagged(read)
    /\ app' = [app EXCEPT !.pc = "ended"]
    /\ UNCHANGED <<account, cursor, reconnects, last_nonce, sent>>

-----------------------------------------------------------------------------
(* The app. *)

\* SolanaBackend::start: the receiver of the watcher exists before the subscriptions,
\* and the account is read after they were started.
Start ==
    /\ app.pc = "backend"
    /\ app' = [app EXCEPT !.pc = "boot"]
    /\ UNCHANGED <<account, cursor, reconnects, last_nonce, sent>>

\* The first read of the account by the app.
ReadStartState ==
    /\ app.pc = "boot"
    /\ app' = [app EXCEPT !.start = Now,
                          !.pc = IF Last(account).run_state = "WaitingForMembers"
                                 THEN "bootJoining" ELSE "subscribe"]
    /\ UNCHANGED <<account, cursor, reconnects, last_nonce, sent>>

\* join_run returned.
Joined ==
    [app EXCEPT !.pc = IF @ = "bootJoining" THEN "subscribe" ELSE "loop",
                !.attempts = 0, !.joined = TRUE, !.ever = TRUE]

\* An attempt failed, or the whole of join_run took 5 seconds.
Retried ==
    IF app.attempts + 1 < SendRetries THEN {[app EXCEPT !.attempts = @ + 1],
                                            [app EXCEPT !.pc = "ended"]}
                                      ELSE {[app EXCEPT !.pc = "ended"]}

\* An attempt of join_run, which may land without an answer that says so.
JoinRun ==
    /\ app.pc \in {"bootJoining", "joining"}
    /\ \/ /\ Change([Last(account) EXCEPT !.pending = TRUE])
          /\ app' \in {Joined} \union Retried
       \/ app' \in Retried /\ UNCHANGED account
    /\ UNCHANGED <<cursor, reconnects, last_nonce, sent>>

\* The second read is answered with the account of some moment since the first; then
\* `updates` begins at the end of the channel.
Subscribe ==
    /\ app.pc = "subscribe"
    /\ \E n \in app.start .. Now :
          app' = [app EXCEPT !.pc = "loop", !.latest = n,
                             !.first = Len(sent), !.read = Len(sent)]
    /\ UNCHANGED <<account, cursor, reconnects, last_nonce, sent>>

\* What an update that is not WaitingForMembers does to the app: it leaves when it has
\* ever joined and the run is halted or has no healthy client of its name.
Leaves(update) == app.ever /\ (update.run_state = "Paused" \/ update.me # "Healthy")

\* Mutant of AfterUpdate: joined_run_this_epoch is not reset.
AfterUpdateKeepsJoined(update) ==
    IF update.run_state = "WaitingForMembers"
    THEN [pc |-> IF app.joined THEN "loop" ELSE "joining", joined |-> app.joined]
    ELSE [pc |-> IF Leaves(update) THEN "ended" ELSE "loop", joined |-> app.joined]

\* The branch on updates.recv
AfterUpdate(update) ==
    IF update.run_state = "WaitingForMembers"
    THEN [pc |-> IF app.joined THEN "loop" ELSE "joining", joined |-> app.joined]
    ELSE [pc |-> IF Leaves(update) THEN "ended" ELSE "loop", joined |-> FALSE]

AppReceives ==
    /\ app.pc = "loop" /\ app.read < Len(sent)
    /\ IF Lagged(app.read)
       THEN app' = [app EXCEPT !.pc = "ended"]
       ELSE LET n == sent[app.read + 1]
                after == AfterUpdate(account[n])
            IN  app' = [app EXCEPT !.latest = n, !.read = @ + 1,
                                   !.pc = after.pc, !.joined = after.joined]
    /\ UNCHANGED <<account, cursor, reconnects, last_nonce, sent>>

\* tick_check_interval: a tick sent is a change by ChainMoves.  A halted run whose
\* version has changed ends an app that has never joined.
TickCheck ==
    /\ app.pc = "loop" /\ account[app.latest].run_state = "Paused"
    /\ ~app.joined /\ ~app.ever /\ Last(account).version # 1
    /\ app' = [app EXCEPT !.pc = "ended"]
    /\ UNCHANGED <<account, cursor, reconnects, last_nonce, sent>>

SolanaClientNext ==
    \/ ChainMoves
    \/ \E s \in Subscriptions : Subscribed(s) \/ Closed(s) \/ Notification(s)
    \/ WatcherLags
    \/ Start \/ ReadStartState \/ JoinRun \/ Subscribe \/ AppReceives \/ TickCheck

SolanaClientSpec == SolanaClientInit /\ [][SolanaClientNext]_solanaClientVars

-----------------------------------------------------------------------------
(* Properties. *)

\* However the subscriptions overlap, lag and connect again, the channel carries the
\* account in the order of its changes and nothing twice.
UpdatesInOrder ==
    \A i, j \in DOMAIN sent : i < j => sent[i] < sent[j]

\* The app has read every change of the account since it was started.
MissedNothing ==
    /\ app.read = Len(sent)
    /\ \A n \in app.start + 1 .. Now : \E i \in app.first + 1 .. app.read : sent[i] = n

\* An app that has missed no change and is done with the last one has joined the run
\* whenever the run waits for members: in each epoch anew, after a pause anew, though
\* it joins only once while members gather and may act on an old account.
JoinsEveryEpoch ==
    app.pc = "loop" /\ MissedNothing /\ Last(account).run_state = "WaitingForMembers" =>
       \/ Last(account).pending
       \/ Now = app.start

\* Through closed, lagging and overlapping subscriptions the client sees the account
\* change in order, and joins the run each time that the run asks for members.
FollowsAccount ==
    /\ SolanaClientTypeOK
    /\ UpdatesInOrder
    /\ JoinsEveryEpoch
=============================================================================
