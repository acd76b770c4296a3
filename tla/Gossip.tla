------------------------------- MODULE Gossip -------------------------------
(***************************************************************************)
(* The run loop of a client between the coordinator's states and gossip    *)
(* (shared/client/src/client.rs): what it does at each new state from the  *)
(* watcher (shared/watcher/src/watcher.rs), its broadcasts, which it       *)
(* repeats because gossip may lose them, the blobs they point to           *)
(* (shared/network/src/lib.rs), and its gossip neighbours.                 *)
(*                                                                         *)
(* A broadcast is the step it is of and its kind.  The contents, and what  *)
(* the step machine does with a message, are in ClientSteps.               *)
(***************************************************************************)
EXTENDS Integers, FixedVec, SequencesExt

CONSTANTS
    GossipSelf, GossipPeers,  \* this client, and the others
    Rosters,                  \* client lists that an epoch may have
    GossipSteps,              \* bound on the steps
    MaxBootstrapPeers         \* MAX_NUM_BOOTSTRAP_PEERS

ASSUME GossipAssumption ==
    /\ GossipSelf \notin GossipPeers
    /\ \A r \in Rosters : r \subseteq GossipPeers \union {GossipSelf}
    /\ GossipSteps \in Nat \ {0} /\ MaxBootstrapPeers \in Nat

VARIABLES
    newState,    \* the last state of the coordinator: run_state, step, clients
    lookup,      \* client_lookup of the watcher
    allowed,     \* the allowlist of the router
    neighbors,   \* gossip neighbours
    trained,     \* rx_distro_result: steps with a result that is not yet announced
    broadcasts,  \* broadcasts
    aired,       \* broadcasts_rebroadcast_index, and the broadcast last repeated
    tags         \* steps with the tag "distro-result_{step}" in the store

gossipVars == <<newState, lookup, allowed, neighbors, trained, broadcasts, aired, tags>>

GossipClients == GossipPeers \union {GossipSelf}

Kinds == {"TrainingResult", "Finished"}

GossipTypeOK ==
    /\ newState \in [run_state : {"WaitingForMembers", "Warmup", "RoundTrain", "RoundWitness",
                                  "Cooldown", "Paused"},
                     step : 1 .. GossipSteps, clients : SUBSET GossipClients]
    /\ lookup \subseteq GossipClients
    /\ allowed \subseteq GossipClients
    /\ neighbors \subseteq GossipPeers
    /\ trained \in Seq(1 .. GossipSteps)
    /\ broadcasts \in Seq([step : 1 .. GossipSteps, kind : Kinds])
    /\ aired.index \in Nat
    /\ tags \subseteq 1 .. GossipSteps

GossipInit ==
    /\ newState = [run_state |-> "WaitingForMembers", step |-> 1, clients |-> {}]
    /\ lookup = {}
    /\ allowed = {}
    /\ neighbors = {}
    /\ trained = <<>>
    /\ broadcasts = <<>>
    /\ aired = [index |-> 0, broadcast |-> <<>>]
    /\ tags = {}

\* BackendWatcher::poll_next
RefreshLookup(state) ==
    lookup' = IF state.run_state = "Warmup" THEN state.clients ELSE lookup

\* last_needed_step_blobs
LastNeeded(step) == IF step < 2 THEN 0 ELSE step - 2

\* remove_staled_tags, which may fail
RemoveStaledTags(step) == tags' \in {tags, {s \in tags : s >= LastNeeded(step)}}

\* A run that is paused; the loop is not followed to the end of the run.
Halted(state) == state.run_state = "Paused"

\* ensure_gossip_connected: up to the bootstrap number of neighbours, at most every
\* 6 seconds and only for a member of a run that is not halted.
EnsureGossipConnected(state) ==
    \/ UNCHANGED neighbors
    \/ /\ ~Halted(state)
       /\ GossipSelf \in state.clients
       /\ Cardinality(neighbors) < MaxBootstrapPeers
       /\ \E new \in SUBSET (state.clients \ ({GossipSelf} \union neighbors)) :
             /\ Cardinality(new) <= MaxBootstrapPeers - Cardinality(neighbors)
             /\ neighbors' = neighbors \union new

\* A new state: the branch of the loop on watcher.poll_next, without apply_state.
ApplyNewState(state) ==
    /\ newState' = state
    /\ RefreshLookup(state)
    /\ allowed' = state.clients
    /\ EnsureGossipConnected(state)
    /\ IF state.run_state = "RoundTrain" /\ newState.run_state # "RoundTrain"
       THEN /\ RemoveStaledTags(state.step)
            /\ broadcasts' = Retain(broadcasts,
                  {i \in DOMAIN broadcasts : broadcasts[i].step >= LastNeeded(state.step)})
       ELSE UNCHANGED <<tags, broadcasts>>
    /\ UNCHANGED <<trained, aired>>

\* The ticks and pauses of the coordinator, as far as the loop sees them: the clients of
\* an epoch are those of its warmup, which may be abandoned.
CoordinatorMoves ==
    LET s == newState
    IN  \/ /\ s.run_state = "WaitingForMembers"
           /\ \E r \in Rosters : ApplyNewState([s EXCEPT !.run_state = "Warmup", !.clients = r])
        \/ /\ s.run_state = "Warmup"
           /\ ApplyNewState([s EXCEPT !.run_state = "RoundTrain"])
        \/ /\ s.run_state = "RoundTrain"
           /\ ApplyNewState([s EXCEPT !.run_state = "RoundWitness"])
        \/ /\ s.run_state = "RoundWitness" /\ s.step < GossipSteps
           /\ \E next \in {"RoundTrain", "Cooldown"} :
                 ApplyNewState([s EXCEPT !.run_state = next, !.step = @ + 1])
        \/ /\ s.run_state \in {"Warmup", "Cooldown", "Paused"}
           /\ ApplyNewState([s EXCEPT !.run_state = "WaitingForMembers"])
        \/ /\ s.run_state \in {"WaitingForMembers", "Warmup", "Cooldown"}
           /\ ApplyNewState([s EXCEPT !.run_state = "Paused"])

\* The trainer finished the batch of the step; the loop gets to it later.
TrainingDone ==
    /\ newState.run_state = "RoundTrain" /\ GossipSelf \in newState.clients
    /\ ~Contains(trained, newState.step)
    /\ ~Contains(broadcasts, [step |-> newState.step, kind |-> "TrainingResult"])
    /\ trained' = Append(trained, newState.step)
    /\ UNCHANGED <<newState, lookup, allowed, neighbors, broadcasts, aired, tags>>

\* rx_distro_result: the blob is added under its tag and announced.
AnnounceResult ==
    /\ trained # <<>>
    /\ trained' = Tail(trained)
    /\ tags' = tags \union {Head(trained)}
    /\ broadcasts' = Append(broadcasts, [step |-> Head(trained), kind |-> "TrainingResult"])
    /\ UNCHANGED <<newState, lookup, allowed, neighbors, aired>>

\* rx_broadcast_finished
AnnounceFinished ==
    LET b == [step |-> newState.step, kind |-> "Finished"]
    IN  /\ newState.run_state = "RoundTrain" /\ GossipSelf \in newState.clients
        /\ ~Contains(broadcasts, b)
        /\ broadcasts' = Append(broadcasts, b)
        /\ UNCHANGED <<newState, lookup, allowed, neighbors, trained, aired, tags>>

\* Mutant of NextIndex: the newest broadcast is repeated.
NextIndexNewest(len) == len - 1

\* The broadcast to repeat, counted from 0.
NextIndex(len) == (aired.index + 1) % len

\* sharing_downloadable_interval
Rebroadcast ==
    /\ broadcasts # <<>>
    /\ LET i == NextIndex(Len(broadcasts))
       IN  aired' = [index |-> i, broadcast |-> <<broadcasts[i + 1]>>]
    /\ UNCHANGED <<newState, lookup, allowed, neighbors, trained, broadcasts, tags>>

\* check_connection_interval
CheckConnection ==
    /\ ~Halted(newState)
    /\ EnsureGossipConnected(newState)
    /\ UNCHANGED <<newState, lookup, allowed, trained, broadcasts, aired, tags>>

NeighborDown(p) ==
    /\ p \in neighbors
    /\ neighbors' = neighbors \ {p}
    /\ UNCHANGED <<newState, lookup, allowed, trained, broadcasts, aired, tags>>

GossipNext ==
    \/ CoordinatorMoves
    \/ TrainingDone \/ AnnounceResult \/ AnnounceFinished
    \/ Rebroadcast
    \/ CheckConnection
    \/ \E p \in GossipPeers : NeighborDown(p)

\* The interval ticks.
GossipFairness == WF_gossipVars(Rebroadcast)

GossipSpec == GossipInit /\ [][GossipNext]_gossipVars /\ GossipFairness

-----------------------------------------------------------------------------
(* Properties. *)

\* A result that is still announced can be downloaded: its blob has its tag, though
\* results are announced late and the two lists are pruned in different places.
AnnouncedIsTagged ==
    \A i \in DOMAIN broadcasts :
       broadcasts[i].kind = "TrainingResult" => broadcasts[i].step \in tags

\* While a round is trained, the loop knows every client whose messages count, and
\* lets it connect.
SendersKnown ==
    newState.run_state = "RoundTrain" =>
       newState.clients \subseteq lookup /\ newState.clients \subseteq allowed

\* Every broadcast that is kept is repeated, though the list grows at its end and is
\* cut at its front while the index goes round ("iroh-gossip doesn't guarantee
\* delivery").
EveryBroadcastRepeated ==
    \A s \in 1 .. GossipSteps, k \in Kinds :
       LET b == [step |-> s, kind |-> k]
       IN  Contains(broadcasts, b) ~> (aired.broadcast = <<b>> \/ ~Contains(broadcasts, b))

\* What a client announces can be fetched from it, and it knows whom to listen to.
GossipInv ==
    /\ GossipTypeOK
    /\ AnnouncedIsTagged
    /\ SendersKnown

\* The broadcasts keep their invariant, and none of them depends on one delivery only.
GossipCorrect ==
    /\ []GossipInv
    /\ EveryBroadcastRepeated
=============================================================================
