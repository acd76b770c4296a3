---------------------------- MODULE ModelSharing ----------------------------
(***************************************************************************)
(* How a client that joins gets the model from its peers                   *)
(* (shared/network/src/p2p_model_sharing.rs, the request task in           *)
(* shared/network/src/lib.rs and the run loop in                           *)
(* shared/client/src/client.rs): the peer manager, one task for every      *)
(* parameter that asks peers for a blob ticket, the SharableModel of the   *)
(* peers that answer and of the client that collects.                      *)
(*                                                                         *)
(* The actor of the peer manager handles messages in the order they were   *)
(* sent, so that a message and its effect are one step.  A download is     *)
(* here its outcome; Downloads has the retries.                            *)
(***************************************************************************)
EXTENDS FixedVec, SequencesExt

CONSTANTS
    SharePeers,         \* the other clients
    ModelParams,        \* names of the parameters, in the order they are asked for
    MaxErrorsPerPeer,   \* MAX_ERRORS_PER_PEER
    MaxRequestAttempts, \* max_attempts of blob_ticket_param_request_task
    MaxConcurrent,      \* max_concurrent_parameter_requests
    ShareEpochs         \* bound on the versions of the model

\* The coordinator goes back to a checkpoint on the hub when no client that has the model
\* is left, so that whoever asks has a peer; a parameter is asked for under its name.
ASSUME ShareAssumption ==
    /\ IsFiniteSet(SharePeers) /\ SharePeers # {}
    /\ ModelParams \in Seq(Range(ModelParams)) /\ IsInjective(ModelParams)
    /\ "config" \notin Range(ModelParams)
    /\ ShareEpochs \in Nat \ {0}
    /\ MaxErrorsPerPeer \in Nat \ {0} /\ MaxRequestAttempts \in Nat \ {0}
    /\ MaxConcurrent \in Nat \ {0}

VARIABLES
    share,      \* SharableModel of every peer, and its blobs with a tag
    available,  \* available_peers
    errors,     \* errors_per_peers
    request,    \* the request task of every parameter
    next,       \* parameters whose request was spawned
    got,        \* SharableModel.parameters of the client, as versions (0: None)
    joining     \* the client: joining, or the end of it

shareVars == <<share, available, errors, request, next, got, joining>>

\* The config is shared like a parameter; everything else is known from it.
Config == "config"

Names == Range(ModelParams) \union {Config}

NoRequest == [at |-> "none", peer |-> "none", attempts |-> 0, version |-> 0, alone |-> FALSE]

\* A request that does not belong to a chunk: the config, or after a failure.
Alone == [NoRequest EXCEPT !.at = "next", !.alone = TRUE]

RequestStates == {"none", "next", "asking", "ticket", "download", "done"}

ShareTypeOK ==
    /\ \A p \in SharePeers :
          /\ share[p].version \in 1 .. ShareEpochs
          /\ share[p].serializing \subseteq Names
          /\ share[p].initialized \in BOOLEAN
          /\ share[p].tickets \in [Names -> 0 .. ShareEpochs]
          /\ share[p].tagged \subseteq Names
    /\ available \in Seq(SharePeers) /\ IsInjective(available)
    /\ errors \in [SharePeers -> Nat]
    /\ \A q \in Names :
          /\ request[q].at \in RequestStates
          /\ request[q].peer \in SharePeers \union {"none"}
          /\ request[q].attempts \in 0 .. MaxRequestAttempts
          /\ request[q].version \in 0 .. ShareEpochs
          /\ request[q].alone \in BOOLEAN
    /\ next \in 0 .. Len(ModelParams)
    /\ got \in [Names -> 0 .. ShareEpochs]
    /\ joining \in {"joining", "complete", "cancelled"}

\* The peers are in the warmup of an epoch; the client has set the peers and asks
\* for the config.
ShareInit ==
    /\ share = [p \in SharePeers |->
                  [version |-> 1, serializing |-> Names \ {Config}, initialized |-> TRUE,
                   tickets |-> [q \in Names |-> 0], tagged |-> {}]]
    /\ available = SetToSeq(SharePeers)
    /\ errors = [p \in SharePeers |-> 0]
    /\ request = [q \in Names |-> IF q = Config THEN Alone ELSE NoRequest]
    /\ next = 0
    /\ got = [q \in Names |-> 0]
    /\ joining = "joining"

-----------------------------------------------------------------------------
(* The peers that share. *)

Updated(model) ==
    [version |-> model.version + 1, serializing |-> Names \ {Config}, initialized |-> TRUE,
     tickets |-> [q \in Names |-> IF q = Config THEN model.tickets[q] ELSE 0],
     tagged |-> model.tagged]

\* update_parameters, at the end of the epoch.
UpdateParameters(p) ==
    /\ share[p].version < ShareEpochs /\ ~share[p].initialized
    /\ share' = [share EXCEPT ![p] = Updated(@)]
    /\ UNCHANGED <<available, errors, request, next, got, joining>>

Cleared(model) ==
    [version |-> model.version, serializing |-> model.serializing, initialized |-> FALSE,
     tickets |-> [q \in Names |-> 0], tagged |-> {}]

\* A round of training starts: remove_staled_tags and clear_cache.
ClearCache(p) ==
    /\ share[p].initialized
    /\ share' = [share EXCEPT ![p] = Cleared(@)]
    /\ UNCHANGED <<available, errors, request, next, got, joining>>

Failed(known) == [version |-> 0, known |-> known]

Ticket(known, q) ==
    [version |-> known.version,
     known |-> [known EXCEPT !.tickets[q] = known.version, !.tagged = @ \union {q}]]

\* get_transmittable_parameter: the ticket in the cache, or a new one for the
\* parameter that was serialized; the handle of the latter is gone whether or not
\* this succeeds.
GetTransmittableParameter(model, q) ==
    LET rest == [model EXCEPT !.serializing = @ \ {q}]
    IN  IF ~model.initialized THEN {Failed(model)}
        ELSE IF model.tickets[q] # 0 THEN {[version |-> model.tickets[q], known |-> model]}
        ELSE IF q \notin model.serializing THEN {Failed(model)}
        ELSE {Failed(rest), Ticket(rest, q)}

\* get_transmittable_config
GetTransmittableConfig(model) ==
    IF model.tickets[Config] # 0
    THEN {[version |-> model.tickets[Config], known |-> model]}
    ELSE {Ticket(model, Config)}

-----------------------------------------------------------------------------
(* The peer manager. *)

\* ReportSuccess
ReportSuccess(p) ==
    /\ available' = IF Contains(available, p) THEN available ELSE Append(available, p)
    /\ UNCHANGED errors

WithoutPeer(p) == Retain(available, {i \in DOMAIN available : available[i] # p})

Banned(count) == count >= MaxErrorsPerPeer

\* Mutant of ReportError: the end is noticed only if the peer was in the list.
ReportErrorOfAvailable(p) ==
    /\ errors' = [errors EXCEPT ![p] = @ + 1]
    /\ IF Banned(errors'[p])
       THEN /\ available' = WithoutPeer(p)
            /\ joining' = IF /\ available' = <<>> /\ available # <<>>
                             /\ \A o \in SharePeers : Banned(errors'[o])
                          THEN "cancelled" ELSE joining
       ELSE /\ available' = IF Contains(available, p) THEN available ELSE Append(available, p)
            /\ UNCHANGED joining

\* ReportModelDownloadError: the peer goes to the end of the list, or is removed;
\* with the last one removed the requests are cancelled.
ReportError(p) ==
    /\ errors' = [errors EXCEPT ![p] = @ + 1]
    /\ IF Banned(errors'[p])
       THEN /\ available' = WithoutPeer(p)
            /\ joining' = IF available' = <<>> /\ \A o \in SharePeers : Banned(errors'[o])
                          THEN "cancelled" ELSE joining
       ELSE /\ available' = IF Contains(available, p) THEN available ELSE Append(available, p)
            /\ UNCHANGED joining

-----------------------------------------------------------------------------
(* The client that joins. *)

\* The tasks of the present chunk.
Chunk == {q \in Names : ~request[q].alone /\ request[q].at \in {"next", "asking", "ticket"}}

\* A request task per parameter, MaxConcurrent at a time: the downloads of one
\* chunk start before the next one is spawned.
SpawnRequest ==
    /\ joining = "joining" /\ got[Config] # 0 /\ next < Len(ModelParams)
    /\ next % MaxConcurrent = 0 => Chunk = {}
    /\ next' = next + 1
    /\ request' = [request EXCEPT ![ModelParams[next + 1]].at = "next"]
    /\ UNCHANGED <<share, available, errors, got, joining>>

\* get_next_peer
GetPeer(q) ==
    /\ joining = "joining" /\ request[q].at = "next"
    /\ request[q].attempts < MaxRequestAttempts
    /\ available # <<>>
    /\ request' = [request EXCEPT ![q].at = "asking", ![q].peer = Head(available)]
    /\ available' = Tail(available)
    /\ UNCHANGED <<share, errors, next, got, joining>>

\* No peer at the moment: an attempt is used, after 500 ms the next one starts.
NoPeer(q) ==
    /\ joining = "joining" /\ request[q].at = "next"
    /\ request[q].attempts < MaxRequestAttempts
    /\ available = <<>>
    /\ request' = [request EXCEPT ![q].attempts = @ + 1]
    /\ UNCHANGED <<share, available, errors, next, got, joining>>

\* "No peers available to give us a model parameter": the task cancels everything.
OutOfAttempts(q) ==
    /\ joining = "joining" /\ request[q].at = "next"
    /\ request[q].attempts = MaxRequestAttempts
    /\ joining' = "cancelled"
    /\ UNCHANGED <<share, available, errors, request, next, got>>

\* NetworkEvent::ParameterRequest and ModelConfigRequest, in the run loop of the peer.
Transmittable(model, q) ==
    IF q = Config THEN GetTransmittableConfig(model) ELSE GetTransmittableParameter(model, q)

\* The answer of the peer (ModelSharing::accept).
Answer(q) ==
    LET p == request[q].peer
    IN  /\ joining = "joining" /\ request[q].at = "asking"
        /\ \E answer \in Transmittable(share[p], q) :
              /\ share' = [share EXCEPT ![p] = answer.known]
              /\ IF answer.version # 0
                 THEN /\ request' = [request EXCEPT
                            ![q].at = IF request[q].alone THEN "download" ELSE "ticket",
                            ![q].version = answer.version]
                      /\ ReportSuccess(p)
                      /\ UNCHANGED joining
                 ELSE /\ request' = [request EXCEPT ![q].at = "next", ![q].attempts = @ + 1]
                      /\ ReportError(p)
        /\ UNCHANGED <<next, got>>

\* The peer is away, or the answer is late: MODEL_REQUEST_TIMEOUT_SECS.
RequestTimeout(q) ==
    /\ joining = "joining" /\ request[q].at = "asking"
    /\ request' = [request EXCEPT ![q].at = "next", ![q].attempts = @ + 1]
    /\ ReportError(request[q].peer)
    /\ UNCHANGED <<share, next, got>>

\* join_all: every task of the chunk has its ticket, and the downloads start.
StartDownloads ==
    /\ joining = "joining" /\ Chunk # {}
    /\ \A q \in Chunk : request[q].at = "ticket"
    /\ next % MaxConcurrent = 0 \/ next = Len(ModelParams)
    /\ request' = [q \in Names |->
                     IF q \in Chunk THEN [request[q] EXCEPT !.at = "download"] ELSE request[q]]
    /\ UNCHANGED <<share, available, errors, next, got, joining>>

\* is_download_complete, after which send_init_parameters takes them all.
SendInitParameters(params) == \A q \in Range(ModelParams) : params[q] # 0

\* The blob is there as long as the peer has it tagged, or the store has not yet
\* collected it.
DownloadCompletes(q) ==
    /\ joining = "joining" /\ request[q].at = "download"
    /\ got' = [got EXCEPT ![q] = request[q].version]
    /\ request' = [request EXCEPT ![q] = [NoRequest EXCEPT !.at = "done"]]
    /\ joining' = IF SendInitParameters(got') THEN "complete" ELSE joining
    /\ UNCHANGED <<share, available, errors, next>>

\* The peer that gave the ticket is reported, and a new task asks for another one.
DownloadFails(q) ==
    /\ joining = "joining" /\ request[q].at = "download"
    /\ request' = [request EXCEPT ![q] = Alone]
    /\ ReportError(request[q].peer)
    /\ UNCHANGED <<share, next, got>>

RequestStep(q) ==
    \/ GetPeer(q) \/ NoPeer(q) \/ OutOfAttempts(q)
    \/ Answer(q) \/ RequestTimeout(q)
    \/ DownloadCompletes(q) \/ DownloadFails(q)

ShareNext ==
    \/ \E p \in SharePeers : UpdateParameters(p) \/ ClearCache(p)
    \/ SpawnRequest \/ StartDownloads
    \/ \E q \in Names : RequestStep(q)

ShareSpec == ShareInit /\ [][ShareNext]_shareVars

-----------------------------------------------------------------------------
(* Properties. *)

Holds(q, p) == request[q].at = "asking" /\ request[q].peer = p

\* A peer with few errors stays in use: it is in the list, or a request that will
\* give it back has it.
PeersNotLost ==
    joining = "joining" =>
       \A p \in SharePeers :
          Banned(errors[p]) \/ Contains(available, p) \/ \E q \in Names : Holds(q, p)

\* The requests do not wait for peers that will never come back: with no peer in
\* the list, and none in use, the client has been told.
NoSilentStall ==
    joining = "joining" => available # <<>> \/ \E q \in Names, p \in SharePeers : Holds(q, p)

\* "any cached blobs are now invalid": a ticket in the cache of a peer is one of its
\* present parameters, and of a blob that a tag keeps in the store.
CachedTicketsValid ==
    \A p \in SharePeers, q \in Names :
       share[p].tickets[q] # 0 =>
          /\ q \in share[p].tagged
          /\ q # Config => share[p].tickets[q] = share[p].version

\* A model is collected from peers that err and that move on to newer parameters: no
\* usable peer drops out, no request waits for nobody, and no old ticket is handed out.
SharingInv ==
    /\ ShareTypeOK
    /\ PeersNotLost
    /\ NoSilentStall
    /\ CachedTicketsValid
=============================================================================
