------------------------------ MODULE Downloads ------------------------------
(***************************************************************************)
(* How a client downloads blobs: the download manager and its task         *)
(* (shared/network/src/download_manager.rs), the part of NetworkConnection *)
(* that feeds it (shared/network/src/lib.rs), and the retries of failed    *)
(* downloads in the run loop (shared/client/src/client.rs).                *)
(*                                                                         *)
(* A blob is an item and a version: the result of a round has one, and a   *)
(* parameter one for each peer that shares it.  Iroh is external: a        *)
(* download makes progress, ends or fails.  Sizes and progress numbers are *)
(* left out.                                                               *)
(***************************************************************************)
EXTENDS Naturals, Sequences, FiniteSets, SequencesExt

CONSTANTS
    Results,             \* training results, DownloadType::DistroResult
    Parameters,          \* model parameters, DownloadType::ModelSharing
    MaxDownloadRetries,  \* MAX_DOWNLOAD_RETRIES
    RetryTasks,          \* tasks spawned by retry_check_interval, alive at once
    MaxFailures          \* bound on the failures

ASSUME DownloadAssumption ==
    /\ IsFiniteSet(Results) /\ IsFiniteSet(Parameters) /\ Results \intersect Parameters = {}
    /\ MaxDownloadRetries \in Nat /\ MaxFailures \in Nat

VARIABLES
    attempts,   \* the downloads under way, by number
    manager,    \* the task of DownloadManager: between two polls or in one
    events,     \* event_receiver
    requests,   \* rx_request_download and rx_params_download
    retried,    \* the map of RetriedDownloadsActor
    ticketing,  \* failed parameters for which a new ticket is being asked
    retrying,   \* what each task of the retry interval has still to restart
    items,      \* what became of each item
    failures,   \* ghost: failures of each item
    loopEnded   \* the run loop returned an error

downloadVars == <<attempts, manager, events, requests, retried, ticketing, retrying,
                  items, failures, loopEnded>>

Items == Results \union Parameters

Blobs == Results \X {0} \union Parameters \X (0 .. MaxFailures)

AttemptStates == {"adding", "active", "read", "reading", "reported"}

DownloadTypeOK ==
    /\ DOMAIN attempts \subseteq Nat
    /\ \A n \in DOMAIN attempts : attempts[n] \in [blob : Blobs, at : AttemptStates]
    /\ manager \in {"between", "polling"}
    /\ events \in Seq([of : DOMAIN attempts, kind : {"fetched", "complete", "failed"}])
    /\ requests \in Seq(Blobs)
    /\ DOMAIN retried \subseteq Blobs
    /\ \A b \in DOMAIN retried :
          /\ retried[b].retries \in 1 .. MaxFailures + 1
          /\ retried[b].time \in {"set", "none"}
          /\ b[1] \in Results => retried[b].retries <= MaxDownloadRetries
    /\ \A t \in ticketing : t.blob \in Blobs /\ t.blob[1] \in Parameters /\ t.retries \in Nat
    /\ retrying \in [RetryTasks -> SUBSET Blobs]
    /\ items \in [Items -> {"unknown", "wanted", "complete", "given up"}]
    /\ failures \in [Items -> 0 .. MaxFailures]
    /\ loopEnded \in BOOLEAN

DownloadInit ==
    /\ attempts = <<>>
    /\ manager = "between"
    /\ events = <<>>
    /\ requests = <<>>
    /\ retried = <<>>
    /\ ticketing = {}
    /\ retrying = [r \in RetryTasks |-> {}]
    /\ items = [i \in Items |-> "unknown"]
    /\ failures = [i \in Items |-> 0]
    /\ loopEnded = FALSE

\* A training result arrives by gossip, or the ticket of a parameter from a peer.
RequestDownload(i) ==
    /\ ~loopEnded /\ items[i] = "unknown"
    /\ items' = [items EXCEPT ![i] = "wanted"]
    /\ requests' = Append(requests, <<i, 0>>)
    /\ UNCHANGED <<attempts, manager, events, retried, ticketing, retrying, failures, loopEnded>>

FreeNumber ==
    CHOOSE n \in 1 .. Cardinality(DOMAIN attempts) + 1 : n \notin DOMAIN attempts

\* NetworkConnection::start_download and DownloadManager::add, which spawns a task.
StartDownload ==
    /\ ~loopEnded /\ requests # <<>>
    /\ attempts' = [n \in DOMAIN attempts \union {FreeNumber} |->
                       IF n = FreeNumber THEN [blob |-> Head(requests), at |-> "adding"]
                       ELSE attempts[n]]
    /\ requests' = Tail(requests)
    /\ UNCHANGED <<manager, events, retried, ticketing, retrying, items, failures, loopEnded>>

To(n, at) == attempts' = [attempts EXCEPT ![n].at = at]

Over(n) == attempts' = [m \in DOMAIN attempts \ {n} |-> attempts[m]]

\* The tasks of add and read need a lock that the manager holds while it polls.
Added(n) ==
    /\ manager = "between"
    /\ \/ attempts[n].at = "adding" /\ To(n, "active")
       \/ attempts[n].at = "read" /\ To(n, "reading")
    /\ UNCHANGED <<manager, events, requests, retried, ticketing, retrying, items, failures,
                   loopEnded>>

\* The manager locks both lists and waits for the first event of any download.
StartPolling ==
    /\ manager = "between"
    /\ \E n \in DOMAIN attempts : attempts[n].at \in {"active", "reading"}
    /\ manager' = "polling"
    /\ UNCHANGED <<attempts, events, requests, retried, ticketing, retrying, items, failures,
                   loopEnded>>

\* Outcomes of a poll: failures are bounded.
Outcomes(n) ==
    (IF attempts[n].at = "active" THEN {"fetched"} ELSE {"complete"})
       \union (IF SumFunction(failures)
                    + Cardinality({i \in DOMAIN events : events[i].kind = "failed"}) < MaxFailures
               THEN {"failed"} ELSE {})

\* poll_next_inner: handle_download_progress and handle_read_result.  The entry is
\* removed from its list when it is fetched, read or failed.
Polled(n) ==
    /\ manager = "polling" /\ attempts[n].at \in {"active", "reading"}
    /\ \E kind \in Outcomes(n) : events' = Append(events, [of |-> n, kind |-> kind])
    /\ To(n, "reported")
    /\ manager' = "between"
    /\ UNCHANGED <<requests, retried, ticketing, retrying, items, failures, loopEnded>>

\* A progress item: the event changes nothing, but the locks are released.
PolledProgress ==
    /\ manager = "polling"
    /\ \E n \in DOMAIN attempts : attempts[n].at = "active"
    /\ manager' = "between"
    /\ UNCHANGED <<attempts, events, requests, retried, ticketing, retrying, items, failures,
                   loopEnded>>

NextIs(kind) == ~loopEnded /\ events # <<>> /\ Head(events).kind = kind

Attempt == Head(events).of

Blob == attempts[Attempt].blob

Item == Blob[1]

\* on_download_update: the blob is read from the store, by a task.
OnFetched ==
    /\ NextIs("fetched")
    /\ events' = Tail(events)
    /\ To(Attempt, "read")
    /\ UNCHANGED <<manager, requests, retried, ticketing, retrying, items, failures, loopEnded>>

Without(b) == [c \in DOMAIN retried \ {b} |-> retried[c]]

With(b, info) ==
    [c \in DOMAIN retried \union {b} |-> IF c = b THEN info ELSE retried[c]]

\* All parameters arrived and send_init_parameters has taken them.
ModelTaken == \A i \in Parameters : items[i] = "complete"

\* NetworkEvent::DownloadComplete.  A parameter that arrives once more after the
\* model was taken is an error, which ends the loop.
OnComplete ==
    /\ NextIs("complete")
    /\ events' = Tail(events)
    /\ Over(Attempt)
    /\ retried' = Without(Blob)
    /\ loopEnded' = (Item \in Parameters /\ ModelTaken)
    /\ items' = [items EXCEPT ![Item] = "complete"]
    /\ UNCHANGED <<manager, requests, ticketing, retrying, failures>>

RetriesOf(b) == IF b \in DOMAIN retried THEN retried[b].retries ELSE 0

Retryable(b) == RetriesOf(b) < MaxDownloadRetries

\* NetworkEvent::DownloadFailed of a training result.
OnResultFailed ==
    /\ NextIs("failed") /\ Item \in Results
    /\ events' = Tail(events)
    /\ Over(Attempt)
    /\ IF Retryable(Blob)
       THEN /\ retried' = With(Blob, [retries |-> RetriesOf(Blob) + 1, time |-> "set"])
            /\ UNCHANGED items
       ELSE /\ retried' = Without(Blob)
            /\ items' = [items EXCEPT ![Item] = IF @ = "complete" THEN @ ELSE "given up"]
    /\ failures' = [failures EXCEPT ![Item] = @ + 1]
    /\ UNCHANGED <<manager, requests, ticketing, retrying, loopEnded>>

\* NetworkEvent::DownloadFailed of a parameter: a task asks for a new ticket.
OnParameterFailed ==
    /\ NextIs("failed") /\ Item \in Parameters
    /\ events' = Tail(events)
    /\ Over(Attempt)
    /\ ticketing' = ticketing \union {[blob |-> Blob, retries |-> RetriesOf(Blob)]}
    /\ failures' = [failures EXCEPT ![Item] = @ + 1]
    /\ UNCHANGED <<manager, requests, retried, retrying, items, loopEnded>>

\* Mutant of NewTicket: the old entry is removed last, whatever was inserted.
NewTicketRemovesLast(t) ==
    /\ ticketing' = ticketing \ {t}
    /\ retried' = Without(t.blob)
    /\ UNCHANGED <<attempts, manager, events, requests, retrying, items, failures, loopEnded>>

\* The task has a ticket of another version, or keeps the old one.
NewTicket(t) ==
    /\ ticketing' = ticketing \ {t}
    /\ \/ retried' = With(t.blob, [retries |-> t.retries + 1, time |-> "set"])
       \/ /\ t.blob[2] < MaxFailures
          /\ retried' =
                LET new == <<t.blob[1], t.blob[2] + 1>>
                IN  [c \in (DOMAIN retried \ {t.blob}) \union {new} |->
                       IF c = new THEN [retries |-> t.retries + 1, time |-> "set"]
                       ELSE retried[c]]
    /\ UNCHANGED <<attempts, manager, events, requests, retrying, items, failures, loopEnded>>

\* A task of retry_check_interval asks for the pending retries: those whose
\* retry_time is set and has passed.
PendingRetries(r) ==
    /\ ~loopEnded /\ retrying[r] = {}
    /\ \E due \in SUBSET {b \in DOMAIN retried : retried[b].time = "set"} \ {{}} :
          retrying' = [retrying EXCEPT ![r] = due]
    /\ UNCHANGED <<attempts, manager, events, requests, retried, ticketing, items, failures,
                   loopEnded>>

\* update_time, and the request.
Retry(r, b) ==
    /\ b \in retrying[r]
    /\ retrying' = [retrying EXCEPT ![r] = @ \ {b}]
    /\ retried' = IF b \in DOMAIN retried THEN [retried EXCEPT ![b].time = "none"] ELSE retried
    /\ requests' = Append(requests, b)
    /\ UNCHANGED <<attempts, manager, events, ticketing, items, failures, loopEnded>>

LoopStep ==
    \/ StartDownload \/ OnFetched \/ OnComplete \/ OnResultFailed \/ OnParameterFailed

DownloadNext ==
    \/ \E i \in Items : RequestDownload(i)
    \/ LoopStep
    \/ \E n \in DOMAIN attempts : Added(n) \/ Polled(n)
    \/ StartPolling \/ PolledProgress
    \/ \E t \in ticketing : NewTicket(t)
    \/ \E r \in RetryTasks : PendingRetries(r) \/ \E b \in retrying[r] : Retry(r, b)

DownloadSpec == DownloadInit /\ [][DownloadNext]_downloadVars

-----------------------------------------------------------------------------
(* Properties. *)

\* A wanted item is never forgotten: between two steps of the manager, the loop,
\* the retry tasks and the ticket tasks, somebody is going to go on with it.
NotForgotten ==
    \A i \in Items : items[i] = "wanted" =>
       \/ \E n \in DOMAIN requests : requests[n][1] = i
       \/ \E n \in DOMAIN attempts : attempts[n].blob[1] = i
       \/ \E b \in DOMAIN retried : b[1] = i /\ retried[b].time = "set"
       \/ \E t \in ticketing : t.blob[1] = i
       \/ \E r \in RetryTasks : \E b \in retrying[r] : b[1] = i

\* A training result is given up only after MAX_DOWNLOAD_RETRIES retries of it have
\* failed too, though two retry tasks may restart the same download.
GivenUpAfterRetries ==
    \A i \in Results : items[i] = "given up" => failures[i] > MaxDownloadRetries

\* A download that ended is in no list of the manager any more: its events are
\* reported once.
ReportedOnce ==
    \A m, n \in DOMAIN events : m # n => events[m].of # events[n].of

\* With failures at any moment and two retry tasks on the same blob, a download is never
\* forgotten, not given up too early, and reported once.
DownloadsInv ==
    /\ DownloadTypeOK
    /\ NotForgotten
    /\ GivenUpAfterRetries
    /\ ReportedOnce
=============================================================================
