----------------------------- MODULE DataFetcher -----------------------------
(***************************************************************************)
(* How a client gets the batches of a step from a data server:             *)
(* DataFetcher (shared/client/src/fetch_data.rs), the TCP data provider    *)
(* and its server (shared/data-provider/src/remote).                       *)
(*                                                                         *)
(* A fetch task of one step is aborted when the next step begins, wherever *)
(* it waits, and its connection is used by the next task as it is.  A      *)
(* batch is its step and its number in the step; what a batch holds is     *)
(* known by the batch it was fetched for.                                  *)
(***************************************************************************)
EXTENDS Integers, Sequences, SequencesExt

CONSTANTS
    FetchSteps,    \* bound on the steps
    StepBatches,   \* batches of the client in a step
    FetchRetries,  \* MAX_RETRIES
    SampleBuffer   \* buffer_size

ASSUME FetchAssumption ==
    {FetchSteps, StepBatches, FetchRetries, SampleBuffer} \subseteq Nat \ {0}

VARIABLES
    fetch,       \* active_fetch_task
    samples,     \* the channel to the trainer of the step
    asked,       \* requests on their way to the data server
    answered,    \* answers on their way back
    dataServer,  \* the connection, and whether in_round has this client
    aborts,      \* tasks aborted between a request and its answer
    refusals     \* a request was rejected

fetchVars == <<fetch, samples, asked, answered, dataServer, aborts, refusals>>

Batches == (0 .. FetchSteps) \X (1 .. StepBatches)

Answers == [kind : {"TrainingData", "RequestRejected"}, data_ids : Batches]

FetchTypeOK ==
    /\ fetch \in [step : 0 .. FetchSteps, left : 0 .. StepBatches,
                  pc : {"pop", "request", "receive", "send", "done", "failed"},
                  retry_count : 0 .. FetchRetries, data : Batches]
    /\ samples \in Seq([id : Batches, data : Batches])
    /\ Len(samples) <= SampleBuffer
    /\ asked \in Seq(Batches) /\ answered \in Seq(Answers)
    /\ dataServer \in [up : BOOLEAN, in_round : BOOLEAN]
    /\ aborts \in 0 .. FetchSteps /\ refusals \in BOOLEAN

FetchInit ==
    /\ fetch = [step |-> 0, left |-> 0, pc |-> "done", retry_count |-> 0,
                data |-> <<0, 1>>]
    /\ samples = <<>>
    /\ asked = <<>> /\ answered = <<>>
    /\ dataServer = [up |-> TRUE, in_round |-> TRUE]
    /\ aborts = 0 /\ refusals = FALSE

\* The batch the task works on: batches are popped from the end.
BatchId == <<fetch.step, fetch.left + 1>>

\* fetch_data of the next step
FetchData ==
    /\ fetch.step < FetchSteps
    /\ fetch' = [fetch EXCEPT !.step = @ + 1, !.left = StepBatches, !.pc = "pop"]
    /\ samples' = <<>>
    /\ aborts' = IF fetch.pc = "receive" THEN aborts + 1 ELSE aborts
    /\ UNCHANGED <<asked, answered, dataServer, refusals>>

\* assigned_batch_ids.pop
PopBatch ==
    /\ fetch.pc = "pop"
    /\ fetch' = IF fetch.left = 0 THEN [fetch EXCEPT !.pc = "done"]
                ELSE [fetch EXCEPT !.pc = "request", !.left = @ - 1, !.retry_count = 0]
    /\ UNCHANGED <<samples, asked, answered, dataServer, aborts, refusals>>

\* get_samples failed: again after a delay, or never again.
AfterError ==
    IF fetch.retry_count < FetchRetries
    THEN [fetch EXCEPT !.pc = "request", !.retry_count = @ + 1]
    ELSE [fetch EXCEPT !.pc = "failed"]

\* receive_training_data sends the request; the connection is made once, at init.
SendRequest ==
    /\ fetch.pc = "request"
    /\ IF dataServer.up
       THEN asked' = Append(asked, BatchId) /\ fetch' = [fetch EXCEPT !.pc = "receive"]
       ELSE fetch' = AfterError /\ UNCHANGED asked
    /\ UNCHANGED <<samples, answered, dataServer, aborts, refusals>>

\* Mutant of Matches: the batch of the answer is not compared.
MatchesAnything(answer) == answer.kind = "TrainingData"

Matches(answer) == answer.kind = "TrainingData" /\ answer.data_ids = BatchId

\* The next message on the connection, whichever request it answers.
ReceiveAnswer ==
    /\ fetch.pc = "receive"
    /\ \/ /\ answered # <<>>
          /\ answered' = Tail(answered)
          /\ fetch' = IF Matches(Head(answered))
                      THEN [fetch EXCEPT !.pc = "send", !.data = Head(answered).data_ids]
                      ELSE AfterError
       \/ /\ answered = <<>> /\ ~dataServer.up
          /\ fetch' = AfterError
          /\ UNCHANGED answered
    /\ UNCHANGED <<samples, asked, dataServer, aborts, refusals>>

\* tx_next_sample.send
SendSample ==
    /\ fetch.pc = "send" /\ Len(samples) < SampleBuffer
    /\ samples' = Append(samples, [id |-> BatchId, data |-> fetch.data])
    /\ fetch' = [fetch EXCEPT !.pc = "pop"]
    /\ UNCHANGED <<asked, answered, dataServer, aborts, refusals>>

\* The trainer of the step: next_sample.recv
TakeSample ==
    /\ samples # <<>>
    /\ samples' = Tail(samples)
    /\ UNCHANGED <<fetch, asked, answered, dataServer, aborts, refusals>>

\* handle_client_message and try_send_data of the server, and send_to
Provide ==
    /\ dataServer.up /\ asked # <<>>
    /\ asked' = Tail(asked)
    /\ answered' = Append(answered, [kind |-> IF dataServer.in_round THEN "TrainingData"
                                                                     ELSE "RequestRejected",
                                     data_ids |-> Head(asked)])
    /\ refusals' = (refusals \/ ~dataServer.in_round)
    /\ UNCHANGED <<fetch, samples, dataServer, aborts>>

\* handle_new_state of the server, which may be behind the client or ahead of it
ServerSeesState ==
    /\ dataServer' = [dataServer EXCEPT !.in_round = ~@]
    /\ UNCHANGED <<fetch, samples, asked, answered, aborts, refusals>>

\* A sample that does not load ends the server (`expect`), and with it the connection.
ServerEnds ==
    /\ dataServer.up
    /\ dataServer' = [dataServer EXCEPT !.up = FALSE]
    /\ asked' = <<>>
    /\ UNCHANGED <<fetch, samples, answered, aborts, refusals>>

FetchNext ==
    \/ FetchData \/ PopBatch \/ SendRequest \/ ReceiveAnswer \/ SendSample
    \/ TakeSample
    \/ Provide \/ ServerSeesState \/ ServerEnds

FetchSpec == FetchInit /\ [][FetchNext]_fetchVars

-----------------------------------------------------------------------------
(* Properties. *)

\* A batch is trained on the data that was asked for under its id, although an aborted
\* task leaves the answers to its requests on the connection for the tasks after it.
SamplesOfTheBatch == \A i \in DOMAIN samples : samples[i].id = samples[i].data

\* Answers left over do not cost a batch as long as no more tasks were aborted between
\* request and answer than a fetch has retries: each leaves one answer, which every
\* later batch meets, since each retry leaves one more in its turn.
GivesUpForAReason ==
    fetch.pc = "failed" => ~dataServer.up \/ refusals \/ aborts > FetchRetries

\* Fetch tasks that are aborted between request and answer do not mix up the data of
\* the batches after them, and cost a batch only when they were too many.
FetchInv ==
    /\ FetchTypeOK
    /\ SamplesOfTheBatch
    /\ GivesUpForAReason
=============================================================================
