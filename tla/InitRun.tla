------------------------------ MODULE InitRun -------------------------------
(***************************************************************************)
(* How a client enters a run (shared/client/src/state/init.rs): the data   *)
(* provider, the model and the log of the run are set up at the same time, *)
(* the ranks of the model are put together into trainers, and the threads  *)
(* of the trainers reduce their gradients over the data parallel ranks     *)
(* (shared/modeling/src/trainer.rs).                                       *)
(*                                                                         *)
(* Abstractions.                                                           *)
(*  - What is loaded is known by whether the loading succeeds.             *)
(*  - The ranks of a tensor parallel group make their communicator         *)
(*    together: none has it before all have asked for it.                  *)
(*  - Of a training only the reduction over the data parallel ranks is     *)
(*    kept: the rest is in LocalTrainer.                                   *)
(***************************************************************************)
EXTENDS Integers, Sequences, SequencesExt, FiniteSets, Functions

CONSTANTS
    DataParallelism, TensorParallelism,
    MaxDevices \* bound: devices of the client

ASSUME InitRunAssumption ==
    /\ DataParallelism \in Nat \ {0} /\ TensorParallelism \in Nat \ {0}
    /\ MaxDevices \in Nat

WorldRanks == 0 .. DataParallelism * TensorParallelism - 1

\* rank = dp * tensor_parallelism + tp
Dp(rank) == rank \div TensorParallelism
Tp(rank) == rank % TensorParallelism

VARIABLES
    devices,    \* the number of devices of the client
    checkpoint, \* llm.checkpoint
    location,   \* llm.data_location
    data,       \* data_future
    model,      \* where the task that loads the model is
    ranks,      \* rank -> what has become of its loading
    wandb,      \* wandb_future
    configs,    \* configurations sent to the client for its peers
    result,     \* of init_run
    trainers,   \* trainer -> the models of its threads
    thread,     \* rank -> where its thread is in the reduction
    arrived,    \* tp -> threads that wait at the barrier of the reduction
    reduced     \* rank -> begun the reduction

initRunVars == <<devices, checkpoint, location, data, model, ranks, wandb, configs,
                 result, trainers, thread, arrived, reduced>>

loadVars == <<devices, checkpoint, location>>
dpVars == <<thread, arrived, reduced>>

Locations == {"Server", "Local", "Dummy", "Http"}
CheckpointKinds == {"Dummy", "Hub", "P2P", "Ephemeral"}

InitRunInit ==
    /\ devices \in 0 .. MaxDevices
    /\ checkpoint \in CheckpointKinds
    /\ location \in Locations
    /\ data = "pending"
    /\ model = "start"
    /\ ranks = [r \in WorldRanks |-> "none"]
    /\ wandb = "pending"
    /\ configs = 0
    /\ result = "pending"
    /\ trainers = <<>>
    /\ thread = [r \in WorldRanks |-> "none"]
    /\ arrived = [t \in 0 .. TensorParallelism - 1 |-> {}]
    /\ reduced = [r \in WorldRanks |-> FALSE]

-----------------------------------------------------------------------------
(* The three futures. *)

\* No device at all, or a model that nobody keeps: nothing is started.
RefuseRun ==
    /\ result = "pending" /\ model = "start"
    /\ \/ devices = 0 /\ result' = "UnavailableDevice"
       \/ devices # 0 /\ checkpoint = "Ephemeral" /\ result' = "ModelIsEphemeral"
    /\ UNCHANGED <<loadVars, data, model, ranks, wandb, configs, trainers, dpVars>>

\* The three are started; the model waits for its files, for a peer or for nothing.
StartRun ==
    /\ result = "pending" /\ model = "start" /\ devices # 0
    /\ model' = [Dummy |-> "dummy", Hub |-> "files", P2P |-> "config",
                 Ephemeral |-> "start"][checkpoint]
    /\ model' # "start"
    /\ UNCHANGED <<loadVars, data, ranks, wandb, configs, result, trainers, dpVars>>

\* A local data location is not written yet: init_run panics.
DataReady ==
    /\ model # "start" /\ data = "pending" /\ result = "pending"
    /\ data' \in CASE location = "Dummy" -> {"ok"}
                   [] location = "Local" -> {"panicked"}
                   [] OTHER              -> {"ok", "error"}
    /\ result' = IF data' = "panicked" THEN "panicked" ELSE result
    /\ UNCHANGED <<loadVars, model, ranks, wandb, configs, trainers, dpVars>>

\* A run that the log does not take goes on without it; only a log whose
\* description is wrong is an error.
WandbReady ==
    /\ model # "start" /\ wandb = "pending"
    /\ wandb' \in {"run", "none", "error"}
    /\ UNCHANGED <<loadVars, data, model, ranks, configs, result, trainers, dpVars>>

\* The dummy models need no device, and their configuration is sent at once.
LoadDummy ==
    /\ model = "dummy"
    /\ model' = "loaded"
    /\ ranks' = [r \in WorldRanks |-> "loaded"]
    /\ configs' = configs + 1
    /\ UNCHANGED <<loadVars, data, wandb, result, trainers, dpVars>>

\* The files are there, or a peer has sent the configuration and then all the
\* parameters.  An answer that does not come leaves the task waiting; a channel
\* that is closed makes it panic.
ModelSource ==
    /\ model \in {"files", "config", "parameters"}
    /\ \/ /\ model' = IF model = "config" THEN "parameters" ELSE "ranks"
          /\ ranks' = IF model' = "ranks" THEN [r \in WorldRanks |-> "started"] ELSE ranks
       \/ model' = "error" /\ UNCHANGED ranks
    /\ UNCHANGED <<loadVars, data, wandb, configs, result, trainers, dpVars>>

\* What may become of the loading of a rank.  One that ends with an error has not joined
\* its group; one that has failed did so after that.
RankStates == {"none", "started", "joining", "loaded", "error", "failed"}

\* device_for_rank(rank) finds a device and the source is one of this architecture,
\* or the rank ends before it has joined its group.
RankJoins(r) ==
    /\ ranks[r] = "started"
    /\ \E outcome \in {"error"} \cup (IF r < devices THEN {"joining"} ELSE {}) :
          ranks' = [ranks EXCEPT ![r] = outcome]
    /\ UNCHANGED <<loadVars, data, model, wandb, configs, result, trainers, dpVars>>

Group(r) == {q \in WorldRanks : Dp(q) = Dp(r)}

\* A rank that has joined loads its part once its whole group is there.  The group may
\* not form, and files or variables may be missing or not fit to be cut: the rank ends,
\* and the others go on by themselves.
RankLoads(r) ==
    /\ ranks[r] = "joining"
    /\ \A q \in Group(r) : ranks[q] \in {"joining", "loaded", "failed"}
    /\ \E outcome \in {"loaded", "failed"} : ranks' = [ranks EXCEPT ![r] = outcome]
    /\ UNCHANGED <<loadVars, data, model, wandb, configs, result, trainers, dpVars>>

\* The futures of the ranks are awaited in order: the first one that is not loaded
\* decides.
FirstOpen == {r \in WorldRanks : \A q \in 0 .. r - 1 : ranks[q] = "loaded"}

\* The configuration and the tokenizer of the loaded model go to the other peers.
ConfigUploaded ==
    /\ model' = "loaded"
    /\ configs' = configs + 1

ModelLoaded ==
    /\ model = "ranks"
    /\ \/ /\ \A r \in WorldRanks : ranks[r] = "loaded"
          /\ ConfigUploaded
       \/ /\ \E r \in FirstOpen : ranks[r] \in {"error", "failed"}
          /\ model' = "error" /\ UNCHANGED configs
    /\ UNCHANGED <<loadVars, data, ranks, wandb, result, trainers, dpVars>>

-----------------------------------------------------------------------------
(* init_run, once the three have ended. *)

\* tp_models: the models, in the order of their ranks, in groups of
\* tensor_parallelism.
TpModels ==
    FoldLeft(LAMBDA groups, r :
               IF groups = <<>> \/ Len(Last(groups)) = TensorParallelism
               THEN Append(groups, <<r>>)
               ELSE Front(groups) \o <<Append(Last(groups), r)>>,
             <<>>, [i \in 1 .. Cardinality(WorldRanks) |-> i - 1])

\* The errors in the order in which init_run returns them.
RunResult ==
    CASE model = "error" -> "ModelLoad"
      [] data = "error"  -> "DataProviderConnect"
      [] wandb = "error" -> "Wandb"
      [] OTHER           -> "ok"

\* tokio::join! waits for all three, whatever becomes of the first.
JoinFutures ==
    /\ result = "pending"
    /\ model \in {"loaded", "error"} /\ data \in {"ok", "error"} /\ wandb # "pending"
    /\ result' = RunResult
    /\ trainers' = IF result' = "ok" THEN TpModels ELSE trainers
    /\ thread' = IF result' = "ok" THEN [r \in WorldRanks |-> "train"] ELSE thread
    /\ UNCHANGED <<loadVars, data, model, ranks, wandb, configs, arrived, reduced>>

-----------------------------------------------------------------------------
(* The threads of the trainers reduce their gradients. *)

\* Mutant of BarrierSize: one thread more than there are.
BarrierSizeMore == TensorParallelism + 1

\* CancellableBarrier::new(init_config.tensor_parallelism): the barrier of the
\* threads that have the same tp.
BarrierSize == TensorParallelism

\* The thread of rank r waits at the barrier of its tp; the last one that the
\* barrier was made for lets all of them go on.
DpWait(r) ==
    /\ thread[r] \in {"train", "reduced"} /\ DataParallelism > 1
    /\ LET t == Tp(r)
           all == arrived[t] \cup {r}
           waits == [train |-> "wait", reduced |-> "waitEnd"]
           freed == [train |-> "reduce", reduced |-> "done", wait |-> "reduce",
                     waitEnd |-> "done"]
       IN  IF Cardinality(all) >= BarrierSize
           THEN /\ arrived' = [arrived EXCEPT ![t] = {}]
                /\ thread' = [q \in WorldRanks |->
                                IF q \in all THEN freed[thread[q]] ELSE thread[q]]
           ELSE /\ arrived' = [arrived EXCEPT ![t] = all]
                /\ thread' = [thread EXCEPT ![r] = waits[@]]
    /\ UNCHANGED <<loadVars, data, model, ranks, wandb, configs, result, trainers, reduced>>

DpRanks(r) == {q \in WorldRanks : Tp(q) = Tp(r)}

\* The gradients are reduced over the ranks that have the same tp: a rank begins,
\* and ends once all of them have begun.
DpReduce(r) ==
    /\ thread[r] = "reduce"
    /\ \/ /\ ~reduced[r]
          /\ reduced' = [reduced EXCEPT ![r] = TRUE] /\ UNCHANGED thread
       \/ /\ \A q \in DpRanks(r) : reduced[q]
          /\ thread' = [thread EXCEPT ![r] = "reduced"] /\ UNCHANGED reduced
    /\ UNCHANGED <<loadVars, data, model, ranks, wandb, configs, result, trainers, arrived>>

Futures == RefuseRun \/ StartRun \/ LoadDummy \/ ModelLoaded \/ JoinFutures
RankStep(r) == RankJoins(r) \/ RankLoads(r)
ThreadStep(r) == DpWait(r) \/ DpReduce(r)

InitRunNext ==
    \/ Futures \/ DataReady \/ WandbReady \/ ModelSource
    \/ \E r \in WorldRanks : RankStep(r) \/ ThreadStep(r)

\* Connections and files answer, tasks and threads are scheduled; that the peers
\* answer is not assumed.
InitRunFairness ==
    /\ WF_initRunVars(Futures) /\ WF_initRunVars(DataReady) /\ WF_initRunVars(WandbReady)
    /\ WF_initRunVars(model = "files" /\ ModelSource)
    /\ \A r \in WorldRanks : WF_initRunVars(RankStep(r)) /\ WF_initRunVars(ThreadStep(r))

InitRunSpec == InitRunInit /\ [][InitRunNext]_initRunVars /\ InitRunFairness

-----------------------------------------------------------------------------
(* Properties. *)

\* The variables keep their types; a trainer has the models of one data parallel
\* rank, each at the place of its tp.
InitRunTypeOK ==
    /\ data \in {"pending", "ok", "error", "panicked"}
    /\ wandb \in {"pending", "run", "none", "error"}
    /\ ranks \in [WorldRanks -> RankStates]
    /\ configs \in 0 .. 1
    /\ \A t \in DOMAIN arrived : arrived[t] \subseteq {r \in WorldRanks : Tp(r) = t}
    /\ trainers # <<>> =>
         /\ Len(trainers) = DataParallelism
         /\ \A d \in 1 .. Len(trainers), t \in 1 .. TensorParallelism :
              Dp(trainers[d][t]) = d - 1 /\ Tp(trainers[d][t]) = t - 1

\* A client that enters the run has its data, its model and the models of all
\* ranks, and nothing of it is still being loaded.
RunIsComplete ==
    result = "ok" => /\ data = "ok" /\ wandb \in {"run", "none"} /\ configs = 1
                     /\ \A r \in WorldRanks : ranks[r] = "loaded"

\* No error ends init_run while another of the three futures is still at work.
NothingLeftBehind ==
    result \in {"ModelLoad", "DataProviderConnect", "Wandb"} =>
      data # "pending" /\ wandb # "pending" /\ model \in {"loaded", "error"}

\* The peers learn of the configuration once the model is loaded on every rank.
ConfigOfLoadedModel ==
    configs > 0 => \A r \in WorldRanks : ranks[r] = "loaded"

\* A reduction begins once every data parallel rank has come to it.  The barrier is made
\* for tensor_parallelism threads: with fewer of these than data parallel ranks it opens
\* before all of them have come.
ReduceTogether ==
    \A r \in WorldRanks : reduced[r] =>
      \A q \in DpRanks(r) : thread[q] \notin {"none", "train", "wait"}

\* init_run returns, unless a peer does not answer or a rank that ended before it joined
\* has left the other ranks of its group to wait for it.
InitRunReturns ==
    <>[](\/ result # "pending"
         \/ model \in {"config", "parameters"}
         \/ \E r \in WorldRanks : ranks[r] = "error" /\ \E q \in Group(r) : ranks[q] = "joining")

\* Every thread of a client that trains comes out of its reduction, in a grid with as many
\* tensor parallel as data parallel ranks.  With more of them the barrier never opens:
\* WideGridHangs proves it.
ReductionEnds ==
    \A r \in WorldRanks : thread[r] = "train" ~> thread[r] = "done"

\* Whichever of the concurrent loads fails or comes first, a run is entered complete or
\* not at all, with nothing left at work, and its ranks reduce together.
InitRunInv ==
    /\ InitRunTypeOK
    /\ RunIsComplete
    /\ NothingLeftBehind
    /\ ConfigOfLoadedModel
    /\ ReduceTogether

\* Entering a run keeps its invariant and ends, and so does every reduction.
InitRunCorrect ==
    /\ []InitRunInv
    /\ InitRunReturns
    /\ ReductionEnds
=============================================================================
