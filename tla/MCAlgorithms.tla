---------------------------- MODULE MCAlgorithms ----------------------------
(***************************************************************************)
(* What a client computes and what it fetches, in one run: which data is   *)
(* whose, the samples, the micro batches, the layers that are cut, DisTrO  *)
(* and its transform, the learning rate, the answers of an evaluation, and *)
(* the vector below them; the sharing of the model, the fetching of data,  *)
(* and the TCP server.  A behaviour is one of ONE component, the one       *)
(* chosen: they share no state.                                            *)
(***************************************************************************)
EXTENDS DataProviders, DataSelection, Distro, FixedVecSlots, GenerateUntil, TensorParallel,
        TrainBatch, ModelSharing, DataFetcher, TcpServer

VARIABLE chosen

algorithmVars == <<providerVars, selectionVars, transformVars, distroVars, slotsVars,
                   generateVars, lrVars, tpVars, trainBatchVars>>

transferVars == <<shareVars, fetchVars, tcpVars>>

runVars == <<chosen, algorithmVars, transferVars>>

\* retain by ranks, which the proofs use, is the selection of the elements that
\* the predicate holds of, for predicates on elements.
ASSUME RetainIsSelection ==
    \A n \in 0 .. N, Q \in SUBSET Values : \A s \in [1 .. n -> Values] :
      LET Keeps(v) == v \in Q
      IN  Retain(s, {i \in 1 .. n : s[i] \in Q}) = SelectSeq(s, Keeps)

MCGradients == {<<4, 0>>, <<-4, 8>>}
MCResidues == {<<0, 4>>}
MCLearningRates == [s \in 0 .. TrainingRounds + 1 |-> IF s = 0 THEN 1 ELSE 2]

\* One client has two batches in a round, and the others have one.
Busiest == CHOOSE d \in DistroClients : TRUE
MCBatchesOf == [c \in DistroClients |-> IF c = Busiest THEN 2 ELSE 1]

MCModelParams == <<"w1", "w2">>

Components == {"DataProviders", "DataSelection", "DctTransform", "Distro", "FixedVec",
               "GenerateUntil", "LearningRate", "TensorParallel", "TrainBatch",
               "ModelSharing", "DataFetcher", "TcpServer"}

\* A component that is not chosen has one initial state.
RunInit ==
    /\ chosen \in Components
    /\ \/ chosen = "DataProviders"
       \/ kind = "Preprocessed" /\ lengths = <<1>>
    /\ ProvidersInit
    /\ \/ chosen = "DataSelection"
       \/ selection = [total |-> 1, ties |-> 0, percent |-> 0, witnesses |-> 0,
                       verifiers |-> 0]
    /\ SelectionInit
    /\ \/ chosen = "DctTransform"
       \/ size = 1 /\ target = 1
    /\ TransformInit
    /\ \/ chosen = "Distro"
       \/ coldStart = TRUE
    /\ skipped \in IF chosen = "Distro" THEN {{}, {<<0, Busiest, 2>>}} ELSE {{}}
    /\ DistroInit
    /\ SlotsInit
    /\ GenerateInit
    /\ \/ chosen = "LearningRate"
       \/ /\ schedule = [kind |-> "Constant", warmup_init_lr |-> 0, base_lr |-> 0,
                          middle_lr |-> 0, final_lr |-> 0, warmup_steps |-> 0,
                          stable_steps |-> 0, span |-> 1]
          /\ cold = [start |-> 1, steps |-> 0]
    /\ LearningRateInit
    /\ \/ chosen = "TensorParallel"
       \/ world = 1 /\ bias = 0 /\ maxNorm = 2000 /\ gathers = TRUE /\ disk = <<Original>>
    /\ TensorParallelInit
    /\ \/ chosen = "TrainBatch"
       \/ trainers = 1 /\ micro_batch_size = 1 /\ fp32 = TRUE
    /\ TrainBatchInit
    /\ ShareInit /\ FetchInit /\ TcpInit

DataProvidersMoves ==
    /\ chosen = "DataProviders" /\ ProvidersNext
    /\ UNCHANGED <<chosen, transferVars, selectionVars, transformVars, distroVars,
                  slotsVars, generateVars, lrVars, tpVars, trainBatchVars>>

DataSelectionMoves ==
    /\ chosen = "DataSelection" /\ SelectionNext
    /\ UNCHANGED <<chosen, transferVars, providerVars, transformVars, distroVars,
                  slotsVars, generateVars, lrVars, tpVars, trainBatchVars>>

DctTransformMoves ==
    /\ chosen = "DctTransform" /\ TransformNext
    /\ UNCHANGED <<chosen, transferVars, providerVars, selectionVars, distroVars,
                  slotsVars, generateVars, lrVars, tpVars, trainBatchVars>>

DistroMoves ==
    /\ chosen = "Distro" /\ DistroNext
    /\ UNCHANGED <<chosen, transferVars, providerVars, selectionVars, transformVars,
                  slotsVars, generateVars, lrVars, tpVars, trainBatchVars>>

FixedVecMoves ==
    /\ chosen = "FixedVec" /\ SlotsNext
    /\ UNCHANGED <<chosen, transferVars, providerVars, selectionVars, transformVars,
                  distroVars, generateVars, lrVars, tpVars, trainBatchVars>>

GenerateUntilMoves ==
    /\ chosen = "GenerateUntil" /\ GenerateNext
    /\ UNCHANGED <<chosen, transferVars, providerVars, selectionVars, transformVars,
                  distroVars, slotsVars, lrVars, tpVars, trainBatchVars>>

LearningRateMoves ==
    /\ chosen = "LearningRate" /\ LearningRateNext
    /\ UNCHANGED <<chosen, transferVars, providerVars, selectionVars, transformVars,
                  distroVars, slotsVars, generateVars, tpVars, trainBatchVars>>

TensorParallelMoves ==
    /\ chosen = "TensorParallel" /\ TensorParallelNext
    /\ UNCHANGED <<chosen, transferVars, providerVars, selectionVars, transformVars,
                  distroVars, slotsVars, generateVars, lrVars, trainBatchVars>>

TrainBatchMoves ==
    /\ chosen = "TrainBatch" /\ TrainBatchNext
    /\ UNCHANGED <<chosen, transferVars, providerVars, selectionVars, transformVars,
                  distroVars, slotsVars, generateVars, lrVars, tpVars>>

ModelSharingMoves ==
    /\ chosen = "ModelSharing" /\ ShareNext
    /\ UNCHANGED <<chosen, algorithmVars, fetchVars, tcpVars>>

DataFetcherMoves ==
    /\ chosen = "DataFetcher" /\ FetchNext
    /\ UNCHANGED <<chosen, algorithmVars, shareVars, tcpVars>>

TcpServerMoves ==
    /\ chosen = "TcpServer" /\ TcpNext
    /\ UNCHANGED <<chosen, algorithmVars, shareVars, fetchVars>>

RunNext ==
    \/ DataProvidersMoves
    \/ DataSelectionMoves
    \/ DctTransformMoves
    \/ DistroMoves
    \/ FixedVecMoves
    \/ GenerateUntilMoves
    \/ LearningRateMoves
    \/ TensorParallelMoves
    \/ TrainBatchMoves
    \/ ModelSharingMoves
    \/ DataFetcherMoves
    \/ TcpServerMoves

RunSpec == RunInit /\ [][RunNext]_runVars
=============================================================================
