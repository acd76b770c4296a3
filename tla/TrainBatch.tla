----------------------------- MODULE TrainBatch -----------------------------
(***************************************************************************)
(* One batch in the data-parallel trainers of a client: the samples are    *)
(* dealt to the trainers (client/src/state/train.rs) or padded for the     *)
(* ranks of a Python trainer, each trainer cuts its part into micro        *)
(* batches and adds up their gradients, in the parameters or in a buffer   *)
(* of 32-bit floats (modeling/src/fp32_gradient_accumulator.rs), and the   *)
(* gradients are averaged over the trainers (modeling/src/trainer.rs).     *)
(*                                                                         *)
(* Abstractions.  A sample is its place in the batch; the gradient of some *)
(* samples is the set of them, and the mean of gradients is their union.   *)
(* A padding sample, which the loss ignores, is 0.                         *)
(*                                                                         *)
(* The learning rate of the batch's step is a specification of its own,    *)
(* at the end of the module.                                               *)
(***************************************************************************)
EXTENDS Integers, Sequences, SequencesExt, FiniteSets, FiniteSetsExt

CONSTANTS
    MaxSamples,      \* bound: samples of a batch
    MaxTrainers,     \* bound: data-parallel trainers
    MaxMicroBatch,   \* bound: micro_batch_size
    MaxTrainBatches, \* bound: batches one after the other
    GradVariables    \* variables of the model

ASSUME TrainBatchAssumption ==
    {MaxSamples, MaxTrainers, MaxMicroBatch, MaxTrainBatches, GradVariables} \subseteq Nat \ {0}

VARIABLES
    trainers,   \* number of data-parallel trainers
    micro_batch_size, \* samples of a micro batch
    fp32,       \* grad_accum_in_fp32
    batch,      \* number of the batch, 0 before the first
    trainSamples, \* samples of this batch
    outcome,    \* "none", "dealt", "panicked", "crashed" or "mismatched"
    parts,      \* trainer -> its samples
    mixed,      \* a micro batch had the sequence lengths of other samples
    nextMicro,  \* trainer -> its next micro batch
    gradient,   \* trainer -> gradients in its parameters
    buffer,     \* trainer -> gradients in its accumulator, if it has one
    accumulates,\* trainer -> it has allocated an accumulator
    progress    \* trainer -> "training", "reducing" or "reduced"

setupVars == <<trainers, micro_batch_size, fp32>>

trainBatchVars == <<setupVars, batch, trainSamples, outcome, parts, mixed, nextMicro,
                    gradient, buffer, accumulates, progress>>

TrainerIds == 1 .. trainers
CeilDiv(a, b) == (a + b - 1) \div b

\* items.chunks(size)
ChunksOf(s, size) ==
    [i \in 1 .. CeilDiv(Len(s), size) |->
       SubSeq(s, (i - 1) * size + 1, IF i * size > Len(s) THEN Len(s) ELSE i * size)]

-----------------------------------------------------------------------------
(* Dealing the samples. *)

\* A chunk more than there are trainers is dealt to the first ones; of more chunks
\* than that, "Batches does not match DP world size", the rest gets lost.
Dealt(s, n) ==
    LET chunks == ChunksOf(s, Len(s) \div n)
        extra == Last(chunks)
    IN  IF Len(chunks) = n + 1
        THEN [i \in 1 .. n |-> IF i <= Len(extra) THEN Append(chunks[i], extra[i]) ELSE chunks[i]]
        ELSE SubSeq(chunks, 1, n)

\* Batch::pad, for the ranks of a Python trainer.
Pad(s, world) ==
    LET remainder == Len(s) % world
    IN  s \o [i \in 1 .. IF remainder = 0 THEN 0 ELSE world - remainder |-> 0]

TrainBatchInit ==
    /\ trainers \in 1 .. MaxTrainers
    /\ micro_batch_size \in 1 .. MaxMicroBatch
    /\ fp32 \in BOOLEAN
    /\ batch = 0 /\ trainSamples = <<>> /\ outcome = "none"
    /\ parts = [t \in TrainerIds |-> <<>>]
    /\ mixed = FALSE
    /\ nextMicro = [t \in TrainerIds |-> 1]
    /\ gradient = [t \in TrainerIds |-> {}]
    /\ buffer = [t \in TrainerIds |-> {}]
    /\ accumulates = [t \in TrainerIds |-> FALSE]
    /\ progress = [t \in TrainerIds |-> "reduced"]

AccumSteps(part) == CeilDiv(Len(part), micro_batch_size)

\* The batch that is next; the accumulators are allocated, and zeroed.  chunks(0)
\* panics when there are fewer samples than trainers.  That as many trainers are
\* available as the data-parallel world has is no branch: they come back all of them,
\* or the first that does not ends the task (TrainerFails).
Deal ==
    /\ \A t \in TrainerIds : progress[t] = "reduced"
    /\ batch < MaxTrainBatches /\ outcome \in {"none", "dealt"}
    /\ batch' = batch + 1
    /\ \E n \in 1 .. MaxSamples :
         /\ trainSamples' = [i \in 1 .. n |-> i]
         /\ IF n < trainers
            THEN outcome' = "panicked" /\ UNCHANGED <<parts, accumulates, progress>>
            ELSE /\ outcome' = "dealt"
                 /\ parts' = Dealt(trainSamples', trainers)
                 /\ accumulates' = [t \in TrainerIds |->
                                      accumulates[t] \/ (fp32 /\ AccumSteps(parts'[t]) # 1)]
                 /\ progress' = [t \in TrainerIds |-> "training"]
    /\ nextMicro' = [t \in TrainerIds |-> 1]
    /\ gradient' = [t \in TrainerIds |-> {}]
    /\ buffer' = [t \in TrainerIds |-> {}]
    /\ mixed' = FALSE
    /\ UNCHANGED setupVars

-----------------------------------------------------------------------------
(* The micro batches of a trainer. *)

\* Tensor::chunk: the number of the chunks is given, and they are as even as can be.
InputChunks(part) == ChunksOf(part, CeilDiv(Len(part), AccumSteps(part)))

\* chunks of a vector: the length of the chunks is given.
LengthChunks(part) == ChunksOf(part, micro_batch_size)

\* Mutant of Accumulated: the gradient stays in the parameters as well.
AccumulatedTwice(t, g) == <<g, buffer[t] \cup g>>

\* accumulate_gradients: into the buffer, and out of the parameters.
Accumulated(t, g) == IF accumulates[t] THEN <<{}, buffer[t] \cup g>> ELSE <<g, buffer[t]>>

\* forward_backward of the next micro batch.
MicroBatch(t) ==
    /\ outcome = "dealt" /\ progress[t] = "training" /\ nextMicro[t] <= AccumSteps(parts[t])
    /\ LET rows == InputChunks(parts[t])[nextMicro[t]]
           g == gradient[t] \cup ToSet(rows)
       IN  /\ mixed' = (mixed \/ rows # LengthChunks(parts[t])[nextMicro[t]])
           /\ gradient' = [gradient EXCEPT ![t] = Accumulated(t, g)[1]]
           /\ buffer' = [buffer EXCEPT ![t] = Accumulated(t, g)[2]]
    /\ nextMicro' = [nextMicro EXCEPT ![t] = @ + 1]
    /\ UNCHANGED <<setupVars, batch, trainSamples, outcome, parts, accumulates, progress>>

\* forward_backward fails: the thread of the trainer ends, TrainCrashed ends the task,
\* and nothing of this batch is used.
TrainerFails(t) ==
    /\ outcome = "dealt" /\ progress[t] = "training" /\ nextMicro[t] <= AccumSteps(parts[t])
    /\ outcome' = "crashed"
    /\ UNCHANGED <<setupVars, batch, trainSamples, parts, mixed, nextMicro, gradient, buffer,
                   accumulates, progress>>

\* apply_accumulation: back into the parameters, before the gradients are reduced.
MicroBatchesDone(t) ==
    /\ outcome = "dealt" /\ progress[t] = "training" /\ nextMicro[t] > AccumSteps(parts[t])
    /\ gradient' = [gradient EXCEPT ![t] = IF accumulates[t] THEN buffer[t] ELSE @]
    /\ progress' = [progress EXCEPT ![t] = IF trainers = 1 THEN "reduced" ELSE "reducing"]
    /\ UNCHANGED <<setupVars, batch, trainSamples, outcome, parts, mixed, nextMicro, buffer,
                   accumulates>>

\* The collectives of a trainer: one for the buffer, or one for each variable.
Reductions(t) == IF accumulates[t] THEN 1 ELSE GradVariables

\* What a trainer brings into them.
Contribution(t) == IF accumulates[t] THEN buffer[t] ELSE gradient[t]

AllContributions == UNION {Contribution(u) : u \in TrainerIds}

\* The reduced buffer is not copied into the parameters any more.
ReducedGradient(t) == IF accumulates[t] THEN gradient[t] ELSE AllContributions

\* all_reduce by the mean, which all enter together.
ReduceGradients ==
    /\ outcome = "dealt" /\ \A t \in TrainerIds : progress[t] = "reducing"
    /\ \A t, u \in TrainerIds : Reductions(t) = Reductions(u)
    /\ gradient' = [t \in TrainerIds |-> ReducedGradient(t)]
    /\ buffer' = [t \in TrainerIds |-> IF accumulates[t] THEN AllContributions ELSE buffer[t]]
    /\ progress' = [t \in TrainerIds |-> "reduced"]
    /\ UNCHANGED <<setupVars, batch, trainSamples, outcome, parts, mixed, nextMicro, accumulates>>

\* A trainer whose part is one micro batch has no buffer while another has: their
\* collective calls do not match, and what comes of them, if they return, is undefined.
ReduceMismatched ==
    /\ outcome = "dealt" /\ \A t \in TrainerIds : progress[t] = "reducing"
    /\ \E t, u \in TrainerIds : Reductions(t) # Reductions(u)
    /\ outcome' = "mismatched"
    /\ UNCHANGED <<setupVars, batch, trainSamples, parts, mixed, nextMicro, gradient, buffer,
                   accumulates, progress>>

TrainBatchNext ==
    \/ Deal \/ ReduceGradients \/ ReduceMismatched
    \/ \E t \in TrainerIds : MicroBatch(t) \/ MicroBatchesDone(t) \/ TrainerFails(t)

TrainBatchSpec == TrainBatchInit /\ [][TrainBatchNext]_trainBatchVars

-----------------------------------------------------------------------------
(* Properties. *)

\* The variables keep their types, and the gradients are of samples of the batch;
\* a trainer never has more micro batches than chunks.
TrainBatchTypeOK ==
    /\ outcome \in {"none", "dealt", "panicked", "crashed", "mismatched"}
    /\ \A t \in TrainerIds :
         /\ gradient[t] \cup buffer[t] \subseteq ToSet(trainSamples)
         /\ progress[t] \in {"training", "reducing", "reduced"}
         /\ outcome = "dealt" => Len(InputChunks(parts[t])) = AccumSteps(parts[t])

\* The trainers get all the samples of a batch, each once, in parts that differ by at
\* most a sample, unless more are left over than a chunk has; padding makes equal
\* parts for the ranks of a Python trainer with less than a sample for each rank.
DealtOnce ==
    /\ outcome = "dealt" /\ Len(trainSamples) % trainers <= Len(trainSamples) \div trainers =>
         /\ \A i \in DOMAIN trainSamples :
              Cardinality({place \in TrainerIds \X (1 .. MaxSamples) :
                             /\ place[2] \in DOMAIN parts[place[1]]
                             /\ parts[place[1]][place[2]] = trainSamples[i]}) = 1
         /\ \A t, u \in TrainerIds : Len(parts[t]) <= Len(parts[u]) + 1
    /\ \A world \in 1 .. MaxTrainers :
         /\ Len(Pad(trainSamples, world)) % world = 0
         /\ Len(Pad(trainSamples, world)) - Len(trainSamples) < world

\* A micro batch has the sequence lengths of its own samples, when the parts can be
\* cut into micro batches of the same size.
LengthsOfSamples ==
    outcome = "dealt" /\ (\A t \in TrainerIds : Len(parts[t]) % micro_batch_size = 0) => ~mixed

\* While a trainer accumulates, every sample trained on so far is in its gradients,
\* in one place of the two.
NoSampleTwice ==
    \A t \in TrainerIds : outcome = "dealt" /\ progress[t] = "training" =>
      /\ gradient[t] \cap buffer[t] = {}
      /\ gradient[t] \cup buffer[t] =
           UNION {ToSet(InputChunks(parts[t])[k]) : k \in 1 .. nextMicro[t] - 1}

\* Once reduced, a trainer without a buffer has the gradient of all the samples dealt;
\* one with a buffer, of its own samples only: apply_accumulation has copied the buffer
\* before the mean over the trainers is taken in it.
ReducedGradients ==
    (\A t \in TrainerIds : progress[t] = "reduced") /\ outcome = "dealt" =>
      \A t \in TrainerIds :
        gradient[t] = IF accumulates[t] THEN ToSet(parts[t])
                      ELSE UNION {ToSet(parts[u]) : u \in TrainerIds}

\* A batch is split over trainers and micro batches so that each sample dealt is once in
\* the gradient of its trainer and, but for buffers of 32-bit floats, of every other one.
TrainBatchInv ==
    /\ TrainBatchTypeOK
    /\ DealtOnce
    /\ LengthsOfSamples
    /\ NoSampleTwice
    /\ ReducedGradients

\* "the distro results are identical across all ranks, so we just send the first one we
\* get" (train.rs): after the reduction all trainers have the same gradient.
IdenticalAcrossRanks ==
    (\A t \in TrainerIds : progress[t] = "reduced") /\ outcome = "dealt" =>
      \A t, u \in TrainerIds : gradient[t] = gradient[u]

-----------------------------------------------------------------------------
(***************************************************************************)
(* The learning rate of a step: the schedules of core/src/definitions.rs   *)
(* and the warmup after a cold start (Trainer::get_lr of modeling/src/     *)
(* trainer.rs, within the bounds of the coordinator).  Every client        *)
(* computes the rate of the same step for itself, and of the step before.  *)
(*                                                                         *)
(* Abstractions.  A rate is an integer, a multiple of Unit, so that the    *)
(* interpolations over the warmup and over one to three steps are exact;   *)
(* over so many steps the cosine takes rational values only.               *)
(***************************************************************************)

CONSTANTS
    MaxLr,       \* bound: rates, in units
    MaxWarmup,   \* bound: warmup_steps
    MaxSchedule, \* bound: steps of a run
    Spans        \* lengths of the decays, at most three steps each

ASSUME LearningRateAssumption ==
    /\ {MaxLr, MaxWarmup, MaxSchedule} \subseteq Nat \ {0}
    /\ MaxWarmup <= MaxSchedule
    /\ Spans \subseteq 1 .. 3

Unit == 12 * MaxWarmup
Rates == {Unit * n : n \in 0 .. MaxLr}

VARIABLES
    schedule, \* the LearningRateSchedule
    cold,     \* get_cold_start_warmup_bounds: the first step and the number of steps, 0 for none
    atStep,   \* the step to train
    rate      \* its learning rate

lrVars == <<schedule, cold, atStep, rate>>

\* a + (b - a) * (num / den)
Between(a, b, num, den) == a + ((b - a) * num) \div den

\* 0.5 * (1 + cos(pi * num / den)), times four, for a den of one, two or three.
CosineQuarters(num, den) ==
    CASE den = 1 -> IF num % 2 = 0 THEN 4 ELSE 0
      [] den = 2 -> <<4, 2, 0, 2>>[(num % 4) + 1]
      [] den = 3 -> <<4, 3, 1, 0, 1, 3>>[(num % 6) + 1]

\* From first to last along half a wave.
CosineBetween(first, last, num, den) ==
    last + ((first - last) * CosineQuarters(num, den)) \div 4

Warm(g, s) == Between(g.warmup_init_lr, g.base_lr, s, g.warmup_steps)

ConstantLR(g, s) == IF s < g.warmup_steps THEN Warm(g, s) ELSE g.base_lr

LinearLR(g, s) ==
    CASE s < g.warmup_steps -> Warm(g, s)
      [] s >= g.warmup_steps /\ s < g.warmup_steps + g.span ->
           Between(g.base_lr, g.final_lr, s - g.warmup_steps, g.span)
      [] OTHER -> g.final_lr

\* There is no last case: past total_steps the rate follows the wave.
CosineLR(g, s) ==
    IF s < g.warmup_steps THEN Warm(g, s)
    ELSE CosineBetween(g.base_lr, g.final_lr, s - g.warmup_steps, g.span)

\* The two assertions are the choice of the rates in LearningRateInit.
WarmupStableDecayLR(g, s) ==
    LET stable == g.warmup_steps + g.stable_steps
        decayed == stable + g.span
    IN  CASE s < g.warmup_steps -> Warm(g, s)
          [] s >= g.warmup_steps /\ s < stable -> g.base_lr
          [] s >= stable /\ s < decayed -> CosineBetween(g.base_lr, g.middle_lr, s - stable, g.span)
          [] s >= decayed /\ s < decayed + g.span -> Between(g.middle_lr, g.final_lr, s - decayed, g.span)
          [] OTHER -> g.final_lr

ScheduledLR(g, s) ==
    CASE g.kind = "Constant" -> ConstantLR(g, s)
      [] g.kind = "Linear" -> LinearLR(g, s)
      [] g.kind = "Cosine" -> CosineLR(g, s)
      [] g.kind = "WarmupStableDecay" -> WarmupStableDecayLR(g, s)

\* Mutant of Factor: the steps are counted from one.
FactorFromOne(s) ==
    IF cold.steps # 0 /\ s \in cold.start .. cold.start + cold.steps THEN s - cold.start + 1
    ELSE cold.steps

\* The factor of the cold start, times cold.steps.
Factor(s) ==
    IF cold.steps # 0 /\ s \in cold.start .. cold.start + cold.steps THEN s - cold.start
    ELSE cold.steps

\* Trainer::get_lr.
GetLR(s) ==
    IF cold.steps = 0 THEN ScheduledLR(schedule, s)
    ELSE (ScheduledLR(schedule, s) * Factor(s)) \div cold.steps

\* total_steps of the schedule.
TotalSteps(g) ==
    CASE g.kind = "Constant" -> MaxSchedule
      [] g.kind \in {"Linear", "Cosine"} -> g.warmup_steps + g.span
      [] OTHER -> g.warmup_steps + g.stable_steps + 2 * g.span

LearningRateInit ==
    /\ schedule \in {g \in [kind : {"Constant", "Linear", "Cosine", "WarmupStableDecay"},
                            warmup_init_lr : Rates, base_lr : Rates, middle_lr : Rates,
                            final_lr : Rates, warmup_steps : {0, MaxWarmup},
                            stable_steps : {0, 2}, span : Spans] :
                       /\ g.warmup_init_lr <= g.base_lr
                       /\ g.final_lr <= g.middle_lr /\ g.middle_lr <= g.base_lr
                       /\ g.kind # "WarmupStableDecay" => g.stable_steps = 0 /\ g.middle_lr = g.final_lr
                       /\ g.kind = "Constant" => g.final_lr = g.base_lr}
    /\ cold \in [start : {1, 3}, steps : {0, 2}]
    /\ atStep = 1
    /\ rate = GetLR(1)

\* The next step of the run.
LearningRateNext ==
    /\ atStep < MaxSchedule
    /\ atStep' = atStep + 1
    /\ rate' = GetLR(atStep')
    /\ UNCHANGED <<schedule, cold>>

LearningRateSpec == LearningRateInit /\ [][LearningRateNext]_lrVars

ColdStart == cold.steps # 0 /\ atStep \in cold.start .. cold.start + cold.steps

\* The variables keep their types, and outside of a cold start no rate is above the
\* base rate or below both ends of its schedule.
LearningRateTypeOK ==
    /\ atStep \in 1 .. MaxSchedule
    /\ rate <= schedule.base_lr
    /\ ~ColdStart => rate >= Min({schedule.warmup_init_lr, schedule.final_lr})

\* The warmup joins what follows it, and a decay what came before it: no step of a
\* schedule is further from the step before than one interpolation step allows.
NoJumps ==
    \A s \in 1 .. MaxSchedule - 1 :
      LET a == ScheduledLR(schedule, s)
          b == ScheduledLR(schedule, s + 1)
          share == IF schedule.span = 1 THEN 1 ELSE 2
          jump == IF a < b THEN b - a ELSE a - b
      IN  IF s < schedule.warmup_steps
          THEN jump * schedule.warmup_steps <= schedule.base_lr - schedule.warmup_init_lr
          ELSE share * jump <= schedule.base_lr - schedule.final_lr

\* After the warmup the rate never rises again before the schedule is over, and the
\* schedule ends at its final rate.
DecaysToFinal ==
    /\ \A s \in schedule.warmup_steps .. TotalSteps(schedule) - 1 :
         ScheduledLR(schedule, s + 1) <= ScheduledLR(schedule, s)
    /\ ScheduledLR(schedule, TotalSteps(schedule)) = schedule.final_lr

\* A cold start begins at nothing and its last step has the rate of the schedule
\* again; the steps after it are not held back.
ColdStartEnds ==
    /\ cold.steps # 0 /\ atStep = cold.start => rate = 0
    /\ atStep >= cold.start + cold.steps => rate = ScheduledLR(schedule, atStep)

\* Every schedule is continuous, decays to its final rate, and is taken up again after
\* a cold start.
LearningRateInv ==
    /\ LearningRateTypeOK
    /\ NoJumps
    /\ DecaysToFinal
    /\ ColdStartEnds
=============================================================================
