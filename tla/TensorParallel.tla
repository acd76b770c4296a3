--------------------------- MODULE TensorParallel ---------------------------
(***************************************************************************)
(* A model cut over tensor-parallel ranks (shared/modeling/src/            *)
(* parallelism.rs, variable.rs, safetensor_utils.rs, attention.rs): every  *)
(* rank loads its shards of the variables, a layer that is cut by columns  *)
(* feeds one that is cut by rows, the gradients are clipped by a norm over *)
(* all ranks, and the variables are gathered, saved in parts and loaded    *)
(* again, by another number of ranks too.                                  *)
(*                                                                         *)
(* Abstractions.  The two layers have one input and one output, so that a  *)
(* shard is a run of the hidden features; weights are integers.  Gradients *)
(* are as large as the weights, as a norm needs some.  The bias of the     *)
(* second layer is a number that is not saved, 0 for a layer without.  A   *)
(* collective is one step of all ranks, which is what the communicator     *)
(* does (external).                                                        *)
(***************************************************************************)
EXTENDS Integers, Sequences, SequencesExt, FiniteSets, FiniteSetsExt, Functions

CONSTANTS
    HiddenFeatures, \* out_features of the first layer, in_features of the second
    MaxTpWorld,     \* bound: ranks
    MaxHeads,       \* bound: attention heads
    MaxPartSize     \* MAX_SAFETENSOR_PART_SIZE, in elements

ASSUME TensorParallelAssumption ==
    {HiddenFeatures, MaxTpWorld, MaxHeads, MaxPartSize} \subseteq Nat \ {0}

\* The variables in the order of their names, as StableVarStoreIterator has them,
\* and the ones that are cut.
VariableNames == <<"column", "norm", "row">>
Sharded == {"column", "row"}

VARIABLES
    world,   \* number of ranks
    bias,    \* the bias of the second layer, which every rank has
    maxNorm, \* max_norm of clip_grad_norm, squared
    gathers, \* gather_output of the first layer: then the input of the second is whole
    disk,    \* the parts of the checkpoint, each a function of names to tensors
    doing,   \* rank -> what it does next
    local,   \* rank -> its local tensors
    hidden,  \* rank -> the activations between the layers
    output,  \* rank -> the output of the second layer
    scale,   \* rank -> what its gradients are multiplied by, squared, as a fraction
    taken,   \* rank -> the variables it has extracted
    loads    \* number of the loads, the last ones of a saved checkpoint

setting == <<world, bias, maxNorm, gathers>>

tpVars == <<setting, disk, doing, local, hidden, output, scale, taken, loads>>

TpRanks == 0 .. world - 1
Original == [column |-> [i \in 1 .. HiddenFeatures |-> 2 * i - 1],
             norm |-> <<3>>,
             row |-> [i \in 1 .. HiddenFeatures |-> i * i + 1]]
NoTensors == [v \in {} |-> <<>>]

\* The parts of the checkpoint taken together.
OnDisk == FoldSeq(LAMBDA part, all : part @@ all, NoTensors, disk)

-----------------------------------------------------------------------------
(* Shards. *)

\* tensor_shard, and the slices of load_safetensors_into_variables.
TensorShard(s, rank, size) ==
    LET block == Len(s) \div size IN SubSeq(s, rank * block + 1, (rank + 1) * block)

\* unshard_tensor, of the shards of the ranks in their order.
UnshardTensor(shards) == FlattenSeq(shards)

\* gather_full_tensor: all_gather and unshard, or the local tensor.
GatherFullTensor(v, rank) ==
    IF v \in Sharded /\ world > 1
    THEN UnshardTensor([k \in 1 .. world |-> local[k - 1][v]]) ELSE local[rank][v]

-----------------------------------------------------------------------------
(* The ranks. *)

TensorParallelInit ==
    /\ world \in 1 .. MaxTpWorld
    /\ bias \in {0, 4}
    /\ maxNorm \in {2000, 10000}
    /\ gathers \in BOOLEAN
    /\ disk \in {<<Original>>, <<[v \in {"norm", "row"} |-> Original[v]]>>}
    /\ doing = [r \in TpRanks |-> "load"]
    /\ local = [r \in TpRanks |-> NoTensors]
    /\ hidden = [r \in TpRanks |-> <<>>]
    /\ output = [r \in TpRanks |-> 0]
    /\ scale = [r \in TpRanks |-> <<1, 1>>]
    /\ taken = [r \in TpRanks |-> NoTensors]
    /\ loads = 1

\* MissingVariables, or CantShard.
CannotLoad ==
    \/ DOMAIN OnDisk # ToSet(VariableNames)
    \/ \E v \in DOMAIN OnDisk \cap Sharded : Len(OnDisk[v]) % world # 0

Load(r) ==
    /\ doing[r] = "load"
    /\ IF CannotLoad THEN doing' = [doing EXCEPT ![r] = "failed"] /\ UNCHANGED local
       ELSE /\ local' = [local EXCEPT ![r] = [v \in DOMAIN OnDisk |->
                           IF v \in Sharded THEN TensorShard(OnDisk[v], r, world)
                           ELSE OnDisk[v]]]
            /\ doing' = [doing EXCEPT ![r] = "first"]
    /\ UNCHANGED <<setting, disk, hidden, output, scale, taken, loads>>

Input == 2
Dot(a, b) == SumFunction([i \in DOMAIN a |-> a[i] * b[i]])

\* ColumnParallelLinear::forward up to its collective.
ColumnForward(r) ==
    /\ doing[r] = "first"
    /\ hidden' = [hidden EXCEPT ![r] = [i \in DOMAIN local[r].column |-> local[r].column[i] * Input]]
    /\ doing' = [doing EXCEPT ![r] = IF gathers THEN "gather" ELSE "second"]
    /\ UNCHANGED <<setting, disk, local, output, scale, taken, loads>>

AllAt(op) == \A r \in TpRanks : doing[r] = op
AllTo(op) == doing' = [r \in TpRanks |-> op]

\* gather_from_model_parallel_region.
Gather ==
    /\ AllAt("gather") /\ AllTo("second")
    /\ hidden' = [r \in TpRanks |-> FlattenSeq([k \in 1 .. world |-> hidden[k - 1]])]
    /\ UNCHANGED <<setting, disk, local, output, scale, taken, loads>>

\* Mutant of InputParallel: an input that is whole is not scattered.
InputParallelWhole(r) == SubSeq(hidden[r], 1, HiddenFeatures \div world)

\* input_is_parallel, or scatter_to_model_parallel_region.
InputParallel(r) == IF gathers THEN TensorShard(hidden[r], r, world) ELSE hidden[r]

\* RowParallelLinear::forward up to its collective; the linear layer of every rank adds
\* the bias.
RowForward(r) ==
    /\ doing[r] = "second"
    /\ output' = [output EXCEPT ![r] = Dot(local[r].row, InputParallel(r)) + bias]
    /\ doing' = [doing EXCEPT ![r] = "reduce"]
    /\ UNCHANGED <<setting, disk, local, hidden, scale, taken, loads>>

\* reduce_from_model_parallel_region.
Reduce ==
    /\ AllAt("reduce") /\ AllTo("clip")
    /\ output' = [r \in TpRanks |-> SumFunction(output)]
    /\ UNCHANGED <<setting, disk, local, hidden, scale, taken, loads>>

NormSq(s) == SumFunction([i \in DOMAIN s |-> s[i] * s[i]])
ShardedNormSq(r) == SumFunction([v \in Sharded |-> NormSq(local[r][v])])

GlobalNormSq(r) == SumFunction([k \in TpRanks |-> ShardedNormSq(k)]) + NormSq(local[r].norm)

\* The gradients of a norm above max_norm are scaled down to it.
ScaleOf(normSq) == IF normSq > maxNorm THEN <<maxNorm, normSq>> ELSE <<1, 1>>

\* clip_grad_norm.
ClipGradNorm ==
    /\ AllAt("clip") /\ AllTo(VariableNames[1])
    /\ scale' = [r \in TpRanks |-> ScaleOf(GlobalNormSq(r))]
    /\ UNCHANGED <<setting, disk, local, hidden, output, taken, loads>>

AfterVariable(v) == LET i == CHOOSE j \in DOMAIN VariableNames : VariableNames[j] = v
                    IN  IF i = Len(VariableNames) THEN "extracted" ELSE VariableNames[i + 1]

\* Only rank 0 builds the map.
Kept(r, tensors) == IF r = 0 THEN tensors ELSE taken[r]

\* One turn of unsharded_cpu_variables, of all ranks for a variable that is cut, and
\* of one rank for itself for the others.
ExtractVariable(v) ==
    \/ /\ v \in Sharded /\ AllAt(v) /\ AllTo(AfterVariable(v))
       /\ taken' = [r \in TpRanks |-> Kept(r, (v :> GatherFullTensor(v, r)) @@ taken[r])]
       /\ UNCHANGED <<setting, disk, local, hidden, output, scale, loads>>
    \/ /\ v \notin Sharded
       /\ \E r \in TpRanks :
            /\ doing[r] = v
            /\ doing' = [doing EXCEPT ![r] = AfterVariable(v)]
            /\ taken' = [taken EXCEPT ![r] = Kept(r, (v :> GatherFullTensor(v, r)) @@ taken[r])]
       /\ UNCHANGED <<setting, disk, local, hidden, output, scale, loads>>

PartSize(part) == SumFunction([v \in DOMAIN part |-> Len(part[v])])

\* A tensor goes into the last part, or begins another one.
AddedTo(parts, v, t) ==
    IF parts # <<>> /\ Len(t) + PartSize(Last(parts)) <= MaxPartSize
    THEN Front(parts) \o <<(v :> t) @@ Last(parts)>> ELSE Append(parts, v :> t)

\* save_tensors_into_safetensors of the map of rank 0; TensorTooBig fails.  Any
\* number of ranks loads it next.
Save ==
    /\ AllAt("extracted") /\ loads = 1
    /\ IF \E v \in DOMAIN taken[0] : Len(taken[0][v]) > MaxPartSize
       THEN AllTo("failed") /\ UNCHANGED <<world, disk, local, hidden, output, scale, taken, loads>>
       ELSE /\ disk' = FoldLeft(LAMBDA parts, v : AddedTo(parts, v, taken[0][v]),
                                <<>>, VariableNames)
            /\ world' \in 1 .. MaxTpWorld
            /\ doing' = [r \in 0 .. world' - 1 |-> "load"]
            /\ local' = [r \in 0 .. world' - 1 |-> NoTensors]
            /\ hidden' = [r \in 0 .. world' - 1 |-> <<>>]
            /\ output' = [r \in 0 .. world' - 1 |-> 0]
            /\ scale' = [r \in 0 .. world' - 1 |-> <<1, 1>>]
            /\ taken' = [r \in 0 .. world' - 1 |-> NoTensors]
            /\ loads' = 2
    /\ UNCHANGED <<bias, maxNorm, gathers>>

TensorParallelNext ==
    \/ \E r \in TpRanks : Load(r) \/ ColumnForward(r) \/ RowForward(r)
    \/ Gather \/ Reduce \/ ClipGradNorm \/ Save
    \/ \E v \in ToSet(VariableNames) : ExtractVariable(v)

TensorParallelSpec == TensorParallelInit /\ [][TensorParallelNext]_tpVars

-----------------------------------------------------------------------------
(* Attention. *)

\* repeat_kv: the key and value head that local head h of a rank attends to.
KvHead(heads, kvheads, size, rank, h) ==
    LET localHeads == heads \div size
        localKv == kvheads \div size
    IN  rank * localKv + (h \div (localHeads \div localKv))

-----------------------------------------------------------------------------
(* Properties. *)

\* The variables keep their types, and the parts of a saved checkpoint fit.
TensorParallelTypeOK ==
    /\ DOMAIN doing = TpRanks
    /\ \A r \in TpRanks :
         doing[r] \in {"load", "failed", "first", "gather", "second", "reduce", "clip", "extracted"}
                      \cup ToSet(VariableNames)
    /\ loads = 2 => \A i \in DOMAIN disk : PartSize(disk[i]) <= MaxPartSize

\* Every rank gets the same output, however the layers are cut and whichever rank is
\* ahead: that of the whole model, with the bias of the second layer once for each rank,
\* as it is added before the sum over the ranks.  Without a bias, or on one rank, that
\* is the output of the whole model.
ForwardAsWhole ==
    \A r \in TpRanks : doing[r] \in {"clip", "extracted"} =>
      output[r] = Dot(Original.row, [i \in 1 .. HiddenFeatures |-> Original.column[i] * Input])
                  + world * bias

\* The gradients are scaled by the norm of the whole model, alike on all ranks.
ClipsAsWhole ==
    \A r \in TpRanks : doing[r] = "extracted" =>
      scale[r] = ScaleOf(NormSq(Original.column) + NormSq(Original.row) + NormSq(Original.norm))

\* Rank 0 extracts the whole model, also after it was saved in parts and loaded by
\* another number of ranks, and no other rank keeps anything.
ExtractedByFirst ==
    /\ doing[0] = "extracted" => taken[0] = Original
    /\ \A r \in TpRanks \ {0} : taken[r] = NoTensors

\* A query head attends to the same key head however the heads are cut.
HeadsAsWhole ==
    AllAt("first") =>
    \A heads, kvheads \in 1 .. MaxHeads :
      heads % kvheads = 0 /\ heads % world = 0 /\ kvheads % world = 0 =>
        \A r \in TpRanks : \A h \in 0 .. (heads \div world) - 1 :
          KvHead(heads, kvheads, world, r, h) =
            KvHead(heads, kvheads, 1, 0, r * (heads \div world) + h)

\* A model that is cut over ranks computes (but for the bias of a layer cut by rows, which
\* counts once for each rank), clips, saves and loads as the whole one.
CutAsWhole ==
    /\ TensorParallelTypeOK
    /\ ForwardAsWhole
    /\ ClipsAsWhole
    /\ ExtractedByFirst
    /\ HeadsAsWhole
=============================================================================
