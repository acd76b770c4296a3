------------------------- MODULE PythonDistributed --------------------------
(***************************************************************************)
(* A model that Python shards over several processes: the client is rank 0 *)
(* (shared/modeling/src/python_distributed_causal_lm.rs and                *)
(* python_distributed_trainer.rs); every other rank is a sidecar           *)
(* (python/python/psyche/sidecar), a child of the client or, on another    *)
(* host, of psyche-sidecar (tools/rust-tools/psyche-sidecar).  Rank 0      *)
(* writes each operation under its number in a store, meets the sidecars   *)
(* in a collective operation, broadcasts the operands and deletes the key. *)
(*                                                                         *)
(* A rank is the program that it has still to run, a sequence of           *)
(* instructions.  Abstractions.                                            *)
(*  - torch.distributed is known by what the code expects of it: the n-th  *)
(*    collective operation of a rank meets the n-th of every other one; a  *)
(*    rank leaves a barrier or a reduction once all have entered it, and   *)
(*    the root leaves a broadcast at once.  Operations that do not match   *)
(*    leave all of them waiting, until the timeout.                        *)
(*  - A pass over the sharded model, an extraction and the loading of the  *)
(*    model are one collective operation each.                             *)
(***************************************************************************)
EXTENDS Integers, Sequences, SequencesExt, FiniteSets

CONSTANTS
    WorldSize,     \* parallelism.dp * parallelism.tp
    NumLocalRanks, \* ranks of the client's host, rank 0 among them
    StartRank, NumRemoteRanks, \* arguments of psyche-sidecar on the other host
    Tensors,       \* names of the tensors of the model, in order
    Params,        \* parameters in a result of DisTrO
    GradAccumSteps,\* micro batches of a training
    MaxIterations  \* bound: operations of rank 0

Main == 0
LocalRanks == 1 .. NumLocalRanks - 1

RemoteRanks ==
    LET computed_last_rank == StartRank + NumRemoteRanks - 1
    IN  StartRank .. IF computed_last_rank < WorldSize THEN computed_last_rank
                                                       ELSE WorldSize - 1

Sidecars == LocalRanks \cup RemoteRanks
Ranks == {Main} \cup Sidecars

\* The operator starts every rank once: the two hosts share the ranks.
ASSUME RanksAssumption ==
    /\ WorldSize \in Nat /\ NumLocalRanks \in 1 .. WorldSize
    /\ StartRank = NumLocalRanks /\ NumRemoteRanks \in Nat
    /\ Params \in Nat /\ GradAccumSteps \in Nat \ {0} /\ MaxIterations \in Nat

VARIABLES
    state,     \* rank -> "running", "ended" or "failed"
    program,   \* rank -> the instructions that it has still to run
    store,     \* the keys of the store, with their values
    iteration, \* rank -> the number of its next operation
    ahead,     \* rank -> the collective operations that it has begun and not all
    mixed,     \* two ranks met in different collective operations
    trainer,   \* the ranks that have a trainer
    aborted    \* rank 0 has left a training early

sidecarVars == <<state, program, store, iteration, ahead, mixed, trainer, aborted>>

-----------------------------------------------------------------------------
(* Instructions. *)

Set(k, v)  == [do |-> "set", key |-> k, value |-> v]
Get(k)     == [do |-> "get", key |-> k]
Delete(k)  == [do |-> "delete", key |-> k]
Enter(c)   == [do |-> "begin", collective |-> c]
Await      == [do |-> "await"]
AwaitRoot  == [do |-> "awaitRoot"]
Poll       == [do |-> "check"]
Do(what)   == [do |-> what]

Key(name) == <<name, 0>>
IterationKey(i) == <<"iteration", i>>

\* Rank 0 meets the sidecars in a barrier or in the reduction of a scalar, which
\* torch.distributed does not tell apart.
Barrier == <<Enter(Key("scalar")), Await>>

Ready == Barrier
Collective(c) == <<Enter(Key(c)), Await>>
Broadcast(t) == <<Enter(t)>>
ReceiveBroadcast(t) == <<Enter(t), AwaitRoot>>

Concat(f(_), s) == FlattenSeq([i \in DOMAIN s |-> f(s[i])])
Numbers(n) == [i \in 1 .. n |-> i]

-----------------------------------------------------------------------------
(* Loading of the model. *)

ShareTensor(t) == <<Set(Key(t), [op |-> "shape"])>> \o Broadcast(Key(t)) \o Barrier

\* PythonDistributedCausalLM::new.
LoadModel(source) ==
    <<Set(Key("architecture"), [op |-> "architecture"]),
      Set(Key("source"), [op |-> source])>>
    \o (IF source = "files" THEN <<Set(Key("files"), [op |-> "files"])>>
        ELSE <<Set(Key("tensor_names"), [op |-> "names"])>> \o Barrier
             \o Concat(ShareTensor, Tensors))
    \o <<Set(Key("dp"), [op |-> "dp"])>> \o Collective("load")

ReceiveTensor(t) == <<Get(Key(t))>> \o ReceiveBroadcast(Key(t)) \o Barrier

SidecarBoot == <<Get(Key("architecture")), Get(Key("source"))>>

\* What a sidecar does once it has read the source, up to its first operation.
SidecarLoads(source) ==
    (IF source = "files" THEN <<Get(Key("files"))>>
     ELSE Barrier \o <<Get(Key("tensor_names"))>> \o Concat(ReceiveTensor, Tensors))
    \o <<Get(Key("dp"))>> \o Collective("load") \o <<Get(IterationKey(0))>>

-----------------------------------------------------------------------------
(* Operations. *)

Trainings == [op : {"train"}, results : 0 .. 1, labels : BOOLEAN, position_ids : BOOLEAN]
Optimizes == [op : {"optimize"}, results : 0 .. 1]
Forwards == [op : {"forward"}, labels : BOOLEAN, position_ids : BOOLEAN]
Plain(op) == [op |-> op]

\* The operations of the trainer, and those of the model alone.
Requests(hasTrainer) ==
    Forwards \cup {Plain("exit")}
    \cup IF hasTrainer THEN Trainings \cup Optimizes \cup {Plain("extract")}
                       ELSE [op : {"hyperparameters"}, grad_accum_in_fp32 : BOOLEAN]

DistroResults(o) ==
    IF o.results = 0 THEN <<>>
    ELSE Concat(LAMBDA p : <<<<"sparse_idx", p>>, <<"sparse_val", p>>>>, Numbers(Params))

BatchTensors(o) ==
    <<Key("input_ids")>>
    \o (IF o.labels THEN <<Key("labels")>> ELSE <<>>)
    \o (IF o.position_ids THEN <<Key("position_ids")>> ELSE <<>>)

\* What rank 0 broadcasts for the operation, in order.
Operands(o) ==
    CASE o.op = "train"    -> DistroResults(o) \o BatchTensors(o)
      [] o.op = "optimize" -> DistroResults(o)
      [] o.op = "forward"  -> BatchTensors(o)
      [] OTHER             -> <<>>

\* Mutant of Received: the batch comes before the results.
ReceivedBatchFirst(o) ==
    CASE o.op = "train"    -> BatchTensors(o) \o DistroResults(o)
      [] o.op = "optimize" -> DistroResults(o)
      [] o.op = "forward"  -> BatchTensors(o)
      [] OTHER             -> <<>>

\* What a sidecar receives: receive_distro_results, then receive_batch.
Received(o) ==
    CASE o.op = "train"    -> DistroResults(o) \o BatchTensors(o)
      [] o.op = "optimize" -> DistroResults(o)
      [] o.op = "forward"  -> BatchTensors(o)
      [] OTHER             -> <<>>

Pass == Collective("pass")
CheckedPass == <<Poll>> \o Pass

\* How rank 0 begins each operation, under the number of its iteration.
Announce(o, i) == <<Set(IterationKey(i), o)>> \o Ready \o Concat(Broadcast, Operands(o))

NewTrainer(o, i) == Announce(o, i) \o <<Do("trainer"), Delete(IterationKey(i))>>

Train(o, i) ==
    Announce(o, i) \o Concat(LAMBDA p : CheckedPass, Numbers(GradAccumSteps))
    \o Collective("loss") \o <<Delete(IterationKey(i))>>

Optimize(o, i) == Announce(o, i) \o <<Delete(IterationKey(i))>>
ExtractModel(o, i) == Announce(o, i) \o Collective("extract") \o <<Delete(IterationKey(i))>>
Forward(o, i) == Announce(o, i) \o Pass \o <<Delete(IterationKey(i))>>
Shutdown(o, i) == Announce(o, i) \o <<Do("exit")>>

MainProgram(o, i) ==
    CASE o.op = "hyperparameters" -> NewTrainer(o, i)
      [] o.op = "train" -> Train(o, i)
      [] o.op = "optimize" -> Optimize(o, i)
      [] o.op = "extract" -> ExtractModel(o, i)
      [] o.op = "forward" -> Forward(o, i)
      [] o.op = "exit" -> Shutdown(o, i)

\* The branches of the loop of the sidecar: its own operands, then the next key.
\* A sidecar without a trainer raises, and so does one that is to add gradients in
\* 32 bits.
SidecarProgram(o, i, hasTrainer) ==
    Barrier
    \o (IF o.op \in {"train", "optimize", "extract"} /\ ~hasTrainer
        THEN <<Do("raise")>> ELSE Concat(ReceiveBroadcast, Received(o)))
    \o (CASE o.op = "train" -> Concat(LAMBDA p : Pass, Numbers(GradAccumSteps))
                               \o Collective("loss")
          [] o.op = "optimize" -> <<>>
          [] o.op = "forward"  -> Pass
          [] o.op = "extract"  -> Collective("extract")
          [] o.op = "hyperparameters" -> IF o.grad_accum_in_fp32
                                         THEN <<Do("unsupported")>> ELSE <<Do("trainer")>>
          [] o.op = "exit" -> <<Do("exit")>>)
    \o <<Do("next"), Get(IterationKey(i + 1))>>

-----------------------------------------------------------------------------

SidecarInit ==
    /\ state = [r \in Ranks |-> "running"]
    /\ \E source \in {"files", "config_and_tensors"} :
         program = [r \in Ranks |-> IF r = Main THEN LoadModel(source) ELSE SidecarBoot]
    /\ store = << >>
    /\ iteration = [r \in Ranks |-> 0]
    /\ ahead = [r \in Ranks |-> <<>>]
    /\ mixed = FALSE
    /\ trainer = {}
    /\ aborted = FALSE

\* Rank r is at an instruction of this kind.
At(r, do) == state[r] = "running" /\ program[r] # <<>> /\ Head(program[r]).do = do

Advance(r) == program' = [program EXCEPT ![r] = Tail(@)]

\* Rank 0 starts an operation and takes its number.
Request ==
    /\ state[Main] = "running" /\ program[Main] = <<>>
    /\ iteration[Main] < MaxIterations
    /\ \E o \in Requests(Main \in trainer) :
         program' = [program EXCEPT ![Main] = MainProgram(o, iteration[Main])]
    /\ iteration' = [iteration EXCEPT ![Main] = @ + 1]
    /\ UNCHANGED <<state, store, ahead, mixed, trainer, aborted>>

Sets(r) ==
    /\ At(r, "set")
    /\ LET i == Head(program[r])
       IN  store' = [k \in DOMAIN store \cup {i.key} |->
                       IF k = i.key THEN i.value ELSE store[k]]
    /\ Advance(r)
    /\ UNCHANGED <<state, iteration, ahead, mixed, trainer, aborted>>

Deletes(r) ==
    /\ At(r, "delete")
    /\ store' = [k \in DOMAIN store \ {Head(program[r]).key} |-> store[k]]
    /\ Advance(r)
    /\ UNCHANGED <<state, iteration, ahead, mixed, trainer, aborted>>

\* store.get waits for the key; what a sidecar does next may be in its value.
Gets(r) ==
    /\ At(r, "get") /\ Head(program[r]).key \in DOMAIN store
    /\ LET key == Head(program[r]).key
           value == store[key]
       IN  program' = [program EXCEPT ![r] =
             CASE key = Key("source")   -> SidecarLoads(value.op)
               [] key[1] = "iteration" -> SidecarProgram(value, key[2], r \in trainer)
               [] OTHER                -> Tail(@)]
    /\ UNCHANGED <<state, store, iteration, ahead, mixed, trainer, aborted>>

\* The rank begins a collective operation; the ones that all have begun are
\* forgotten, once it is known whether they were the same.
Begins(r) ==
    /\ At(r, "begin")
    /\ LET begun == [ahead EXCEPT ![r] = Append(@, Head(program[r]).collective)]
           met == \A q \in Ranks : begun[q] # <<>>
       IN  /\ ahead' = IF met THEN [q \in Ranks |-> Tail(begun[q])] ELSE begun
           /\ mixed' = (mixed \/ (met /\ \E q \in Ranks : Head(begun[q]) # Head(begun[r])))
    /\ Advance(r)
    /\ UNCHANGED <<state, store, iteration, trainer, aborted>>

MayLeave(r) ==
    /\ ~mixed
    /\ At(r, "await")     => ahead[r] = <<>>
    /\ At(r, "awaitRoot") => Len(ahead[Main]) >= Len(ahead[r])

LeavesCollective(r) ==
    /\ At(r, "await") \/ At(r, "awaitRoot")
    /\ MayLeave(r)
    /\ Advance(r)
    /\ UNCHANGED <<state, store, iteration, ahead, mixed, trainer, aborted>>

MakesTrainer(r) ==
    /\ At(r, "trainer")
    /\ trainer' = trainer \cup {r}
    /\ Advance(r)
    /\ UNCHANGED <<state, store, iteration, ahead, mixed, aborted>>

NextOperation(r) ==
    /\ At(r, "next")
    /\ iteration' = [iteration EXCEPT ![r] = @ + 1]
    /\ Advance(r)
    /\ UNCHANGED <<state, store, ahead, mixed, trainer, aborted>>

ContinuesTraining ==
    /\ At(Main, "check")
    /\ Advance(Main)
    /\ UNCHANGED <<state, store, iteration, ahead, mixed, trainer, aborted>>

\* cancel_training is seen by rank 0 alone: its thread leaves the loop over the
\* micro batches, and rank 0 goes on to reduce the loss.
AbortsTraining ==
    /\ At(Main, "check")
    /\ program' = [program EXCEPT ![Main] = Collective("loss") \o <<Last(@)>>]
    /\ aborted' = TRUE
    /\ UNCHANGED <<state, store, iteration, ahead, mixed, trainer>>

Stop(r, how) ==
    /\ state' = [state EXCEPT ![r] = how]
    /\ program' = [program EXCEPT ![r] = <<>>]
    /\ UNCHANGED <<store, iteration, ahead, mixed, trainer, aborted>>

Exits(r) == At(r, "exit") /\ Stop(r, "ended")
Raises(r) == (At(r, "raise") \/ At(r, "unsupported")) /\ Stop(r, "failed")

\* A failure of rank 0 ends the client.
MainDies == state[Main] = "running" /\ Stop(Main, "failed")

Waits(r) == \/ (At(r, "await") \/ At(r, "awaitRoot")) /\ ~MayLeave(r)
            \/ At(r, "get") /\ Head(program[r]).key \notin DOMAIN store

\* For two hours nothing moves.
NothingMoves ==
    \A r \in Ranks : state[r] = "running" => Waits(r) \/ program[r] = <<>>

\* Mutant of TimesOut: the process group has no timeout but at rank 0.
TimesOutMain(r) ==
    /\ At(r, "await") /\ ~MayLeave(r) /\ r = Main
    /\ NothingMoves
    /\ Stop(r, "failed")

TimesOut(r) ==
    /\ At(r, "await") \/ At(r, "awaitRoot")
    /\ Waits(r) /\ NothingMoves
    /\ Stop(r, "failed")

\* Any exception of store.get ends the sidecar quietly: the timeout, also while
\* rank 0 has nothing to ask for, and the end of the process of the store.
GetFails(r) ==
    /\ At(r, "get") /\ Waits(r)
    /\ NothingMoves \/ state[Main] # "running"
    /\ Stop(r, "ended")

\* start_process_watcher: the sidecars of the client's host end with it.
Watched(r) ==
    /\ r \in LocalRanks /\ state[r] = "running" /\ state[Main] # "running"
    /\ Stop(r, "failed")

Instruction(r) ==
    \/ Sets(r) \/ Deletes(r) \/ Gets(r) \/ Begins(r) \/ LeavesCollective(r) \/ MakesTrainer(r)
    \/ NextOperation(r) \/ Exits(r) \/ Raises(r)

RankNext(r) == Instruction(r) \/ TimesOut(r) \/ GetFails(r) \/ Watched(r)

SidecarNext ==
    \/ Request
    \/ ContinuesTraining
    \/ AbortsTraining
    \/ MainDies
    \/ \E r \in Ranks : RankNext(r)

\* Every process is scheduled, every timeout runs out, and every training goes on
\* unless it is cancelled.
SidecarFairness ==
    /\ WF_sidecarVars(ContinuesTraining)
    /\ \A r \in Ranks : WF_sidecarVars(RankNext(r))

SidecarSpec == SidecarInit /\ [][SidecarNext]_sidecarVars /\ SidecarFairness

-----------------------------------------------------------------------------
(* Properties. *)

\* The variables keep their types; every rank but 0 is started, once; and no rank
\* is more than two operations behind rank 0.
SidecarTypeOK ==
    /\ Ranks = 0 .. WorldSize - 1
    /\ state \in [Ranks -> {"running", "ended", "failed"}]
    /\ mixed \in BOOLEAN /\ aborted \in BOOLEAN
    /\ trainer \subseteq Ranks
    /\ \A r \in Sidecars : iteration[r] \in iteration[Main] - 2 .. iteration[Main]

\* The ranks meet in the same collective operations, in the same order, whatever
\* comes with an operation, unless rank 0 has left a training early.
SameCollectives == mixed => aborted

\* Rank 0 deletes the key of an operation once every sidecar has read it: no
\* sidecar waits for a key that is gone.
KeysAreRead ==
    \A r \in Sidecars :
      At(r, "get") /\ Head(program[r]).key[1] = "iteration" =>
        \/ Head(program[r]).key \in DOMAIN store
        \/ Head(program[r]).key[2] >= iteration[Main]
        \/ /\ Head(program[r]).key[2] = iteration[Main] - 1
           /\ \/ At(Main, "set")
              \/ state[Main] # "running"

\* No sidecar is asked to train, to optimise or to extract before it has made its
\* trainer.
NoSidecarRaises == \A r \in Sidecars : ~At(r, "raise")

\* Once rank 0 has ended, by a shutdown or by a failure, every sidecar ends, on
\* every host: none is left on its device.
SidecarsEnd ==
    state[Main] # "running" ~> \A r \in Sidecars : state[r] # "running"

\* An operation of rank 0 returns, or fails by the timeout.
RequestReturns == program[Main] # <<>> ~> program[Main] = <<>>

\* The ranks of a Python model do the same collective operations in the same order, and
\* no sidecar waits for a key that is gone or is asked for what it cannot do.
SidecarsInv ==
    /\ SidecarTypeOK
    /\ SameCollectives
    /\ KeysAreRead
    /\ NoSidecarRaises

\* Neither rank 0 nor a sidecar waits for ever, whichever rank is lost.
NoRankHangs ==
    /\ SidecarsEnd
    /\ RequestReturns
=============================================================================
