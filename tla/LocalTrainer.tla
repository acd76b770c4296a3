---------------------------- MODULE LocalTrainer ----------------------------
(***************************************************************************)
(* The threads of a LocalTrainer (shared/modeling/src/trainer.rs): one per *)
(* rank of a model that is split over several devices.  The owner calls    *)
(* train, optimize, extract and forward one after the other; each resets   *)
(* the barrier, sends an assignment to every thread and waits for every    *)
(* result.                                                                 *)
(*                                                                         *)
(* The barrier is that of shared/core/src/cancellable_barrier.rs.  A       *)
(* section that holds the mutex is one step; wait() releases it only in    *)
(* condvar.wait.  A thread in wait() is asleep until a notify_all, or for  *)
(* no reason at all, wakes it; it then competes for the mutex (awake) and  *)
(* looks at its loop condition again.                                      *)
(*                                                                         *)
(* Abstractions.                                                           *)
(*  - The passes over the model and the extraction of its variables are    *)
(*    collective operations of the ranks: a thread finishes its n-th one   *)
(*    once every thread has begun its n-th.  Of the model nothing else is  *)
(*    kept.                                                                *)
(*  - The data parallel group, whose barrier is never cancelled, is left   *)
(*    out, and so are the errors of the model.                             *)
(***************************************************************************)
EXTENDS Naturals

CONSTANTS
    NumThreads,    \* the total of the barrier
    MicroBatches,  \* grad_accum_steps
    BootsInTime,   \* no operation comes before the threads have booted
    MaxOperations  \* bound: operations of the owner

ASSUME NumThreadsAssumption == NumThreads \in Nat \ {0}

ASSUME TrainerAssumption ==
    /\ MicroBatches \in Nat \ {0}
    /\ BootsInTime \in BOOLEAN
    /\ MaxOperations \in Nat

Threads == 1 .. NumThreads

-----------------------------------------------------------------------------
(* The barrier. *)

VARIABLES
    count,
    generation,
    cancelled,
    waiting, \* thread -> where it is in wait(), if it is
    ticket   \* thread -> the generation that it read when it entered

barrierVars == <<count, generation, cancelled, waiting, ticket>>

InitBarrier ==
    /\ count = 0
    /\ generation = 0
    /\ cancelled = FALSE
    /\ waiting = [t \in Threads |-> "out"]
    /\ ticket = [t \in Threads |-> 0]

NotifyAll == [u \in Threads |-> IF waiting[u] = "asleep" THEN "awake" ELSE waiting[u]]

LastArrival == count + 1 >= NumThreads

\* wait() by a thread that is not the last one to arrive.
Blocks(t) ==
    /\ waiting[t] = "out"
    /\ ~cancelled
    /\ ~LastArrival
    /\ count' = count + 1
    /\ ticket' = [ticket EXCEPT ![t] = generation]
    /\ waiting' = [waiting EXCEPT ![t] = "asleep"]
    /\ UNCHANGED <<generation, cancelled>>

\* wait() by the last thread.
Opens(t) ==
    /\ waiting[t] = "out"
    /\ ~cancelled
    /\ LastArrival
    /\ count' = 0
    /\ generation' = generation + 1
    /\ waiting' = NotifyAll
    /\ UNCHANGED <<cancelled, ticket>>

\* wait() on a barrier that was cancelled.
Refuses(t) == waiting[t] = "out" /\ cancelled /\ UNCHANGED barrierVars

MustWait(t) ==
    count < NumThreads /\ generation = ticket[t] /\ ~cancelled

SleepsAgain(t) ==
    /\ waiting[t] = "awake" /\ MustWait(t)
    /\ waiting' = [waiting EXCEPT ![t] = "asleep"]
    /\ UNCHANGED <<count, generation, cancelled, ticket>>

Leaves(t) ==
    /\ waiting[t] = "awake" /\ ~MustWait(t)
    /\ waiting' = [waiting EXCEPT ![t] = "out"]
    /\ UNCHANGED <<count, generation, cancelled, ticket>>

\* wait() returns to t: Ok if ok, Err(CancelledBarrier) otherwise.
WaitReturns(t, ok) ==
    \/ ok /\ Opens(t)
    \/ ~ok /\ Refuses(t)
    \/ ok = ~cancelled /\ Leaves(t)

WakesSpuriously(t) ==
    /\ waiting[t] = "asleep"
    /\ waiting' = [waiting EXCEPT ![t] = "awake"]
    /\ UNCHANGED <<count, generation, cancelled, ticket>>

Cancel ==
    /\ cancelled' = TRUE
    /\ waiting' = NotifyAll
    /\ UNCHANGED <<count, generation, ticket>>

\* Mutant of Reset: the barrier stays cancelled.
ResetKeepsCancelled ==
    /\ count' = 0
    /\ generation' = generation + 1
    /\ UNCHANGED <<cancelled, waiting, ticket>>

\* reset() wakes nobody.
Reset ==
    /\ cancelled' = FALSE
    /\ count' = 0
    /\ generation' = generation + 1
    /\ UNCHANGED <<waiting, ticket>>

-----------------------------------------------------------------------------
(* The trainer. *)

VARIABLES
    clips,     \* clip_grad_norm.is_some(), which never changes
    operation, \* what the owner waits for
    requests,  \* the operations asked for so far
    token,     \* cancel_training.is_cancelled()
    assigned,  \* thread -> an assignment is in its channel
    results,   \* thread -> the result in its channel
    can_do_inference,
    pc,        \* thread -> where it is in model_thread
    micro,     \* thread -> the micro batch it is at
    calls      \* thread -> the collective operations that it has begun

ownerVars == <<clips, operation, requests, token, can_do_inference>>
threadVars == <<assigned, results, pc, micro, calls>>
vars == <<barrierVars, ownerVars, threadVars>>

\* An optimisation that has nothing to apply does not wait.
Operations == {"Train", "Optimize", "OptimizeNothing", "Extract", "Forward"}

\* The places at which model_thread calls barrier.wait().
WaitPoints == {"boot", "enter", "clip", "clipped", "apply", "applied", "infer"}

Collectives == {"forwardBackward", "forward", "extract"}

NoResult == "none"

Init ==
    /\ InitBarrier
    /\ clips \in BOOLEAN
    /\ operation = "idle"
    /\ requests = 0
    /\ token = FALSE
    /\ can_do_inference = FALSE
    /\ assigned = [t \in Threads |-> FALSE]
    /\ results = [t \in Threads |-> NoResult]
    /\ pc = [t \in Threads |-> "boot"]
    /\ micro = [t \in Threads |-> 0]
    /\ calls = [t \in Threads |-> 0]

-----------------------------------------------------------------------------
(* The owner. *)

\* The caller asks for inference only if every thread can do it.
CanBegin(op) == op = "Forward" => can_do_inference

Begin ==
    \E op \in Operations, stop \in BOOLEAN :
      /\ operation = "idle" /\ requests < MaxOperations
      /\ BootsInTime => \A t \in Threads : pc[t] # "boot"
      /\ op # "Train" => ~stop
      /\ CanBegin(op)
      /\ Reset
      /\ operation' = op
      /\ requests' = requests + 1
      /\ token' = stop
      /\ assigned' = [t \in Threads |-> TRUE]
      /\ UNCHANGED <<clips, can_do_inference, results, pc, micro, calls>>

\* The round changes while its batch is being trained.
CancelTraining ==
    /\ operation = "Train" /\ ~token
    /\ token' = TRUE
    /\ UNCHANGED <<barrierVars, clips, operation, requests, can_do_inference, threadVars>>

\* The owner receives from every thread, whatever it has asked for.
AllReceived == \A t \in Threads : results[t] # NoResult

\* A training, cancelled or not, leaves the threads ready for inference.
Return ==
    /\ operation # "idle"
    /\ AllReceived
    /\ operation' = "idle"
    /\ can_do_inference' = (can_do_inference \/ operation = "Train")
    /\ results' = [t \in Threads |-> NoResult]
    /\ UNCHANGED <<barrierVars, clips, requests, token, assigned, pc, micro, calls>>

-----------------------------------------------------------------------------
(* A thread. *)

Receive(t) ==
    /\ pc[t] = "recv" /\ assigned[t]
    /\ assigned' = [assigned EXCEPT ![t] = FALSE]
    /\ pc' = [pc EXCEPT ![t] = CASE operation = "Train"    -> "check"
                                 [] operation = "Optimize" -> "apply"
                                 [] operation = "Forward"  -> "infer"
                                 [] operation = "Extract"  -> "extract"
                                 [] operation = "OptimizeNothing" -> "recv"]
    /\ results' = IF operation = "OptimizeNothing"
                  THEN [results EXCEPT ![t] = "done"] ELSE results
    /\ micro' = [micro EXCEPT ![t] = 1]
    /\ calls' = IF operation = "Extract" THEN [calls EXCEPT ![t] = @ + 1] ELSE calls
    /\ UNCHANGED <<barrierVars, ownerVars>>

\* Before each micro batch the thread looks at the token.
Check(t) ==
    /\ pc[t] = "check" /\ ~token
    /\ pc' = [pc EXCEPT ![t] = "enter"]
    /\ UNCHANGED <<barrierVars, ownerVars, assigned, results,
                   micro, calls>>

\* Mutant of Aborts: the other threads are not told.
AbortsAlone(t) == UNCHANGED barrierVars

Aborts(t) == Cancel

CheckCancelled(t) ==
    /\ pc[t] = "check" /\ token
    /\ Aborts(t)
    /\ results' = [results EXCEPT ![t] = "cancelled"]
    /\ pc' = [pc EXCEPT ![t] = "recv"]
    /\ UNCHANGED <<ownerVars, assigned, micro, calls>>

WaitBlocks(t) ==
    /\ pc[t] \in WaitPoints
    /\ Blocks(t) \/ SleepsAgain(t)
    /\ UNCHANGED <<ownerVars, threadVars>>

\* What follows a wait() that succeeds, where it is not a result.
AfterWait == [boot  |-> "recv",    enter |-> "forwardBackward",
              clip  |-> "clipped", apply |-> "applied",
              infer |-> "forward"]

WaitSucceeds(t) ==
    /\ pc[t] \in DOMAIN AfterWait
    /\ WaitReturns(t, TRUE)
    /\ pc' = [pc EXCEPT ![t] = AfterWait[pc[t]]]
    /\ calls' = IF AfterWait[pc[t]] \in Collectives
                THEN [calls EXCEPT ![t] = @ + 1] ELSE calls
    /\ UNCHANGED <<ownerVars, assigned, results, micro>>

\* The last wait() of a training or of an optimisation.
WaitCompletes(t) ==
    /\ pc[t] \in {"clipped", "applied"}
    /\ WaitReturns(t, TRUE)
    /\ pc' = [pc EXCEPT ![t] = "recv"]
    /\ results' = [results EXCEPT ![t] = "done"]
    /\ UNCHANGED <<ownerVars, assigned, micro, calls>>

Aborted == "cancelled"

\* A training that finds the barrier cancelled is cancelled; forward returns
\* nothing; the thread ends if it boots or optimises.
WaitFails(t) ==
    /\ pc[t] \in WaitPoints
    /\ WaitReturns(t, FALSE)
    /\ IF pc[t] \in {"boot", "apply", "applied"}
       THEN pc' = [pc EXCEPT ![t] = "ended"] /\ UNCHANGED results
       ELSE /\ pc' = [pc EXCEPT ![t] = "recv"]
            /\ results' = [results EXCEPT ![t] = Aborted]
    /\ UNCHANGED <<ownerVars, assigned, micro, calls>>

\* A collective operation ends for t once all have begun it.
CollectiveEnds(t) ==
    /\ pc[t] \in Collectives
    /\ \A u \in Threads : calls[u] >= calls[t]
    /\ UNCHANGED <<barrierVars, ownerVars, assigned, calls>>

\* The next micro batch, the clipping of the gradients or the result.
FinishForwardBackward(t) ==
    /\ pc[t] = "forwardBackward"
    /\ CollectiveEnds(t)
    /\ IF micro[t] < MicroBatches
       THEN /\ pc' = [pc EXCEPT ![t] = "check"]
            /\ micro' = [micro EXCEPT ![t] = @ + 1]
            /\ UNCHANGED results
       ELSE /\ pc' = [pc EXCEPT ![t] = IF clips THEN "clip" ELSE "recv"]
            /\ results' = IF clips THEN results
                          ELSE [results EXCEPT ![t] = "done"]
            /\ UNCHANGED micro

FinishForward(t) ==
    /\ pc[t] \in {"forward", "extract"}
    /\ CollectiveEnds(t)
    /\ pc' = [pc EXCEPT ![t] = "recv"]
    /\ results' = [results EXCEPT ![t] = "done"]
    /\ UNCHANGED micro

Spurious(t) ==
    /\ WakesSpuriously(t)
    /\ UNCHANGED <<ownerVars, threadVars>>

Step(t) ==
    \/ Receive(t)
    \/ Check(t)
    \/ CheckCancelled(t)
    \/ WaitBlocks(t)
    \/ WaitSucceeds(t)
    \/ WaitCompletes(t)
    \/ WaitFails(t)
    \/ FinishForwardBackward(t)
    \/ FinishForward(t)

Next ==
    \/ Begin
    \/ CancelTraining
    \/ Return
    \/ \E t \in Threads : Step(t)
    \/ \E t \in Threads : Spurious(t)

Spec == Init /\ [][Next]_vars

\* Every thread is scheduled, and so is the owner that waits for results.
FairSpec == Spec /\ WF_vars(Return) /\ \A t \in Threads : WF_vars(Step(t))

-----------------------------------------------------------------------------
(* Properties. *)

\* The variables keep their types; the count of the barrier stays below the
\* number of threads.
TypeOK ==
    /\ count \in 0 .. NumThreads - 1
    /\ generation \in Nat
    /\ cancelled \in BOOLEAN
    /\ waiting \in [Threads -> {"out", "asleep", "awake"}]
    /\ ticket \in [Threads -> Nat]
    /\ clips \in BOOLEAN /\ can_do_inference \in BOOLEAN /\ token \in BOOLEAN
    /\ operation \in Operations \cup {"idle"}
    /\ pc \in [Threads -> WaitPoints \cup Collectives \cup {"recv", "check", "ended"}]
    /\ results \in [Threads -> {NoResult, "done", "cancelled"}]

\* The threads agree on whether a training was cancelled: train() reports what
\* the last thread says, and takes the gradients from the first.
ResultsAgree ==
    (\A t \in Threads : results[t] # NoResult) =>
      \A t, u \in Threads : results[t] = results[u]

\* A result is "cancelled" only if the token of that very operation was: a
\* cancelled barrier does not leak into the next operation.
CancelledOnRequest ==
    \A t \in Threads : results[t] = "cancelled" => token

\* No rank is in a pass over the model while another one is in the pass before:
\* the waits of wait() hold against spurious wake-ups and cancellations.
RanksInStep ==
    \A t, u \in Threads :
      pc[t] \in Collectives /\ pc[u] \in Collectives => calls[t] = calls[u]

\* An operation of the owner returns.
OperationReturns == operation # "idle" ~> operation = "idle"

\* "Reset the barrier. Now it should work again": no thread is left behind in
\* wait(), since as many threads as the barrier was made for arrive there.
BarrierOpens == \A t \in Threads : waiting[t] # "out" ~> waiting[t] = "out"

\* The threads of a trainer stay in step at their barrier through cancellations and
\* spurious wake-ups, and report the same outcome, cancelled only on request.
TrainerInv ==
    /\ TypeOK
    /\ ResultsAgree
    /\ CancelledOnRequest
    /\ RanksInStep
=============================================================================
