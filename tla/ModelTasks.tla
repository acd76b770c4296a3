----------------------------- MODULE ModelTasks -----------------------------
(***************************************************************************)
(* ModelTaskRunner (shared/client/src/state/evals.rs), the evaluation      *)
(* harness it runs (shared/eval/src/harness.rs) and the prompt task        *)
(* (shared/client/src/state/prompt.rs).  Between rounds the trainers of a  *)
(* client evaluate the model, in parallel, until the state machine asks    *)
(* for them back.  The tasks are loaded in the background.                 *)
(*                                                                         *)
(* There is one evaluation task and the prompt task.  Documents are told   *)
(* apart by their position in the endless repetition of the document list, *)
(* scores and tokens are left out.                                         *)
(***************************************************************************)
EXTENDS Naturals, Sequences, FiniteSets

CONSTANTS
    EvalTrainers,  \* the trainers of this client
    NumDocs,       \* documents of the task
    EvalLimit,     \* documents that one run of a task evaluates
    LastDoc,       \* bound on the positions that are evaluated
    PromptBuffer,  \* capacity of tokens_to_send
    EvalPauses     \* bound on the number of times that the trainers are wanted back

ASSUME EvalAssumption ==
    /\ IsFiniteSet(EvalTrainers)
    /\ NumDocs \in Nat \ {0} /\ EvalLimit \in Nat \ {0}
    /\ LastDoc \in Nat /\ PromptBuffer \in Nat /\ EvalPauses \in Nat

VARIABLES
    loading,   \* LoadingState, and whether the loading task has its result
    permit,    \* loaded_notify holds a permit
    evals,     \* what the state machine holds: the trainers or RunningEvals
    pauses,    \* how often evals were stopped
    worker,    \* the task of each trainer
    indices,   \* next_indices
    prompt,    \* PromptTask: is_running and the tokens to send
    evaluated  \* ghost: the positions whose scores were pushed, in order

evalVars == <<loading, permit, evals, pauses, worker, indices, prompt, evaluated>>

NumEvalTrainers == Cardinality(EvalTrainers)

Idle == [at |-> "idle", doc |-> 0, left |-> 0]

WorkerStates == {"idle", "check", "waiting", "pick", "eval", "prompt", "returned"}

EvalTypeOK ==
    /\ loading \in {"Loading", "Prepared", "Crashed", "Done", "Failed"}
    /\ permit \in BOOLEAN
    /\ evals \in {"NotRunning", "Running", "Stopping"}
    /\ pauses \in 0 .. EvalPauses
    /\ worker \in [EvalTrainers -> [at : WorkerStates, doc : Nat, left : 0 .. EvalLimit]]
    /\ indices \in Seq(Nat)
    /\ prompt \in [running : BOOLEAN, tokens : 0 .. PromptBuffer]
    /\ evaluated \in Seq(Nat)

\* ModelTaskRunner::new spawns the loading of the tasks.
EvalInit ==
    /\ loading = "Loading"
    /\ permit = FALSE
    /\ evals = "NotRunning"
    /\ pauses = 0
    /\ worker = [t \in EvalTrainers |-> Idle]
    /\ indices = [i \in 1 .. NumEvalTrainers |-> i - 1]
    /\ prompt = [running |-> FALSE, tokens |-> 0]
    /\ evaluated = <<>>

\* The blocking task has prepared the tasks, or panicked.
TasksPrepared ==
    /\ loading = "Loading"
    /\ loading' \in {"Prepared", "Crashed"}
    /\ UNCHANGED <<permit, evals, pauses, worker, indices, prompt, evaluated>>

\* A worker that waits still holds the read lock with which it looked at the
\* state: the guard lives until the end of its block.
HoldsReadLock(t) == worker[t].at = "waiting"

\* The loading task writes its result, which takes the write lock, and wakes one
\* of those who wait.
PublishTasks ==
    /\ loading \in {"Prepared", "Crashed"}
    /\ \A t \in EvalTrainers : ~HoldsReadLock(t)
    /\ loading' = IF loading = "Prepared" THEN "Done" ELSE "Failed"
    /\ permit' = TRUE
    /\ UNCHANGED <<evals, pauses, worker, indices, prompt, evaluated>>

\* start: one task per trainer.
StartEvals ==
    /\ evals = "NotRunning"
    /\ evals' = "Running"
    /\ worker' = [t \in EvalTrainers |-> [Idle EXCEPT !.at = "check"]]
    /\ UNCHANGED <<loading, permit, pauses, indices, prompt, evaluated>>

\* stop_evals cancels, and waits for every trainer to come back.
StopEvals ==
    /\ evals = "Running" /\ pauses < EvalPauses
    /\ evals' = "Stopping"
    /\ pauses' = pauses + 1
    /\ UNCHANGED <<loading, permit, worker, indices, prompt, evaluated>>

TrainersBack ==
    /\ evals = "Stopping"
    /\ \A t \in EvalTrainers : worker[t].at = "returned"
    /\ evals' = "NotRunning"
    /\ worker' = [t \in EvalTrainers |-> Idle]
    /\ UNCHANGED <<loading, permit, pauses, indices, prompt, evaluated>>

Cancelled == evals = "Stopping"

Goes(t, at) == worker' = [worker EXCEPT ![t] = [Idle EXCEPT !.at = at]]

\* wait_for_tasks.  The lock is fair: a reader queues behind a writer.
CheckTasks(t) ==
    /\ worker[t].at = "check"
    /\ \/ loading = "Done" /\ Goes(t, "pick")
       \/ loading = "Failed" /\ Goes(t, "returned")
       \/ loading = "Loading" /\ Goes(t, "waiting")
    /\ UNCHANGED <<loading, permit, evals, pauses, indices, prompt, evaluated>>

WaitEnds(t) ==
    /\ worker[t].at = "waiting"
    /\ \/ Cancelled /\ Goes(t, "returned") /\ UNCHANGED permit
       \/ permit /\ permit' = FALSE /\ Goes(t, "check")
    /\ UNCHANGED <<loading, evals, pauses, indices, prompt, evaluated>>

\* The worker takes the last index of the task, and panics if there is none.
PickEval(t) ==
    /\ worker[t].at = "pick" /\ ~Cancelled
    /\ indices # <<>>
    /\ worker' = [worker EXCEPT ![t] =
          [at |-> "eval", doc |-> indices[Len(indices)], left |-> EvalLimit]]
    /\ indices' = SubSeq(indices, 1, Len(indices) - 1)
    /\ UNCHANGED <<loading, permit, evals, pauses, prompt, evaluated>>

\* run_log_likelihood and run_generate_until go on while there are documents of
\* this pass through the list.
InThisPass(doc, first) == doc \div NumDocs = first \div NumDocs

\* One document.  left counts down; the first position of the run is doc minus
\* what was done since.
EvaluateDoc(t) ==
    LET w == worker[t]
        first == w.doc - (EvalLimit - w.left) * NumEvalTrainers
    IN  /\ w.at = "eval" /\ ~Cancelled
        /\ w.left > 0 /\ InThisPass(w.doc, first)
        /\ w.doc <= LastDoc
        /\ evaluated' = Append(evaluated, w.doc)
        /\ worker' = [worker EXCEPT ![t].doc = @ + NumEvalTrainers, ![t].left = @ - 1]
        /\ UNCHANGED <<loading, permit, evals, pauses, indices, prompt>>

\* next_index of PreparedTaskResult
ReturnedIndex(w) == w.doc

\* Mutant of EvalEnds: a run that is cancelled forgets its index.
EvalEndsForgets(t) ==
    LET w == worker[t]
        first == w.doc - (EvalLimit - w.left) * NumEvalTrainers
    IN  /\ w.at = "eval"
        /\ Cancelled \/ w.left = 0 \/ ~InThisPass(w.doc, first)
        /\ indices' = IF Cancelled THEN indices ELSE <<ReturnedIndex(w)>> \o indices
        /\ Goes(t, "pick")
        /\ UNCHANGED <<loading, permit, evals, pauses, prompt, evaluated>>

\* The run ends, at a cancellation too, and its next index goes to the front.
EvalEnds(t) ==
    LET w == worker[t]
        first == w.doc - (EvalLimit - w.left) * NumEvalTrainers
    IN  /\ w.at = "eval"
        /\ Cancelled \/ w.left = 0 \/ ~InThisPass(w.doc, first)
        /\ indices' = <<ReturnedIndex(w)>> \o indices
        /\ Goes(t, "pick")
        /\ UNCHANGED <<loading, permit, evals, pauses, prompt, evaluated>>

\* The prompt task runs on one trainer at a time; another one skips it.
PickPrompt(t) ==
    /\ worker[t].at = "pick" /\ ~Cancelled
    /\ ~prompt.running
    /\ prompt' = [prompt EXCEPT !.running = TRUE]
    /\ Goes(t, "prompt")
    /\ UNCHANGED <<loading, permit, evals, pauses, indices, evaluated>>

\* PromptTask::run: a token, unless the buffer is full or evals were cancelled
\* before the forward pass.
PromptEnds(t) ==
    /\ worker[t].at = "prompt"
    /\ \/ /\ prompt.tokens = PromptBuffer \/ Cancelled
          /\ prompt' = [prompt EXCEPT !.running = FALSE]
       \/ /\ prompt.tokens < PromptBuffer
          /\ prompt' = [running |-> FALSE, tokens |-> prompt.tokens + 1]
    /\ Goes(t, "pick")
    /\ UNCHANGED <<loading, permit, evals, pauses, indices, evaluated>>

\* Mutant of WorkerReturns: the cancellation is seen only if there is nothing to do.
WorkerReturnsLast(t) ==
    /\ worker[t].at = "pick" /\ Cancelled /\ indices = <<>>
    /\ Goes(t, "returned")
    /\ UNCHANGED <<loading, permit, evals, pauses, indices, prompt, evaluated>>

\* The loop sees the cancellation before its next task.
WorkerReturns(t) ==
    /\ worker[t].at = "pick" /\ Cancelled
    /\ Goes(t, "returned")
    /\ UNCHANGED <<loading, permit, evals, pauses, indices, prompt, evaluated>>

\* A witness takes the tokens along (get_evals_and_prompts in stats.rs).
TakeTokens ==
    /\ prompt.tokens > 0
    /\ prompt' = [prompt EXCEPT !.tokens = 0]
    /\ UNCHANGED <<loading, permit, evals, pauses, worker, indices, evaluated>>

WorkerStep(t) ==
    \/ CheckTasks(t) \/ WaitEnds(t)
    \/ PickEval(t) \/ EvaluateDoc(t) \/ EvalEnds(t)
    \/ PickPrompt(t) \/ PromptEnds(t)
    \/ WorkerReturns(t)

EvalNext ==
    \/ TasksPrepared \/ PublishTasks
    \/ StartEvals \/ StopEvals \/ TrainersBack
    \/ \E t \in EvalTrainers : WorkerStep(t)
    \/ TakeTokens

\* Tasks run to their end, and the loading ends; nobody has to start or stop.
EvalFairness ==
    /\ WF_evalVars(TasksPrepared)
    /\ WF_evalVars(PublishTasks)
    /\ WF_evalVars(TrainersBack)
    /\ \A t \in EvalTrainers :
          /\ WF_evalVars(CheckTasks(t) \/ WaitEnds(t))
          /\ WF_evalVars(EvalEnds(t))
          /\ WF_evalVars(PromptEnds(t))
          /\ WF_evalVars(WorkerReturns(t))

EvalSpec == EvalInit /\ [][EvalNext]_evalVars /\ EvalFairness

-----------------------------------------------------------------------------
(* Properties. *)

\* next_indices.pop().unwrap() finds an index: whatever is interrupted in the
\* middle of a task has put one back.
IndexForEveryTrainer ==
    \A t \in EvalTrainers : worker[t].at = "pick" => indices # <<>>

\* Across interruptions, and although any trainer may continue where another one
\* stopped, no document is evaluated twice in one pass through the list.
EvaluatedOnce ==
    \A i, j \in DOMAIN evaluated : evaluated[i] = evaluated[j] => i = j

\* The prompt grows at its end: two trainers never extend it at the same time.
OnePrompt ==
    \A t, u \in EvalTrainers :
       worker[t].at = "prompt" /\ worker[u].at = "prompt" => t = u

\* The state machine that waits for its trainers gets them back, whatever they
\* were waiting for or doing.
TrainersComeBack == evals = "Stopping" ~> evals = "NotRunning"

\* Wherever the trainers are called away from the evaluations, each finds a task to go
\* on with, no document counts twice, and one trainer at a time writes the prompt.
EvaluationInv ==
    /\ EvalTypeOK
    /\ IndexForEveryTrainer
    /\ EvaluatedOnce
    /\ OnePrompt
=============================================================================
