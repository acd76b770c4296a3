--------------------------- MODULE TrainingLedger ---------------------------
(***************************************************************************)
(* What a coordinator promises about training, whatever happens to the     *)
(* clients, the epochs and the phases: steps are trained one after the     *)
(* other, the batch of a step starts where the batch of the step before    *)
(* ended (no data is skipped and none is trained twice), and no step from  *)
(* total_steps on is trained.                                              *)
(***************************************************************************)
EXTENDS CoordinatorOps

VARIABLES
    config,   \* the configuration of the run
    step,     \* the step that is, or will next be, trained
    next,     \* the data index at which that step's batch starts
    training  \* the step is being trained

ledgerVars == <<config, step, next, training>>

LedgerInit ==
    /\ config \in Configs
    /\ step = 1
    /\ next = 0
    /\ training = FALSE

BeginStep ==
    /\ ~training
    /\ StepAllowed(config, step)
    /\ training' = TRUE
    /\ UNCHANGED <<config, step, next>>

CompleteStep ==
    /\ training
    /\ step' = step + 1
    /\ next' = next + BatchSize(config, next * SeqLen)
    /\ training' \in BOOLEAN
    /\ training' => StepAllowed(config, step')
    /\ UNCHANGED config

LedgerNext == BeginStep \/ CompleteStep

LedgerSpec == LedgerInit /\ [][LedgerNext]_ledgerVars
=============================================================================
