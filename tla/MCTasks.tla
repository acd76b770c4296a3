------------------------------ MODULE MCTasks ------------------------------
(***************************************************************************)
(* The background work of one client, in one run: the checkpoints, the     *)
(* evaluations and the prompt, the threads of the trainer, and the gossip  *)
(* of its results.  A behaviour is one of ONE component, the one chosen:   *)
(* the components share no state, so that nothing is lost.                 *)
(***************************************************************************)
EXTENDS Checkpoints, ModelTasks, LocalTrainer, Gossip

VARIABLE chosen

runVars == <<chosen, checkpointVars, evalVars, vars, gossipVars>>

\* A roster with this client, and one without it.
MCRosters == {{GossipSelf} \union GossipPeers, GossipPeers}

RunInit ==
    /\ chosen \in {"Checkpoints", "ModelTasks", "LocalTrainer", "Gossip"}
    /\ CheckpointInit /\ EvalInit /\ Init /\ GossipInit
    /\ chosen = "LocalTrainer" \/ clips
    /\ chosen = "Checkpoints" \/ (saves = "hub" /\ deletes)

CheckpointsMove ==
    /\ chosen = "Checkpoints" /\ CheckpointNext
    /\ UNCHANGED <<chosen, evalVars, vars, gossipVars>>

ModelTasksMove ==
    /\ chosen = "ModelTasks" /\ EvalNext
    /\ UNCHANGED <<chosen, checkpointVars, vars, gossipVars>>

LocalTrainerMoves ==
    /\ chosen = "LocalTrainer" /\ Next
    /\ UNCHANGED <<chosen, checkpointVars, evalVars, gossipVars>>

GossipMoves ==
    /\ chosen = "Gossip" /\ GossipNext
    /\ UNCHANGED <<chosen, checkpointVars, evalVars, vars>>

RunNext == CheckpointsMove \/ ModelTasksMove \/ LocalTrainerMoves \/ GossipMoves

\* The fairness of the component chosen: a conjunct per conjunct of its own.
RunFairness ==
    /\ \A e \in Epochs :
          WF_checkpointVars(chosen = "Checkpoints" /\ CheckpointTask(e))
    /\ WF_checkpointVars(chosen = "Checkpoints" /\ DrainEnds)
    /\ WF_evalVars(chosen = "ModelTasks" /\ TasksPrepared)
    /\ WF_evalVars(chosen = "ModelTasks" /\ PublishTasks)
    /\ WF_evalVars(chosen = "ModelTasks" /\ TrainersBack)
    /\ \A t \in EvalTrainers :
          /\ WF_evalVars(chosen = "ModelTasks" /\ (CheckTasks(t) \/ WaitEnds(t)))
          /\ WF_evalVars(chosen = "ModelTasks" /\ EvalEnds(t))
          /\ WF_evalVars(chosen = "ModelTasks" /\ PromptEnds(t))
          /\ WF_evalVars(chosen = "ModelTasks" /\ WorkerReturns(t))
    /\ WF_vars(chosen = "LocalTrainer" /\ Return)
    /\ \A t \in Threads : WF_vars(chosen = "LocalTrainer" /\ Step(t))
    /\ WF_gossipVars(chosen = "Gossip" /\ Rebroadcast)

RunSpec == RunInit /\ [][RunNext]_runVars /\ RunFairness
=============================================================================
