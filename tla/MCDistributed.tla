--------------------------- MODULE MCDistributed ---------------------------
(***************************************************************************)
(* A client's start, in one run: the manager of its containers, init_run,  *)
(* and its sidecars.  A behaviour is one of ONE component, the one chosen: *)
(* they share no state.                                                    *)
(***************************************************************************)
EXTENDS InitRun, PythonDistributed, RunManager

VARIABLE chosen

runVars == <<chosen, initRunVars, sidecarVars, managerVars>>

MCTensors == <<"w1", "w2">>

\* A tag, a digest, the version that every client takes for its own, and a tag again.
MCVersions == << <<"v1">>, <<"sha256", ":", "d2">>, <<"test">>, <<"v3">> >>

\* The client has no device: init_run has returned.
InitRunOver ==
    /\ devices = 0 /\ checkpoint = "Dummy" /\ location = "Dummy" /\ result = "UnavailableDevice"
    /\ data = "pending" /\ model = "start" /\ wandb = "pending"
    /\ ranks = [r \in WorldRanks |-> "none"]
    /\ configs = 0 /\ trainers = <<>>
    /\ thread = [r \in WorldRanks |-> "none"]
    /\ arrived = [t \in 0 .. TensorParallelism - 1 |-> {}]
    /\ reduced = [r \in WorldRanks |-> FALSE]

\* Rank 0 has failed at once, and the sidecars have ended.
SidecarsOver ==
    /\ state = [r \in Ranks |-> IF r = Main THEN "failed" ELSE "ended"]
    /\ program = [r \in Ranks |-> <<>>] /\ store = << >>
    /\ iteration = [r \in Ranks |-> 0] /\ ahead = [r \in Ranks |-> <<>>]
    /\ mixed = FALSE /\ trainer = {} /\ aborted = FALSE

\* The manager has failed at once, and no other version is wanted.
ManagerOver ==
    /\ wanted = Len(Versions) /\ halted = FALSE /\ local = FALSE /\ manager = "failed" /\ tag = <<>>
    /\ containers = <<>> /\ listening = FALSE /\ refused = FALSE

\* A component that is not chosen has ended.
RunInit ==
    \/ chosen = "InitRun" /\ InitRunInit /\ SidecarsOver /\ ManagerOver
    \/ chosen = "PythonDistributed" /\ SidecarInit /\ InitRunOver /\ ManagerOver
    \/ chosen = "RunManager" /\ ManagerInit /\ InitRunOver /\ SidecarsOver

InitRunMoves ==
    /\ chosen = "InitRun" /\ InitRunNext
    /\ UNCHANGED <<chosen, sidecarVars, managerVars>>

SidecarsMove ==
    /\ chosen = "PythonDistributed" /\ SidecarNext
    /\ UNCHANGED <<chosen, initRunVars, managerVars>>

ManagerMoves ==
    /\ chosen = "RunManager" /\ ManagerNext
    /\ UNCHANGED <<chosen, initRunVars, sidecarVars>>

RunNext == InitRunMoves \/ SidecarsMove \/ ManagerMoves

RunFairness ==
    /\ WF_initRunVars(chosen = "InitRun" /\ Futures)
    /\ WF_initRunVars(chosen = "InitRun" /\ DataReady)
    /\ WF_initRunVars(chosen = "InitRun" /\ WandbReady)
    /\ WF_initRunVars(chosen = "InitRun" /\ model = "files" /\ ModelSource)
    /\ \A r \in WorldRanks :
          /\ WF_initRunVars(chosen = "InitRun" /\ RankStep(r))
          /\ WF_initRunVars(chosen = "InitRun" /\ ThreadStep(r))
    /\ WF_sidecarVars(chosen = "PythonDistributed" /\ ContinuesTraining)
    /\ \A r \in Ranks : WF_sidecarVars(chosen = "PythonDistributed" /\ RankNext(r))
    /\ WF_managerVars(chosen = "RunManager" /\ ManagerStep)
    /\ WF_managerVars(chosen = "RunManager" /\ ClientMismatch)

RunSpec == RunInit /\ [][RunNext]_runVars /\ RunFairness
=============================================================================
