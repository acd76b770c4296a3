------------------------------- MODULE MCCore -------------------------------
(***************************************************************************)
(* The coordinator, and the downloads of the blobs that its rounds are     *)
(* about, in one run.  A behaviour is one of ONE of the two, the one       *)
(* chosen: they share no state, so that nothing is lost.                   *)
(***************************************************************************)
EXTENDS MCCoordinator, Downloads

VARIABLE chosen

runVars == <<chosen, vars, downloadVars>>

\* The clients of the coordinator are all alike, and so are the tasks that wait to retry.
Symmetry == MCSymmetry \union Permutations(RetryTasks)

RunInit == chosen \in {"Coordinator", "Downloads"} /\ Init /\ DownloadInit

CoordinatorMoves ==
    /\ chosen = "Coordinator" /\ Next
    /\ UNCHANGED <<chosen, downloadVars>>

DownloadsMove ==
    /\ chosen = "Downloads" /\ DownloadNext
    /\ UNCHANGED <<chosen, vars>>

RunNext == CoordinatorMoves \/ DownloadsMove

RunSpec == RunInit /\ [][RunNext]_runVars
=============================================================================
