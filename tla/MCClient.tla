------------------------------ MODULE MCClient ------------------------------
(***************************************************************************)
(* A client and the chain, in one run: the step machine that follows the   *)
(* coordinator, the Solana client, which follows the account of its run    *)
(* and joins, and the programs that pay, pool and authorize.  A behaviour  *)
(* is one of ONE component, the one chosen: the components share no state, *)
(* so that nothing is lost.                                                *)
(***************************************************************************)
EXTENDS ClientSteps, SolanaClient, Treasurer, MiningPool, Authorizer

VARIABLE chosen

runVars == <<chosen, clientVars, solanaClientVars, treasurerVars, poolVars,
             authorizerVars>>

MCMemberships == {<<Extra, Me, Other>>}

MCAssigned(step) == IF step = 1 THEN {Me, Other} ELSE {}

Components == {"ClientSteps", "SolanaClient", "Treasurer", "MiningPool", "Authorizer"}

\* A component that is not chosen has one initial state.
RunInit ==
    /\ chosen \in Components
    /\ ClientInit /\ SolanaClientInit /\ TreasurerInit /\ PoolInit /\ AuthorizerInit
    /\ \/ chosen = "SolanaClient"
       \/ account[1].run_state = "WaitingForMembers" /\ app.pc = "backend"

ClientStepsMove ==
    /\ chosen = "ClientSteps" /\ ClientNext
    /\ UNCHANGED <<chosen, solanaClientVars, treasurerVars, poolVars, authorizerVars>>

SolanaClientMoves ==
    /\ chosen = "SolanaClient" /\ SolanaClientNext
    /\ UNCHANGED <<chosen, clientVars, treasurerVars, poolVars, authorizerVars>>

TreasurerMoves ==
    /\ chosen = "Treasurer" /\ TreasurerNext
    /\ UNCHANGED <<chosen, clientVars, solanaClientVars, poolVars, authorizerVars>>

MiningPoolMoves ==
    /\ chosen = "MiningPool" /\ PoolNext
    /\ UNCHANGED <<chosen, clientVars, solanaClientVars, treasurerVars, authorizerVars>>

AuthorizerMoves ==
    /\ chosen = "Authorizer" /\ AuthorizerNext
    /\ UNCHANGED <<chosen, clientVars, solanaClientVars, treasurerVars, poolVars>>

RunNext ==
    \/ ClientStepsMove
    \/ SolanaClientMoves
    \/ TreasurerMoves
    \/ MiningPoolMoves
    \/ AuthorizerMoves

RunSpec == RunInit /\ [][RunNext]_runVars
=============================================================================
