------------------------------ MODULE Treasurer ------------------------------
(***************************************************************************)
(* The treasurer program (architectures/decentralized/solana-treasurer):   *)
(* it owns a coordinator, holds the collateral of its run and pays it to   *)
(* users, one unit for each point that the coordinator says they earned.   *)
(*                                                                         *)
(* An instruction is atomic: when the transfer or a call to the            *)
(* coordinator fails, nothing has happened.  Of the coordinator only       *)
(* whether it is halted and the points its clients earned are kept         *)
(* (SolanaCoordinator has the rest).                                       *)
(***************************************************************************)
EXTENDS Integers, FiniteSets, Functions

CONSTANTS
    Users,      \* wallets
    MaxPoints,  \* bound on the points a user earns
    MaxTopUp    \* bound on the collateral that is transferred to the run

ASSUME TreasurerAssumption == IsFiniteSet(Users) /\ {MaxPoints, MaxTopUp} \subseteq Nat

VARIABLES
    run,          \* Run: none before run_create
    participant,  \* Participant by user: none before participant_create
    collateral,   \* amounts: run_collateral, and user_collateral of each user
    funded,       \* collateral transferred to the run so far
    coordinator_  \* the coordinator: halted, and earned by client

treasurerVars == <<run, participant, collateral, funded, coordinator_>>

NoAccount == [exists |-> FALSE, collateral |-> 0, points |-> 0]
NewAccount == [exists |-> TRUE, collateral |-> 0, points |-> 0]

Accounts == [exists : BOOLEAN, collateral : Nat, points : Nat]

TreasurerTypeOK ==
    /\ run \in Accounts            \* total_claimed_collateral_amount, total_claimed_earned_points
    /\ participant \in [Users -> Accounts]   \* claimed_...
    /\ collateral \in [run : Nat, users : [Users -> Nat]]
    /\ funded \in 0 .. MaxTopUp
    /\ coordinator_ \in [halted : BOOLEAN, earned : [Users -> 0 .. MaxPoints]]

TreasurerInit ==
    /\ run = NoAccount
    /\ participant = [u \in Users |-> NoAccount]
    /\ collateral = [run |-> 0, users |-> [u \in Users |-> 0]]
    /\ funded = 0
    /\ coordinator_ = [halted |-> TRUE, earned |-> [u \in Users |-> 0]]

\* run_create: init fails when the account exists.
RunCreate ==
    /\ ~run.exists
    /\ run' = NewAccount
    /\ UNCHANGED <<participant, collateral, funded, coordinator_>>

\* run_update, by main_authority: `update` and `update_client_version` need a halted
\* coordinator, each when its turn comes; set_paused lies between them.
RunUpdate(config, paused, version) ==
    /\ run.exists
    /\ config => coordinator_.halted
    /\ LET halted == IF paused = "none" THEN coordinator_.halted ELSE paused = "true"
       IN  /\ version => halted
           /\ coordinator_' = [coordinator_ EXCEPT !.halted = halted]
    /\ UNCHANGED <<run, participant, collateral, funded>>

ParticipantCreate(u) ==
    /\ run.exists /\ ~participant[u].exists
    /\ participant' = [participant EXCEPT ![u] = NewAccount]
    /\ UNCHANGED <<run, collateral, funded, coordinator_>>

\* An epoch of the coordinator ends.
EpochEarns(u) ==
    /\ run.exists /\ ~coordinator_.halted
    /\ coordinator_.earned[u] < MaxPoints
    /\ coordinator_' = [coordinator_ EXCEPT !.earned[u] = @ + 1]
    /\ UNCHANGED <<run, participant, collateral, funded>>

\* Anyone transfers collateral to the run.
TopUp ==
    /\ run.exists /\ funded < MaxTopUp
    /\ funded' = funded + 1
    /\ collateral' = [collateral EXCEPT !.run = @ + 1]
    /\ UNCHANGED <<run, participant, coordinator_>>

Claimed(a, amount) ==
    [exists |-> a.exists, collateral |-> a.collateral + amount, points |-> a.points + amount]

\* The transfer of a claim, from the run to the user.
Paid(u, amount) ==
    [run |-> collateral.run - amount, users |-> [collateral.users EXCEPT ![u] = @ + amount]]

\* Mutant of ParticipantClaim: the participant's counters are left.
ParticipantClaimForgets(u, amount) ==
    /\ participant[u].exists
    /\ amount <= coordinator_.earned[u] - participant[u].points
    /\ amount <= collateral.run
    /\ run' = Claimed(run, amount)
    /\ collateral' = Paid(u, amount)
    /\ UNCHANGED <<participant, funded, coordinator_>>

\* participant_claim; the token program refuses to overdraw.
ParticipantClaim(u, amount) ==
    /\ participant[u].exists
    /\ amount <= coordinator_.earned[u] - participant[u].points
    /\ amount <= collateral.run
    /\ participant' = [participant EXCEPT ![u] = Claimed(@, amount)]
    /\ run' = Claimed(run, amount)
    /\ collateral' = Paid(u, amount)
    /\ UNCHANGED <<funded, coordinator_>>

TreasurerNext ==
    \/ RunCreate
    \/ \E config, version \in BOOLEAN, paused \in {"none", "true", "false"} :
          RunUpdate(config, paused, version)
    \/ TopUp
    \/ \E u \in Users :
          \/ ParticipantCreate(u) \/ EpochEarns(u)
          \/ \E amount \in 0 .. MaxPoints : ParticipantClaim(u, amount)

TreasurerSpec == TreasurerInit /\ [][TreasurerNext]_treasurerVars

-----------------------------------------------------------------------------
(* Properties. *)

\* Whatever is claimed, in whatever portions and order, a user has been paid once for
\* every point it claimed and never for more than it earned, and what the run paid is
\* what was transferred to it less what is left.
PaidOnce ==
    /\ \A u \in Users :
          /\ collateral.users[u] = participant[u].points
          /\ participant[u].points <= coordinator_.earned[u]
    /\ run.points = SumFunction(collateral.users)
    /\ funded = collateral.run + run.collateral

\* The accounts of the treasurer have their types and agree with what was paid out.
TreasurerInv ==
    /\ TreasurerTypeOK
    /\ PaidOnce
=============================================================================
