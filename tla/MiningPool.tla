----------------------------- MODULE MiningPool -----------------------------
(***************************************************************************)
(* The mining pool program (architectures/decentralized/                   *)
(* solana-mining-pool): lenders deposit collateral, the authority extracts *)
(* it, reward tokens come back, and each lender claims its share of them.  *)
(*                                                                         *)
(* An instruction is atomic.  A token account is the balance of the pool   *)
(* in a mint; when the authority names the mint of the collateral as the   *)
(* redeemable one, both are the same account.                              *)
(***************************************************************************)
EXTENDS Integers, FiniteSets, Functions

CONSTANTS
    Lenders,
    MaxCollateral,  \* bound on deposits and on the limit of deposits
    MaxRewards      \* bound on the reward tokens

ASSUME PoolAssumption ==
    /\ IsFiniteSet(Lenders)
    /\ MaxCollateral \in Nat \ {0} /\ MaxRewards \in Nat

VARIABLES
    pool,     \* Pool
    lender,   \* Lender by user
    balance,  \* the pool's token accounts, by mint
    rewards,  \* reward tokens transferred to the pool so far
    diluted   \* ghost: a deposit was made after a claim

poolVars == <<pool, lender, balance, rewards, diluted>>

Mints == {"collateral", "reward"}

PoolTypeOK ==
    /\ pool \in [created : BOOLEAN,
                 max_deposit : 0 .. MaxCollateral, deposited : 0 .. MaxCollateral,
                 extracted : 0 .. MaxCollateral, claiming_enabled : BOOLEAN,
                 redeemable_mint : Mints \union {"default"}, claimed : Nat, freeze : BOOLEAN]
    /\ lender \in [Lenders -> [created : BOOLEAN, deposited : 0 .. MaxCollateral, claimed : Nat]]
    /\ balance \in [Mints -> Nat]
    /\ rewards \in 0 .. MaxRewards /\ diluted \in BOOLEAN

PoolInit ==
    /\ pool = [created |-> FALSE, max_deposit |-> 0, deposited |-> 0, extracted |-> 0,
               claiming_enabled |-> FALSE, redeemable_mint |-> "default", claimed |-> 0,
               freeze |-> FALSE]
    /\ lender = [u \in Lenders |-> [created |-> FALSE, deposited |-> 0, claimed |-> 0]]
    /\ balance = [m \in Mints |-> 0]
    /\ rewards = 0 /\ diluted = FALSE

PoolCreate ==
    /\ ~pool.created
    /\ pool' = [pool EXCEPT !.created = TRUE]
    /\ UNCHANGED <<lender, balance, rewards, diluted>>

\* pool_update of the limit or of the freeze, by the authority
PoolUpdate(max, freeze) ==
    /\ pool.created
    /\ pool' = [pool EXCEPT !.max_deposit = max, !.freeze = freeze]
    /\ UNCHANGED <<lender, balance, rewards, diluted>>

\* pool_extract
PoolExtract(amount) ==
    /\ pool.created /\ ~pool.freeze
    /\ amount <= balance["collateral"]
    /\ pool' = [pool EXCEPT !.extracted = @ + amount]
    /\ balance' = [balance EXCEPT !["collateral"] = @ - amount]
    /\ UNCHANGED <<lender, rewards, diluted>>

\* pool_claimable
PoolClaimable(mint) ==
    /\ pool.created /\ ~pool.freeze /\ ~pool.claiming_enabled
    /\ pool' = [pool EXCEPT !.claiming_enabled = TRUE, !.redeemable_mint = mint, !.claimed = 0]
    /\ UNCHANGED <<lender, balance, rewards, diluted>>

LenderCreate(u) ==
    /\ pool.created /\ ~lender[u].created
    /\ lender' = [lender EXCEPT ![u].created = TRUE]
    /\ UNCHANGED <<pool, balance, rewards, diluted>>

FitsLimit(amount) == pool.deposited + amount <= pool.max_deposit

\* lender_deposit
LenderDeposit(u, amount) ==
    /\ lender[u].created /\ ~pool.freeze
    /\ FitsLimit(amount)
    /\ balance' = [balance EXCEPT !["collateral"] = @ + amount]
    /\ lender' = [lender EXCEPT ![u].deposited = @ + amount]
    /\ pool' = [pool EXCEPT !.deposited = @ + amount]
    /\ diluted' = (diluted \/ (amount > 0 /\ pool.claimed > 0))
    /\ UNCHANGED rewards

\* Rewards come back to the pool by a transfer.
Repay ==
    /\ pool.created /\ rewards < MaxRewards
    /\ rewards' = rewards + 1
    /\ balance' = [balance EXCEPT !["reward"] = @ + 1]
    /\ UNCHANGED <<pool, lender, diluted>>

\* total_repayed_redeemable_amount
TotalRepayed == pool.claimed + balance[pool.redeemable_mint]

\* Mutant of Claimable: the share is rounded up.
ClaimableRoundedUp(u) ==
    (TotalRepayed * lender[u].deposited + pool.deposited - 1) \div pool.deposited

\* claimable_redeemable_amount
Claimable(u) == (TotalRepayed * lender[u].deposited) \div pool.deposited

\* lender_claim
LenderClaim(u, amount) ==
    /\ lender[u].created /\ ~pool.freeze /\ pool.claiming_enabled
    /\ pool.deposited # 0
    /\ lender[u].claimed + amount <= Claimable(u)
    /\ amount <= balance[pool.redeemable_mint]
    /\ lender' = [lender EXCEPT ![u].claimed = @ + amount]
    /\ pool' = [pool EXCEPT !.claimed = @ + amount]
    /\ balance' = [balance EXCEPT ![pool.redeemable_mint] = @ - amount]
    /\ UNCHANGED <<rewards, diluted>>

PoolNext ==
    \/ PoolCreate
    \/ \E max \in {pool.max_deposit, MaxCollateral, MaxCollateral - 1}, freeze \in BOOLEAN :
          PoolUpdate(max, freeze)
    \/ \E m \in Mints : PoolClaimable(m)
    \/ \E amount \in 1 .. MaxCollateral : PoolExtract(amount)
    \/ Repay
    \/ \E u \in Lenders :
          \/ LenderCreate(u)
          \/ \E amount \in 1 .. MaxCollateral : LenderDeposit(u, amount)
          \/ \E amount \in 1 .. MaxRewards : LenderClaim(u, amount)

PoolSpec == PoolInit /\ [][PoolNext]_poolVars

-----------------------------------------------------------------------------
(* Properties. *)

SumOf(f) == SumFunction(f)

\* The books are balanced: the totals of the pool are the sums over its lenders, and
\* the token accounts hold what came in less what went out.
BooksBalance ==
    /\ pool.deposited = SumOf([u \in Lenders |-> lender[u].deposited])
    /\ pool.claimed = SumOf([u \in Lenders |-> lender[u].claimed])
    /\ balance["collateral"] + balance["reward"] =
          pool.deposited + rewards - pool.extracted - pool.claimed

\* Once claiming is enabled for a mint of its own, every lender can claim the rest of
\* its share at once with all others, whatever the rounding and the order of the
\* claims, unless someone has deposited after a claim.
SharesAvailable ==
    pool.claiming_enabled /\ pool.redeemable_mint = "reward" /\ pool.deposited > 0 /\ ~diluted =>
       /\ \A u \in Lenders : lender[u].claimed <= Claimable(u)
       /\ SumOf([u \in Lenders |-> Claimable(u) - lender[u].claimed]) <= balance["reward"]

\* The pool has its deposits, whoever deposits, extracts or claims first, and as long as
\* nobody has deposited after a claim it can pay all the shares that it owes, however
\* they round.
PoolSolvent ==
    /\ PoolTypeOK
    /\ BooksBalance
    /\ SharesAvailable
=============================================================================
