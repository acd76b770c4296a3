---------------------------- MODULE ClientProofs ----------------------------
(***************************************************************************)
(* Theorems about a client and the programs of the chain: the treasurer,   *)
(* the mining pool and the authorizer, for any number of users, lenders    *)
(* and grantees; the Solana client that follows the coordinator account;   *)
(* the step machine, for any client lists, steps and epochs; the entry     *)
(* into a run, for any grid of ranks; and the texts that are written for   *)
(* an evaluation, however often they are interrupted.  The books of the    *)
(* first two are sums over the users, of which DataProofs has the facts.   *)
(***************************************************************************)
EXTENDS ClientSteps, InitRun, GenerateUntil, SolanaClient, Treasurer, MiningPool, Authorizer, DataProofs,
        FiniteSetTheorems

-----------------------------------------------------------------------------
(* The treasurer. *)

\* The inductive invariant: before run_create there is nothing in the account, and
\* there are no participants; before participant_create a user has claimed nothing.
TreasurerIInv ==
  /\ TreasurerInv
  /\ ~run.exists => run = NoAccount /\ \A u \in Users : ~participant[u].exists
  /\ \A u \in Users : ~participant[u].exists => participant[u].points = 0

\* No run and no participant: the books are empty.
LEMMA TreasurerInitially == TreasurerInit => TreasurerIInv
<1> SUFFICES ASSUME TreasurerInit PROVE TreasurerIInv
  OBVIOUS
<1>1. TreasurerTypeOK
  BY TreasurerAssumption DEF TreasurerInit, TreasurerTypeOK, NoAccount, Accounts
<1>2. SumFunction(collateral.users) = 0
  <2>1. collateral.users \in [Users -> Int] /\ \A u \in Users : collateral.users[u] = 0
    BY DEF TreasurerInit
  <2>2. QED
    BY <2>1, SumZero, TreasurerAssumption
<1>3. PaidOnce
  BY <1>2 DEF TreasurerInit, PaidOnce, NoAccount
<1>4. QED
  BY <1>1, <1>3 DEF TreasurerInit, TreasurerIInv, TreasurerInv, NoAccount

\* A claim moves a participant by as much collateral as points.
LEMMA ClaimedAccount ==
  ASSUME NEW a \in Accounts, NEW n \in Nat
  PROVE  /\ Claimed(a, n) \in Accounts
         /\ Claimed(a, n).exists = a.exists
         /\ Claimed(a, n).collateral = a.collateral + n
         /\ Claimed(a, n).points = a.points + n
BY DEF Accounts, Claimed

\* A claim moves its amount between the books and nothing else.
LEMMA ClaimKeepsBooks ==
  ASSUME TreasurerIInv, NEW u \in Users, NEW amount \in 0 .. MaxPoints, ParticipantClaim(u, amount)
  PROVE  TreasurerIInv'
<1> USE DEF TreasurerIInv, TreasurerInv
<1>1. amount \in Nat
  BY TreasurerAssumption
<1>2. /\ participant' = [participant EXCEPT ![u] = Claimed(@, amount)]
      /\ run' = Claimed(run, amount)
      /\ collateral' = Paid(u, amount)
      /\ funded' = funded /\ coordinator_' = coordinator_
      /\ amount <= coordinator_.earned[u] - participant[u].points
      /\ amount <= collateral.run
  BY DEF ParticipantClaim
<1>3. run \in Accounts /\ participant \in [Users -> Accounts]
      /\ collateral \in [run : Nat, users : [Users -> Nat]]
  BY DEF TreasurerTypeOK
<1>4. /\ collateral' \in [run : Nat, users : [Users -> Nat]]
      /\ collateral'.run = collateral.run - amount
      /\ collateral'.users = [collateral.users EXCEPT ![u] = @ + amount]
  BY <1>1, <1>2, <1>3 DEF Paid
<1>5. run' \in Accounts /\ run'.exists = run.exists
      /\ run'.collateral = run.collateral + amount /\ run'.points = run.points + amount
  BY <1>1, <1>2, <1>3, ClaimedAccount
<1>6. participant' \in [Users -> Accounts] /\ participant'[u].points = participant[u].points + amount
      /\ participant'[u].exists = participant[u].exists
      /\ \A v \in Users \ {u} : participant'[v] = participant[v]
  BY <1>1, <1>2, <1>3, ClaimedAccount
<1>7. TreasurerTypeOK'
  BY <1>2, <1>4, <1>5, <1>6 DEF TreasurerTypeOK
<1>8. SumFunction(collateral'.users) = SumFunction(collateral.users) + amount
  <2> DEFINE f == collateral.users  g == collateral'.users
  <2>1. f \in [Users -> Int] /\ g \in [Users -> Int] /\ g[u] = f[u] + amount
        /\ f[u] \in Int /\ \A v \in Users \ {u} : f[v] = g[v]
    BY <1>1, <1>3, <1>4
  <2> HIDE DEF f, g
  <2>2. SumFunction(g) = SumFunction(f) + g[u] - f[u] /\ SumFunction(f) \in Int
    BY <2>1, SumUpdate, SumType, TreasurerAssumption
  <2>3. SumFunction(g) = SumFunction(f) + amount
    BY <1>1, <2>1, <2>2
  <2>4. QED
    BY <2>3 DEF f, g
<1>9. \A v \in Users : /\ collateral'.users[v] = participant'[v].points
                       /\ participant'[v].points <= coordinator_'.earned[v]
  <2>1. \A v \in Users : coordinator_.earned[v] \in Int /\ participant[v].points \in Int
    BY <1>3, TreasurerAssumption DEF TreasurerTypeOK, Accounts
  <2>2. QED
    BY <1>1, <1>2, <1>3, <1>4, <1>6, <2>1 DEF PaidOnce
<1>10. run'.points = SumFunction(collateral'.users)
  BY <1>5, <1>8 DEF PaidOnce
<1>11. funded' = collateral'.run + run'.collateral
  BY <1>1, <1>2, <1>3, <1>4, <1>5 DEF PaidOnce, Accounts
<1>12. run'.exists
  BY <1>5 DEF ParticipantClaim
<1>13. \A v \in Users : ~participant'[v].exists => participant'[v].points = 0
  BY <1>6 DEF ParticipantClaim
<1>14. QED
  BY <1>7, <1>9, <1>10, <1>11, <1>12, <1>13 DEF PaidOnce

\* Every instruction of the treasurer keeps its books.
LEMMA TreasurerStep == TreasurerIInv /\ [TreasurerNext]_treasurerVars => TreasurerIInv'
<1> SUFFICES ASSUME TreasurerIInv, [TreasurerNext]_treasurerVars PROVE TreasurerIInv'
  OBVIOUS
<1> USE DEF TreasurerIInv, TreasurerInv
<1>1. CASE RunCreate
  BY <1>1 DEF RunCreate, TreasurerTypeOK, PaidOnce, NewAccount, NoAccount, Accounts
<1>2. CASE \E config, version \in BOOLEAN, paused \in {"none", "true", "false"} :
              RunUpdate(config, paused, version)
  BY <1>2 DEF RunUpdate, TreasurerTypeOK, PaidOnce
<1>3. CASE TopUp
  BY <1>3, TreasurerAssumption DEF TopUp, TreasurerTypeOK, PaidOnce, Accounts
<1>4. ASSUME NEW u \in Users, ParticipantCreate(u) PROVE TreasurerIInv'
  <2>1. participant[u] \in Accounts /\ NewAccount \in Accounts
    BY DEF TreasurerTypeOK, NewAccount, Accounts
  <2>2. participant[u].points = 0
    BY <1>4 DEF ParticipantCreate
  <2>3. participant' \in [Users -> Accounts] /\ participant'[u].points = 0
        /\ \A v \in Users \ {u} : participant'[v] = participant[v]
    BY <1>4, <2>1 DEF ParticipantCreate, TreasurerTypeOK, NewAccount
  <2>4. QED
    BY <1>4, <2>2, <2>3 DEF ParticipantCreate, TreasurerTypeOK, PaidOnce
<1>5. ASSUME NEW u \in Users, EpochEarns(u) PROVE TreasurerIInv'
  BY <1>5, TreasurerAssumption DEF EpochEarns, TreasurerTypeOK, PaidOnce, Accounts
<1>6. ASSUME NEW u \in Users, NEW amount \in 0 .. MaxPoints, ParticipantClaim(u, amount)
      PROVE  TreasurerIInv'
  BY <1>6, ClaimKeepsBooks
<1>7. CASE UNCHANGED treasurerVars
  BY <1>7 DEF treasurerVars, TreasurerTypeOK, PaidOnce
<1>8. QED
  BY <1>1, <1>2, <1>3, <1>4, <1>5, <1>6, <1>7 DEF TreasurerNext

\* For any users, in whatever portions they claim: everyone is paid once for every
\* point it claims and for no more than it earned, and the treasurer's totals are what
\* it was given and what it paid (participant_claim).
THEOREM TreasurerPaysOnce == TreasurerSpec => []TreasurerInv
<1>1. TreasurerIInv => TreasurerInv
  BY DEF TreasurerIInv
<1>2. QED
  BY <1>1, TreasurerInitially, TreasurerStep, PTL DEF TreasurerSpec

-----------------------------------------------------------------------------
(* The mining pool. *)

Pools == [created : BOOLEAN, max_deposit : 0 .. MaxCollateral, deposited : 0 .. MaxCollateral,
          extracted : 0 .. MaxCollateral, claiming_enabled : BOOLEAN,
          redeemable_mint : Mints \union {"default"}, claimed : Nat, freeze : BOOLEAN]

LenderRecords == [created : BOOLEAN, deposited : 0 .. MaxCollateral, claimed : Nat]

Deposits == [u \in Lenders |-> lender[u].deposited]
Claims == [u \in Lenders |-> lender[u].claimed]

\* What the claims have taken out of a mint's account.
Out(m) == IF pool.redeemable_mint = m THEN pool.claimed ELSE 0

\* The inductive invariant: each account has its own balance, nothing is claimed before
\* claiming is enabled, and no claim exceeds the share.
PoolIInv ==
  /\ PoolTypeOK
  /\ pool.deposited = SumFunction(Deposits)
  /\ pool.claimed = SumFunction(Claims)
  /\ balance["reward"] = rewards - Out("reward")
  /\ balance["collateral"] = pool.deposited - pool.extracted - Out("collateral")
  /\ ~pool.claiming_enabled => pool.claimed = 0 /\ pool.redeemable_mint = "default"
  /\ pool.claiming_enabled => pool.redeemable_mint \in Mints
  /\ pool.claiming_enabled /\ pool.redeemable_mint = "reward" /\ pool.deposited > 0 /\ ~diluted
       => \A u \in Lenders : lender[u].claimed * pool.deposited <= rewards * lender[u].deposited

\* What the pool needs of the division that rounds down.
LEMMA DivBound ==
  ASSUME NEW a \in Nat, NEW b \in Nat \ {0}, NEW c \in Nat
  PROVE  /\ a \div b \in Nat
         /\ c <= a \div b <=> c * b <= a
         /\ b * (a \div b) <= a
OBVIOUS

\* The types of the pool, and of the deposits and claims of its lenders.
LEMMA PoolTypes ==
  ASSUME PoolTypeOK
  PROVE  /\ pool \in Pools /\ lender \in [Lenders -> LenderRecords]
         /\ Deposits \in [Lenders -> Nat] /\ Deposits \in [Lenders -> Int]
         /\ Claims \in [Lenders -> Nat] /\ Claims \in [Lenders -> Int]
BY PoolAssumption DEF PoolTypeOK, Pools, LenderRecords, Deposits, Claims

\* What is left of all shares fits in the balance, since the shares are rounded down.
LEMMA SharesFit ==
  ASSUME PoolIInv
  PROVE  PoolSolvent
<1> DEFINE dep == pool.deposited
<1>1. /\ pool \in Pools /\ lender \in [Lenders -> LenderRecords]
      /\ balance \in [Mints -> Nat] /\ rewards \in Nat /\ dep \in Nat /\ pool.claimed \in Nat
      /\ pool.extracted \in Nat
  BY PoolTypes, PoolAssumption DEF PoolIInv, PoolTypeOK, Pools
<1>2. BooksBalance
  <2>1. pool.redeemable_mint = "reward" \/ pool.redeemable_mint = "collateral"
        \/ (pool.claimed = 0 /\ pool.redeemable_mint = "default")
    <3>1. /\ ~pool.claiming_enabled => pool.claimed = 0 /\ pool.redeemable_mint = "default"
          /\ pool.claiming_enabled => pool.redeemable_mint \in Mints
      BY DEF PoolIInv
    <3>2. QED
      BY <3>1 DEF Mints
  <2>2. balance["collateral"] + balance["reward"] =
          pool.deposited + rewards - pool.extracted - pool.claimed
    BY <1>1, <2>1 DEF PoolIInv, Out
  <2>3. QED
    BY <2>2 DEF PoolIInv, BooksBalance, SumOf, Deposits, Claims
<1>3. ASSUME pool.claiming_enabled, pool.redeemable_mint = "reward", dep > 0, ~diluted
      PROVE  /\ \A u \in Lenders : lender[u].claimed <= Claimable(u)
             /\ SumOf([u \in Lenders |-> Claimable(u) - lender[u].claimed]) <= balance["reward"]
  <2>1. TotalRepayed = rewards /\ balance["reward"] = rewards - pool.claimed
    BY <1>1, <1>3 DEF TotalRepayed, PoolIInv, Out, Mints
  <2> DEFINE share == [u \in Lenders |-> (rewards * lender[u].deposited) \div dep]
             rest == [u \in Lenders |-> Claimable(u) - lender[u].claimed]
  <2>2. \A u \in Lenders : Claimable(u) = share[u]
    BY <2>1 DEF Claimable
  <2>3. ASSUME NEW u \in Lenders
        PROVE  /\ share[u] \in Nat /\ lender[u].claimed <= share[u]
               /\ dep * share[u] <= rewards * Deposits[u]
    <3>1. lender[u].deposited \in Nat /\ lender[u].claimed \in Nat
      BY <1>1, PoolAssumption DEF LenderRecords
    <3>2. rewards * lender[u].deposited \in Nat
      BY <1>1, <3>1
    <3>3. lender[u].claimed * dep <= rewards * lender[u].deposited
      BY <1>3 DEF PoolIInv
    <3>4. dep \in Nat \ {0}
      BY <1>1, <1>3
    <3> DEFINE a == rewards * lender[u].deposited
    <3> HIDE DEF a, dep
    <3>5. a \div dep \in Nat /\ lender[u].claimed <= a \div dep /\ dep * (a \div dep) <= a
      BY <3>1, <3>2, <3>3, <3>4, DivBound DEF a
    <3>6. QED
      BY <3>5 DEF a, Deposits
  <2> HIDE DEF share
  <2>4. \A u \in Lenders : lender[u].claimed \in Nat
    BY <1>1 DEF LenderRecords
  <2>5. share \in [Lenders -> Int]
    <3>1. DOMAIN share = Lenders /\ share = [u \in Lenders |-> share[u]]
      BY DEF share
    <3>2. QED
      BY <2>3, <3>1
  <2>6. rest \in [Lenders -> Int] /\ \A u \in Lenders : rest[u] = share[u] - Claims[u]
    BY <2>2, <2>3, <2>4 DEF Claims
  <2> HIDE DEF rest
  <2>7. Deposits \in [Lenders -> Int] /\ Claims \in [Lenders -> Int]
    BY PoolTypes DEF PoolIInv
  <2>8. SumFunction(rest) = SumFunction(share) - SumFunction(Claims)
    BY <2>5, <2>6, <2>7, SumMinus, PoolAssumption
  <2>9. dep * SumFunction(share) <= rewards * SumFunction(Deposits)
    <3>1. \A u \in Lenders : dep * share[u] <= rewards * Deposits[u]
      BY <2>3
    <3>2. dep \in Int /\ rewards \in Int
      BY <1>1
    <3> HIDE DEF dep
    <3>3. QED
      BY <2>5, <2>7, <3>1, <3>2, SumScaled, PoolAssumption
  <2>10. SumFunction(share) \in Int /\ SumFunction(Claims) \in Int
    BY <2>5, <2>7, SumType, PoolAssumption
  <2>11. SumFunction(Deposits) = dep /\ SumFunction(Claims) = pool.claimed
    BY DEF PoolIInv
  <2>12. SumFunction(share) <= rewards
    <3>1. \A s \in Int, d \in Nat \ {0}, r \in Nat : d * s <= r * d => s <= r
      OBVIOUS
    <3>2. QED
      BY <1>1, <1>3, <2>9, <2>10, <2>11, <3>1
  <2>13. SumFunction(rest) <= balance["reward"]
    BY <1>1, <2>1, <2>8, <2>10, <2>11, <2>12
  <2>14. QED
    BY <2>2, <2>3, <2>13 DEF SumOf, rest
<1>4. QED
  BY <1>2, <1>3 DEF PoolSolvent, SharesAvailable, PoolIInv

\* No pool: nothing deposited, nothing claimed.
LEMMA PoolInitially == PoolInit => PoolIInv
<1> SUFFICES ASSUME PoolInit PROVE PoolIInv
  OBVIOUS
<1>1. PoolTypeOK
  <2>1. 0 \in 0 .. MaxCollateral /\ 0 \in 0 .. MaxRewards
    BY PoolAssumption
  <2>2. pool \in Pools
    BY <2>1 DEF PoolInit, Pools
  <2>3. lender \in [Lenders -> LenderRecords]
    BY <2>1 DEF PoolInit, LenderRecords
  <2>4. QED
    BY <2>1, <2>2, <2>3 DEF PoolInit, PoolTypeOK, Mints, Pools, LenderRecords
<1>2. /\ Deposits \in [Lenders -> Int] /\ \A u \in Lenders : Deposits[u] = 0
      /\ Claims \in [Lenders -> Int] /\ \A u \in Lenders : Claims[u] = 0
  BY DEF PoolInit, Deposits, Claims
<1>3. SumFunction(Deposits) = 0 /\ SumFunction(Claims) = 0
  BY <1>2, SumZero, PoolAssumption
<1>4. QED
  BY <1>1, <1>3 DEF PoolInit, PoolIInv, Out, Mints

\* A lender stays a lender through a deposit, a claim and its creation.
LEMMA LenderRecordAfter ==
  ASSUME NEW l \in LenderRecords, NEW n \in Nat
  PROVE  /\ l.deposited + n <= MaxCollateral => [l EXCEPT !.deposited = @ + n] \in LenderRecords
         /\ [l EXCEPT !.claimed = @ + n] \in LenderRecords
         /\ [l EXCEPT !.created = TRUE] \in LenderRecords
<1>1. l.deposited \in 0 .. MaxCollateral /\ l.claimed \in Nat /\ MaxCollateral \in Nat
  BY PoolAssumption DEF LenderRecords
<1>2. l.deposited + n <= MaxCollateral => l.deposited + n \in 0 .. MaxCollateral
  BY <1>1
<1>3. l.claimed + n \in Nat
  BY <1>1
<1>4. QED
  BY <1>2, <1>3 DEF LenderRecords

\* A deposit enters the balance of the pool and that of its lender.
LEMMA DepositKeepsBooks ==
  ASSUME PoolIInv, NEW u \in Lenders, NEW amount \in 1 .. MaxCollateral, LenderDeposit(u, amount)
  PROVE  PoolIInv'
<1>1. /\ pool \in Pools /\ lender \in [Lenders -> LenderRecords]
      /\ balance \in [Mints -> Nat] /\ rewards \in 0 .. MaxRewards /\ diluted \in BOOLEAN
      /\ Deposits \in [Lenders -> Nat] /\ Deposits \in [Lenders -> Int]
      /\ Claims \in [Lenders -> Nat] /\ Claims \in [Lenders -> Int]
      /\ amount \in Nat \ {0}
  BY PoolTypes, PoolAssumption DEF PoolIInv, PoolTypeOK
<1>2. /\ pool.deposited \in Nat /\ pool.max_deposit \in 0 .. MaxCollateral /\ pool.claimed \in Nat
      /\ pool.extracted \in Nat
  BY <1>1, PoolAssumption DEF Pools
<1>3. /\ balance' = [balance EXCEPT !["collateral"] = @ + amount]
      /\ lender' = [lender EXCEPT ![u].deposited = @ + amount]
      /\ pool' = [pool EXCEPT !.deposited = @ + amount]
      /\ diluted' = (diluted \/ pool.claimed > 0)
      /\ rewards' = rewards
      /\ pool.deposited + amount <= pool.max_deposit
  BY <1>1 DEF LenderDeposit, FitsLimit
<1>4. /\ pool.deposited = SumFunction(Deposits) /\ pool.claimed = SumFunction(Claims)
      /\ balance["reward"] = rewards - Out("reward")
      /\ balance["collateral"] = pool.deposited - pool.extracted - Out("collateral")
      /\ ~pool.claiming_enabled => pool.claimed = 0 /\ pool.redeemable_mint = "default"
      /\ pool.claiming_enabled => pool.redeemable_mint \in Mints
  BY DEF PoolIInv
<1>5. /\ pool' \in Pools /\ pool'.deposited = pool.deposited + amount
      /\ pool'.claimed = pool.claimed /\ pool'.extracted = pool.extracted
      /\ pool'.claiming_enabled = pool.claiming_enabled
      /\ pool'.redeemable_mint = pool.redeemable_mint
  <2>1. pool.deposited + amount \in 0 .. MaxCollateral
    BY <1>1, <1>2, <1>3, PoolAssumption
  <2>2. QED
    BY <1>1, <1>3, <2>1 DEF Pools
<1>6. Deposits[u] = lender[u].deposited /\ Deposits[u] <= pool.deposited
  BY <1>1, <1>4, SumBounds, PoolAssumption DEF Deposits
<1>7. lender' \in [Lenders -> LenderRecords]
  <2>1. lender[u].deposited + amount <= MaxCollateral
    BY <1>1, <1>2, <1>3, <1>6, PoolAssumption
  <2>2. [lender[u] EXCEPT !.deposited = @ + amount] \in LenderRecords
    BY <1>1, <2>1, LenderRecordAfter
  <2>3. QED
    BY <1>1, <1>3, <2>2
<1>8. /\ lender'[u].deposited = lender[u].deposited + amount
      /\ \A v \in Lenders \ {u} : lender'[v] = lender[v]
      /\ \A v \in Lenders : lender'[v].claimed = lender[v].claimed
  BY <1>1, <1>3 DEF LenderRecords
<1>9. balance' \in [Mints -> Nat] /\ balance'["collateral"] = balance["collateral"] + amount
      /\ balance'["reward"] = balance["reward"]
  BY <1>1, <1>3 DEF Mints
<1>10. PoolTypeOK'
  BY <1>1, <1>3, <1>5, <1>7, <1>9 DEF PoolTypeOK, Pools, LenderRecords
<1>11. Deposits' \in [Lenders -> Int] /\ Claims' = Claims
       /\ Deposits'[u] = Deposits[u] + amount /\ \A v \in Lenders \ {u} : Deposits[v] = Deposits'[v]
  BY <1>7, <1>8, PoolAssumption DEF Deposits, Claims, LenderRecords
<1>12. SumFunction(Deposits') = SumFunction(Deposits) + amount
  <2>1. SumFunction(Deposits') = SumFunction(Deposits) + Deposits'[u] - Deposits[u]
    BY <1>1, <1>11, SumUpdate, PoolAssumption
  <2>2. SumFunction(Deposits) \in Int /\ Deposits[u] \in Int
    BY <1>1, SumType, PoolAssumption
  <2>3. QED
    BY <1>1, <1>11, <2>1, <2>2
<1>13. pool'.deposited = SumFunction(Deposits') /\ pool'.claimed = SumFunction(Claims')
  BY <1>4, <1>5, <1>11, <1>12
<1>14. Out("reward")' = Out("reward") /\ Out("collateral")' = Out("collateral")
       /\ Out("collateral") \in Nat
  BY <1>2, <1>5 DEF Out
<1>15. balance'["collateral"] = pool'.deposited - pool'.extracted - Out("collateral")'
  BY <1>1, <1>2, <1>4, <1>5, <1>9, <1>14
<1>16. ASSUME ~diluted'
       PROVE  \A v \in Lenders : lender'[v].claimed * pool'.deposited <= rewards' * lender'[v].deposited
  <2>1. pool.claimed = 0
    <3>1. ~(pool.claimed > 0)
      BY <1>3, <1>16, Zenon
    <3>2. QED
      BY <1>2, <3>1
  <2>2. ASSUME NEW v \in Lenders PROVE lender'[v].claimed = 0
    <3>1. Claims[v] <= SumFunction(Claims) /\ Claims[v] \in Nat /\ Claims[v] = lender[v].claimed
      BY <1>1, SumBounds, PoolAssumption DEF Claims
    <3>2. QED
      BY <1>4, <1>8, <2>1, <3>1
  <2>3. ASSUME NEW v \in Lenders PROVE 0 <= rewards' * lender'[v].deposited
    <3>1. rewards' \in Nat /\ lender'[v].deposited \in Nat
      BY <1>1, <1>3, <1>7, PoolAssumption DEF LenderRecords
    <3>2. QED
      BY <3>1
  <2>4. 0 * pool'.deposited = 0
    BY <1>1, <1>2, <1>5
  <2>5. QED
    BY <2>2, <2>3, <2>4
<1>17. QED
  BY <1>3, <1>4, <1>5, <1>9, <1>10, <1>13, <1>14, <1>15, <1>16 DEF PoolIInv

\* A claim is within the share of its lender, so that those of the others stay available.
LEMMA ClaimKeepsShares ==
  ASSUME PoolIInv, NEW u \in Lenders, NEW amount \in 1 .. MaxRewards, LenderClaim(u, amount)
  PROVE  PoolIInv'
<1> DEFINE mint == pool.redeemable_mint
<1>1. /\ pool \in Pools /\ lender \in [Lenders -> LenderRecords]
      /\ balance \in [Mints -> Nat] /\ rewards \in 0 .. MaxRewards /\ diluted \in BOOLEAN
      /\ Deposits \in [Lenders -> Int] /\ Claims \in [Lenders -> Int]
      /\ amount \in Nat \ {0}
  BY PoolTypes, PoolAssumption DEF PoolIInv, PoolTypeOK
<1>2. /\ pool.deposited \in Nat /\ pool.claimed \in Nat /\ pool.extracted \in Nat /\ rewards \in Nat
      /\ lender[u].claimed \in Nat /\ lender[u].deposited \in Nat
  BY <1>1, PoolAssumption DEF Pools, LenderRecords
<1>3. /\ lender' = [lender EXCEPT ![u].claimed = @ + amount]
      /\ pool' = [pool EXCEPT !.claimed = @ + amount]
      /\ balance' = [balance EXCEPT ![mint] = @ - amount]
      /\ rewards' = rewards /\ diluted' = diluted
      /\ amount <= balance[mint] /\ pool.claiming_enabled /\ pool.deposited # 0
      /\ lender[u].claimed + amount <= Claimable(u)
  BY DEF LenderClaim
<1>4. /\ pool.deposited = SumFunction(Deposits) /\ pool.claimed = SumFunction(Claims)
      /\ balance["reward"] = rewards - Out("reward")
      /\ balance["collateral"] = pool.deposited - pool.extracted - Out("collateral")
      /\ mint \in Mints
  BY <1>3 DEF PoolIInv
<1>5. /\ pool' \in Pools /\ pool'.deposited = pool.deposited
      /\ pool'.claimed = pool.claimed + amount /\ pool'.extracted = pool.extracted
      /\ pool'.claiming_enabled = pool.claiming_enabled /\ pool'.redeemable_mint = mint
  <2>1. pool.claimed + amount \in Nat
    BY <1>1, <1>2
  <2>2. QED
    BY <1>1, <1>3, <2>1 DEF Pools
<1>6. lender' \in [Lenders -> LenderRecords]
  <2>1. [lender[u] EXCEPT !.claimed = @ + amount] \in LenderRecords
    BY <1>1, LenderRecordAfter
  <2>2. QED
    BY <1>1, <1>3, <2>1
<1>7. /\ lender'[u].claimed = lender[u].claimed + amount
      /\ \A v \in Lenders \ {u} : lender'[v] = lender[v]
      /\ \A v \in Lenders : lender'[v].deposited = lender[v].deposited
  BY <1>1, <1>3 DEF LenderRecords
<1>8. balance' \in [Mints -> Nat] /\ balance'[mint] = balance[mint] - amount
      /\ \A m \in Mints \ {mint} : balance'[m] = balance[m]
  <2>1. balance[mint] - amount \in Nat
    BY <1>1, <1>3, <1>4
  <2>2. QED
    BY <1>1, <1>3, <1>4, <2>1
<1>9. PoolTypeOK'
  BY <1>1, <1>3, <1>5, <1>6, <1>8 DEF PoolTypeOK, Pools, LenderRecords
<1>10. Claims' \in [Lenders -> Int] /\ Deposits' = Deposits
       /\ Claims'[u] = Claims[u] + amount /\ \A v \in Lenders \ {u} : Claims[v] = Claims'[v]
  BY <1>6, <1>7, PoolAssumption DEF Deposits, Claims, LenderRecords
<1>11. SumFunction(Claims') = SumFunction(Claims) + amount
  <2>1. SumFunction(Claims') = SumFunction(Claims) + Claims'[u] - Claims[u]
    BY <1>1, <1>10, SumUpdate, PoolAssumption
  <2>2. SumFunction(Claims) \in Int /\ Claims[u] \in Int
    BY <1>1, SumType, PoolAssumption
  <2>3. QED
    BY <1>1, <1>10, <2>1, <2>2
<1>12. pool'.deposited = SumFunction(Deposits') /\ pool'.claimed = SumFunction(Claims')
  BY <1>4, <1>5, <1>10, <1>11
<1>13. balance'["reward"] = rewards' - Out("reward")'
       /\ balance'["collateral"] = pool'.deposited - pool'.extracted - Out("collateral")'
  <2>1. CASE mint = "reward"
    BY <1>1, <1>2, <1>3, <1>4, <1>5, <1>8, <2>1 DEF Out, Mints
  <2>2. CASE mint = "collateral"
    BY <1>1, <1>2, <1>3, <1>4, <1>5, <1>8, <2>2 DEF Out, Mints
  <2>3. QED
    BY <1>4, <2>1, <2>2 DEF Mints
<1>14. ASSUME mint = "reward", ~diluted
       PROVE  \A v \in Lenders : lender'[v].claimed * pool'.deposited <= rewards' * lender'[v].deposited
  <2>1. TotalRepayed = rewards
    BY <1>1, <1>2, <1>4, <1>14 DEF TotalRepayed, Out, Mints
  <2>2. pool.deposited \in Nat \ {0} /\ lender[u].claimed + amount \in Nat
        /\ rewards * lender[u].deposited \in Nat
    BY <1>1, <1>2, <1>3
  <2>3. lender[u].claimed + amount <= (rewards * lender[u].deposited) \div pool.deposited
    BY <1>3, <2>1 DEF Claimable
  <2>4. (lender[u].claimed + amount) * pool.deposited <= rewards * lender[u].deposited
    BY <2>2, <2>3, DivBound
  <2>5. lender'[u].claimed * pool'.deposited <= rewards' * lender'[u].deposited
    BY <1>3, <1>5, <1>7, <2>4
  <2>6. \A v \in Lenders : lender[v].claimed * pool.deposited <= rewards * lender[v].deposited
    BY <1>2, <1>3, <1>14 DEF PoolIInv
  <2>7. QED
    BY <1>3, <1>5, <1>7, <2>5, <2>6
<1>15. QED
  BY <1>3, <1>4, <1>5, <1>9, <1>12, <1>13, <1>14 DEF PoolIInv

\* An action that changes neither the lenders nor the totals keeps the sums.
LEMMA SumsUnchanged ==
  ASSUME UNCHANGED lender
  PROVE  Deposits' = Deposits /\ Claims' = Claims
BY DEF Deposits, Claims

\* Every instruction of the pool keeps it solvent.
LEMMA PoolStep == PoolIInv /\ [PoolNext]_poolVars => PoolIInv'
<1> SUFFICES ASSUME PoolIInv, [PoolNext]_poolVars PROVE PoolIInv'
  OBVIOUS
<1>0. /\ pool \in Pools /\ lender \in [Lenders -> LenderRecords]
      /\ balance \in [Mints -> Nat] /\ rewards \in 0 .. MaxRewards /\ diluted \in BOOLEAN
      /\ pool.deposited \in 0 .. MaxCollateral /\ pool.claimed \in Nat /\ pool.extracted \in 0 .. MaxCollateral
      /\ MaxCollateral \in Nat /\ MaxRewards \in Nat
  BY PoolTypes, PoolAssumption DEF PoolIInv, PoolTypeOK, Pools
<1>1. CASE PoolCreate
  <2>1. pool' = [pool EXCEPT !.created = TRUE] /\ UNCHANGED <<lender, balance, rewards, diluted>>
    BY <1>1 DEF PoolCreate
  <2>2. pool' \in Pools
    BY <1>0, <2>1 DEF Pools
  <2>3. PoolTypeOK'
    BY <1>0, <2>1, <2>2 DEF PoolTypeOK, Pools, LenderRecords
  <2>4. QED
    BY <1>0, <2>1, <2>3, SumsUnchanged DEF PoolIInv, Out, Pools
<1>2. ASSUME NEW max \in {pool.max_deposit, MaxCollateral, MaxCollateral - 1}, NEW freeze \in BOOLEAN,
             PoolUpdate(max, freeze)
      PROVE  PoolIInv'
  <2>1. pool' = [pool EXCEPT !.max_deposit = max, !.freeze = freeze]
        /\ UNCHANGED <<lender, balance, rewards, diluted>>
    BY <1>2 DEF PoolUpdate
  <2>2. max \in 0 .. MaxCollateral
    BY <1>0, PoolAssumption DEF Pools
  <2>3. pool' \in Pools
    BY <1>0, <2>1, <2>2 DEF Pools
  <2>4. PoolTypeOK'
    BY <1>0, <2>1, <2>3 DEF PoolTypeOK, Pools, LenderRecords
  <2>5. QED
    BY <1>0, <2>1, <2>4, SumsUnchanged DEF PoolIInv, Out, Pools
<1>3. ASSUME NEW m \in Mints, PoolClaimable(m) PROVE PoolIInv'
  <2>1. pool' = [pool EXCEPT !.claiming_enabled = TRUE, !.redeemable_mint = m, !.claimed = 0]
        /\ UNCHANGED <<lender, balance, rewards, diluted>> /\ ~pool.claiming_enabled
    BY <1>3 DEF PoolClaimable
  <2>2. /\ pool' \in Pools /\ pool'.claimed = 0 /\ pool'.redeemable_mint = m /\ pool'.claiming_enabled
        /\ pool'.deposited = pool.deposited /\ pool'.extracted = pool.extracted
    BY <1>0, <2>1 DEF Pools, Mints
  <2>3. PoolTypeOK'
    BY <1>0, <2>1, <2>2 DEF PoolTypeOK, Pools, LenderRecords
  <2>4. pool.claimed = 0 /\ pool.claimed = SumFunction(Claims) /\ pool.redeemable_mint = "default"
    BY <2>1 DEF PoolIInv
  <2>5. \A u \in Lenders : lender'[u].claimed * pool'.deposited <= rewards' * lender'[u].deposited
    <3> TAKE u \in Lenders
    <3>1. Claims[u] <= SumFunction(Claims) /\ Claims[u] \in Nat
      BY PoolTypes, SumBounds, PoolAssumption DEF PoolIInv
    <3>2. lender'[u].claimed = 0
      BY <2>1, <2>4, <3>1 DEF Claims
    <3>3. pool'.deposited \in Nat /\ rewards' \in Nat /\ lender'[u].deposited \in Nat
      BY <1>0, <2>1, <2>2 DEF LenderRecords
    <3>4. QED
      BY <3>2, <3>3
  <2>6. Out("reward")' = Out("reward") /\ Out("collateral")' = Out("collateral")
    BY <2>2, <2>4 DEF Out
  <2>7. Deposits' = Deposits /\ Claims' = Claims
    BY <2>1, SumsUnchanged
  <2>8. QED
    BY <2>1, <2>2, <2>3, <2>4, <2>5, <2>6, <2>7 DEF PoolIInv
<1>4. ASSUME NEW amount \in 1 .. MaxCollateral, PoolExtract(amount) PROVE PoolIInv'
  <2>1. /\ pool' = [pool EXCEPT !.extracted = @ + amount]
        /\ balance' = [balance EXCEPT !["collateral"] = @ - amount]
        /\ UNCHANGED <<lender, rewards, diluted>> /\ amount <= balance["collateral"]
    BY <1>4 DEF PoolExtract
  <2>2. Out("collateral") \in Nat /\ balance["collateral"] = pool.deposited - pool.extracted - Out("collateral")
    BY <1>0 DEF Out, PoolIInv
  <2>3. pool.extracted + amount \in 0 .. MaxCollateral /\ balance["collateral"] - amount \in Nat
    BY <1>0, <2>1, <2>2 DEF Mints
  <2>4. /\ pool' \in Pools /\ pool'.extracted = pool.extracted + amount
        /\ pool'.claimed = pool.claimed /\ pool'.redeemable_mint = pool.redeemable_mint
        /\ pool'.deposited = pool.deposited /\ pool'.claiming_enabled = pool.claiming_enabled
    BY <1>0, <2>1, <2>3 DEF Pools
  <2>5. balance' \in [Mints -> Nat] /\ balance'["collateral"] = balance["collateral"] - amount
        /\ balance'["reward"] = balance["reward"]
    BY <1>0, <2>1, <2>3 DEF Mints
  <2>6. PoolTypeOK'
    BY <1>0, <2>1, <2>4, <2>5 DEF PoolTypeOK, Pools, LenderRecords
  <2>7. Out("reward")' = Out("reward") /\ Out("collateral")' = Out("collateral")
    BY <2>4 DEF Out
  <2>8. balance'["collateral"] = pool'.deposited - pool'.extracted - Out("collateral")'
    BY <1>0, <2>2, <2>4, <2>5, <2>7
  <2>9. Deposits' = Deposits /\ Claims' = Claims
    BY <2>1, SumsUnchanged
  <2>10. QED
    BY <2>1, <2>4, <2>5, <2>6, <2>7, <2>8, <2>9 DEF PoolIInv
<1>5. CASE Repay
  <2>1. /\ rewards' = rewards + 1 /\ rewards < MaxRewards
        /\ balance' = [balance EXCEPT !["reward"] = @ + 1]
        /\ UNCHANGED <<pool, lender, diluted>>
    BY <1>5 DEF Repay
  <2>2. balance' \in [Mints -> Nat] /\ balance'["reward"] = balance["reward"] + 1
        /\ balance'["collateral"] = balance["collateral"]
    BY <1>0, <2>1 DEF Mints
  <2>3. rewards' \in 0 .. MaxRewards
    BY <1>0, <2>1
  <2>4. PoolTypeOK'
    BY <1>0, <2>1, <2>2, <2>3 DEF PoolTypeOK, Pools, LenderRecords
  <2>5. Out("reward")' = Out("reward") /\ Out("collateral")' = Out("collateral") /\ Out("reward") \in Nat
    BY <1>0, <2>1 DEF Out
  <2>6. balance'["reward"] = rewards' - Out("reward")'
    BY <1>0, <2>1, <2>2, <2>5 DEF PoolIInv
  <2>7. ASSUME NEW u \in Lenders, lender[u].claimed * pool.deposited <= rewards * lender[u].deposited
        PROVE  lender'[u].claimed * pool'.deposited <= rewards' * lender'[u].deposited
    <3>1. lender[u].claimed \in Nat /\ lender[u].deposited \in Nat
      BY <1>0 DEF LenderRecords
    <3>2. \A r \in Nat, d \in Nat : r * d <= (r + 1) * d
      OBVIOUS
    <3>3. rewards * lender[u].deposited <= (rewards + 1) * lender[u].deposited
      BY <1>0, <3>1, <3>2
    <3>4. \A x, y, z \in Int : x <= y /\ y <= z => x <= z
      OBVIOUS
    <3>5. lender[u].claimed * pool.deposited \in Int /\ rewards * lender[u].deposited \in Int
          /\ (rewards + 1) * lender[u].deposited \in Int
      BY <1>0, <3>1
    <3>6. QED
      BY <2>1, <2>7, <3>3, <3>4, <3>5
  <2>8. Deposits' = Deposits /\ Claims' = Claims
    BY <2>1, SumsUnchanged
  <2>9. QED
    BY <2>1, <2>2, <2>4, <2>5, <2>6, <2>7, <2>8 DEF PoolIInv
<1>6. ASSUME NEW u \in Lenders, LenderCreate(u) PROVE PoolIInv'
  <2>1. lender' = [lender EXCEPT ![u].created = TRUE] /\ UNCHANGED <<pool, balance, rewards, diluted>>
    BY <1>6 DEF LenderCreate
  <2>2. [lender[u] EXCEPT !.created = TRUE] \in LenderRecords
    BY <1>0, LenderRecordAfter
  <2>3. lender' \in [Lenders -> LenderRecords]
    BY <1>0, <2>1, <2>2
  <2>4. \A v \in Lenders : lender'[v].deposited = lender[v].deposited
                        /\ lender'[v].claimed = lender[v].claimed
    BY <1>0, <2>1 DEF LenderRecords
  <2>5. Deposits' = Deposits /\ Claims' = Claims
    BY <2>4 DEF Deposits, Claims
  <2>6. PoolTypeOK'
    BY <1>0, <2>1, <2>3 DEF PoolTypeOK, Pools, LenderRecords
  <2>7. QED
    BY <2>1, <2>4, <2>5, <2>6 DEF PoolIInv, Out
<1>7. ASSUME NEW u \in Lenders, NEW amount \in 1 .. MaxCollateral, LenderDeposit(u, amount)
      PROVE  PoolIInv'
  BY <1>7, DepositKeepsBooks
<1>8. ASSUME NEW u \in Lenders, NEW amount \in 1 .. MaxRewards, LenderClaim(u, amount)
      PROVE  PoolIInv'
  BY <1>8, ClaimKeepsShares
<1>9. CASE UNCHANGED poolVars
  BY <1>9, SumsUnchanged DEF poolVars, PoolIInv, PoolTypeOK, Out
<1>10. QED
  BY <1>1, <1>2, <1>3, <1>4, <1>5, <1>6, <1>7, <1>8, <1>9 DEF PoolNext

\* For any lenders, limits and rewards: the books of the pool balance, and what is left
\* of all shares can be paid at once from the account of the rewards, although the
\* shares are rounded and the lenders claim in any order, unless someone has deposited
\* after a claim (lender_deposit, lender_claim, pool_extract, pool_claimable).
THEOREM PoolStaysSolvent == PoolSpec => []PoolSolvent
<1>1. PoolIInv => PoolSolvent
  BY SharesFit
<1>2. QED
  BY <1>1, PoolInitially, PoolStep, PTL DEF PoolSpec

-----------------------------------------------------------------------------
(* The authorizer. *)

\* The inductive invariant: an open authorization was updated when it was last taken
\* back, or later.
AuthorizerIInv ==
  /\ AuthorizerTypeOK
  /\ clock >= CloseDelay
  /\ \A g \in Keys : revoked[g] <= clock
  /\ \A g \in Keys : authorization[g].open => revoked[g] <= authorization[g].updated

\* Nothing is granted at first.
LEMMA AuthorizerInitially == AuthorizerInit => AuthorizerIInv
BY AuthorizerAssumption
   DEF AuthorizerInit, AuthorizerIInv, AuthorizerTypeOK, NoAuthorization, Authorization

\* Every instruction of the authorizer keeps what delegates may rely on.
LEMMA AuthorizerStep == AuthorizerIInv /\ [AuthorizerNext]_authorizerVars => AuthorizerIInv'
<1> SUFFICES ASSUME AuthorizerIInv, [AuthorizerNext]_authorizerVars PROVE AuthorizerIInv'
  OBVIOUS
<1> USE AuthorizerAssumption DEF AuthorizerIInv
<1>1. ASSUME NEW g \in Keys, AuthorizationCreate(g) PROVE AuthorizerIInv'
  <2> DEFINE new == [NoAuthorization EXCEPT !.open = TRUE]
  <2>1. new \in Authorization /\ new.delegates = <<>> /\ new.updated = 0
    <3>1. NoAuthorization \in Authorization
      BY DEF NoAuthorization, Authorization
    <3>2. new \in Authorization
      BY <3>1 DEF Authorization
    <3>3. new.delegates = <<>> /\ new.updated = 0
      BY DEF NoAuthorization
    <3>4. QED
      BY <3>2, <3>3
  <2> HIDE DEF new
  <2>2. authorization' = [authorization EXCEPT ![g] = new] /\ UNCHANGED clock
        /\ revoked' = [revoked EXCEPT ![g] = 0]
    BY <1>1 DEF AuthorizationCreate, new
  <2>3. QED
    BY <2>1, <2>2 DEF AuthorizerTypeOK
<1>2. ASSUME NEW g \in Keys, AuthorizationClose(g) PROVE AuthorizerIInv'
  <2>1. NoAuthorization \in Authorization /\ NoAuthorization.delegates = <<>>
        /\ ~NoAuthorization.open
    BY DEF NoAuthorization, Authorization
  <2>2. QED
    BY <1>2, <2>1 DEF AuthorizationClose, AuthorizerTypeOK
<1>3. ASSUME NEW g \in Keys, NEW on \in BOOLEAN, AuthorizationGrantorUpdate(g, on)
      PROVE AuthorizerIInv'
  <2> DEFINE new == GrantorUpdated(authorization[g], on)
  <2>1. new \in Authorization /\ new.updated = clock /\ new.open
        /\ new.delegates = authorization[g].delegates
    BY <1>3 DEF GrantorUpdated, Authorization, AuthorizerTypeOK, AuthorizationGrantorUpdate
  <2> HIDE DEF new
  <2>2. authorization' = [authorization EXCEPT ![g] = new] /\ UNCHANGED clock
        /\ revoked' = [revoked EXCEPT ![g] = IF authorization[g].active THEN clock ELSE @]
        /\ authorization[g].open
    BY <1>3 DEF AuthorizationGrantorUpdate, new
  <2>3. revoked[g] <= clock /\ revoked[g] \in Int /\ clock \in Int
    BY DEF AuthorizerTypeOK
  <2>4. revoked' \in [Keys -> 0 .. MaxClock] /\ revoked'[g] <= clock
        /\ \A k \in Keys \ {g} : revoked'[k] = revoked[k]
    BY <2>2, <2>3 DEF AuthorizerTypeOK
  <2>5. QED
    BY <2>1, <2>2, <2>4 DEF AuthorizerTypeOK
<1>4. ASSUME NEW g \in Keys, NEW clear \in BOOLEAN,
             NEW added \in {<<>>} \union {<<d>> : d \in Delegates},
             AuthorizationGranteeUpdate(g, clear, added)
      PROVE AuthorizerIInv'
  <2> DEFINE new == GranteeUpdated(authorization[g], clear, added)
  <2>1. new \in Authorization /\ new.updated = authorization[g].updated
        /\ new.open = authorization[g].open
    <3>1. added \in Seq(Delegates) /\ authorization[g] \in Authorization
      <4>1. CASE added = <<>>
        BY <4>1 DEF AuthorizerTypeOK
      <4>2. ASSUME NEW d \in Delegates, added = <<d>> PROVE added \in Seq(Delegates)
        BY <4>2
      <4>3. QED
        BY <4>1, <4>2 DEF AuthorizerTypeOK
    <3>2. (IF clear THEN <<>> ELSE authorization[g].delegates) \o added \in Seq(Delegates)
      BY <3>1 DEF Authorization
    <3>3. QED
      BY <3>1, <3>2 DEF GranteeUpdated, Authorization
  <2>2. Len(new.delegates) <= MaxDelegates
        /\ authorization' = [authorization EXCEPT ![g] = new] /\ UNCHANGED <<clock, revoked>>
    BY <1>4 DEF AuthorizationGranteeUpdate
  <2> HIDE DEF new
  <2>3. QED
    BY <2>1, <2>2 DEF AuthorizerTypeOK
<1>5. CASE ClockTicks
  BY <1>5 DEF ClockTicks, AuthorizerTypeOK
<1>6. CASE UNCHANGED authorizerVars
  BY <1>6 DEF authorizerVars, AuthorizerTypeOK
<1>7. QED
  BY <1>1, <1>2, <1>3, <1>4, <1>5, <1>6 DEF AuthorizerNext

\* Only authorization_close closes an account, and it looks at the last update.
LEMMA ClosedInTime ==
  ASSUME AuthorizerIInv, [AuthorizerNext]_authorizerVars
  PROVE  \A g \in Keys :
            authorization[g].open /\ ~authorization'[g].open /\ authorization[g].delegates # <<>>
               => clock >= revoked[g] + CloseDelay
<1> SUFFICES ASSUME NEW g \in Keys, authorization[g].open, ~authorization'[g].open,
                    authorization[g].delegates # <<>>
             PROVE  clock >= revoked[g] + CloseDelay
  OBVIOUS
<1>1. authorization \in [Keys -> Authorization]
  BY DEF AuthorizerIInv, AuthorizerTypeOK
<1>2. AuthorizationClose(g)
  <2>1. ASSUME NEW k \in Keys, AuthorizationCreate(k) PROVE FALSE
    BY <1>1, <2>1 DEF AuthorizationCreate, NoAuthorization
  <2>2. ASSUME NEW k \in Keys, AuthorizationClose(k) PROVE k = g
    BY <1>1, <2>2 DEF AuthorizationClose
  <2>3. ASSUME NEW k \in Keys, NEW on \in BOOLEAN, AuthorizationGrantorUpdate(k, on)
        PROVE  FALSE
    BY <1>1, <2>3 DEF AuthorizationGrantorUpdate, GrantorUpdated
  <2>4. ASSUME NEW k \in Keys, NEW clear \in BOOLEAN,
               NEW added \in {<<>>} \union {<<d>> : d \in Delegates},
               AuthorizationGranteeUpdate(k, clear, added)
        PROVE  FALSE
    <3>1. authorization' = [authorization EXCEPT ![k] = GranteeUpdated(@, clear, added)]
      BY <2>4 DEF AuthorizationGranteeUpdate
    <3>2. GranteeUpdated(authorization[k], clear, added).open = authorization[k].open
      BY <1>1 DEF GranteeUpdated, Authorization
    <3>3. QED
      BY <1>1, <3>1, <3>2
  <2>5. ~ClockTicks /\ ~UNCHANGED authorizerVars
    BY DEF ClockTicks, authorizerVars
  <2>6. QED
    BY <2>1, <2>2, <2>3, <2>4, <2>5 DEF AuthorizerNext
<1>3. clock >= authorization[g].updated + CloseDelay
  BY <1>2 DEF AuthorizationClose
<1>4. revoked[g] <= authorization[g].updated
  BY DEF AuthorizerIInv
<1>5. clock \in Int /\ revoked[g] \in Int /\ authorization[g].updated \in Int /\ CloseDelay \in Int
  BY <1>1, AuthorizerAssumption DEF AuthorizerIInv, AuthorizerTypeOK, Authorization
<1>6. QED
  BY <1>3, <1>4, <1>5

\* For any grantees and delegates: whatever the grantor and the grantee update in
\* between, the delegates of an authorization are not closed away before CloseDelay has
\* passed since it was last active (authorization_close).
THEOREM DelegatesKeptInTime == AuthorizerSpec => AuthorizerCorrect
<1>1. AuthorizerIInv => AuthorizerTypeOK
  BY DEF AuthorizerIInv
<1>2. AuthorizerSpec => []AuthorizerIInv
  BY AuthorizerInitially, AuthorizerStep, PTL DEF AuthorizerSpec
<1>3. AuthorizerSpec => DelegatesOutliveRevocation
  BY <1>2, ClosedInTime, PTL DEF AuthorizerSpec, DelegatesOutliveRevocation
<1>4. QED
  BY <1>1, <1>2, <1>3, PTL DEF AuthorizerCorrect

-----------------------------------------------------------------------------
(* The client of the Solana coordinator. *)

\* The account with nonce n asks for members.
AsksForMembers(n) == account[n].run_state = "WaitingForMembers"

\* The channel holds some nonces up to the last one, in order.
ChannelInOrder ==
  /\ UpdatesInOrder
  /\ Len(sent) <= last_nonce /\ last_nonce <= Now
  /\ \A i \in DOMAIN sent : sent[i] <= last_nonce
  /\ \A s \in Subscriptions : cursor[s] <= Now
  /\ app.start <= Now /\ app.first <= app.read /\ app.read <= Len(sent)

\* A member that has joined stays one as long as members gather.
PendingLasts ==
  \A m, n \in 1 .. Now :
    /\ m <= n
    /\ account[m].pending
    /\ \A k \in m .. n : AsksForMembers(k)
    => account[n].pending

\* joined_run_this_epoch: there was a join, and no account that the app has read since
\* is one of a run that has started.
JoinRemembered ==
  app.pc \in {"subscribe", "loop"} /\ app.joined =>
    \E m \in 1 .. Now :
       /\ app.start <= m
       /\ account[m].pending
       /\ m = app.start => AsksForMembers(m)
       /\ \A i \in app.first + 1 .. app.read : m <= sent[i] => AsksForMembers(sent[i])

\* An app that has not joined has read last that the run does not ask for members.
NoJoinMissing ==
  /\ app.pc \in {"backend", "boot"} => ~app.joined
  /\ app.pc = "loop" /\ ~app.joined /\ app.first < app.read => ~AsksForMembers(sent[app.read])

SolanaClientIInv ==
  /\ SolanaClientTypeOK
  /\ ChannelInOrder
  /\ PendingLasts
  /\ JoinRemembered
  /\ NoJoinMissing

AppStates ==
  [pc : {"backend", "boot", "bootJoining", "subscribe", "loop", "joining", "ended"},
   attempts : 0 .. SendRetries - 1, joined : BOOLEAN, ever : BOOLEAN,
   start : 0 .. MaxNonce, latest : 0 .. MaxNonce, first : 0 .. MaxNonce, read : 0 .. MaxNonce]

\* What the assumption says of the bounds of the client.
LEMMA ClientNumbers == {MaxNonce, ChannelCapacity, SendRetries} \subseteq Nat /\ MaxNonce >= 1 /\ SendRetries >= 1
                       /\ {NodeLag, MaxReconnects} \subseteq Nat
BY SolanaClientAssumption

\* The numbers of the client are numbers.
LEMMA ClientTypes ==
  ASSUME SolanaClientTypeOK
  PROVE  /\ account \in Seq(ChainStates) /\ Now = Len(account)
         /\ Now \in Nat /\ 1 <= Now /\ Now <= MaxNonce
         /\ last_nonce \in Nat /\ last_nonce <= MaxNonce
         /\ sent \in Seq(1 .. MaxNonce) /\ Len(sent) \in Nat
         /\ \A i \in 1 .. Len(sent) : sent[i] \in Nat /\ 1 <= sent[i] /\ sent[i] <= MaxNonce
         /\ \A s \in Subscriptions : cursor[s] \in Int
         /\ app \in AppStates
         /\ app.start \in Nat /\ app.latest \in Nat /\ app.first \in Nat /\ app.read \in Nat
<1>1. account \in Seq(ChainStates) /\ Now \in 1 .. MaxNonce
  BY DEF SolanaClientTypeOK
<1>2. last_nonce \in 0 .. MaxNonce /\ sent \in Seq(1 .. MaxNonce) /\ cursor \in [Subscriptions -> -1 .. MaxNonce]
  BY DEF SolanaClientTypeOK
<1>3. app \in AppStates
  BY DEF SolanaClientTypeOK, AppStates
<1>4. /\ app.start \in 0 .. MaxNonce /\ app.latest \in 0 .. MaxNonce
      /\ app.first \in 0 .. MaxNonce /\ app.read \in 0 .. MaxNonce
  BY <1>3 DEF AppStates
<1>5. /\ app.start \in Nat /\ app.latest \in Nat /\ app.first \in Nat /\ app.read \in Nat
  BY <1>4, ClientNumbers
<1>6. Now \in Nat /\ 1 <= Now /\ Now <= MaxNonce /\ last_nonce \in Nat /\ last_nonce <= MaxNonce
  BY <1>1, <1>2, ClientNumbers
<1>7. Len(sent) \in Nat /\ \A i \in 1 .. Len(sent) : sent[i] \in 1 .. MaxNonce
  BY <1>2, Elements
<1>8. \A s \in Subscriptions : cursor[s] \in Int
  BY <1>2, ClientNumbers
<1>9. QED
  BY SMTT(30), <1>1, <1>2, <1>3, <1>5, <1>6, <1>7, <1>8, ClientNumbers DEF Now

\* The client starts with what it has fetched of the account, joined or not.
LEMMA SolanaClientInitially == SolanaClientInit => SolanaClientIInv
<1> SUFFICES ASSUME SolanaClientInit PROVE SolanaClientIInv
  OBVIOUS
<1>0. \/ app = [pc |-> "backend", attempts |-> 0, joined |-> FALSE, ever |-> FALSE,
                start |-> 0, latest |-> 0, first |-> 0, read |-> 0]
      \/ app = [pc |-> "loop", attempts |-> 0, joined |-> TRUE, ever |-> TRUE,
                start |-> 1, latest |-> 1, first |-> 0, read |-> 0]
  BY Zenon DEF SolanaClientInit
<1>1. \E a \in ChainStates : account = <<a>>
  BY DEF SolanaClientInit, ChainState, ChainStates
<1>2. account \in Seq(ChainStates) /\ Now = 1
  BY <1>1 DEF Now
<1>3. app \in AppStates
  <2>1. 0 \in 0 .. SendRetries - 1 /\ 0 \in 0 .. MaxNonce /\ 1 \in 0 .. MaxNonce
    BY ClientNumbers
  <2>2. CASE app = [pc |-> "backend", attempts |-> 0, joined |-> FALSE, ever |-> FALSE,
                    start |-> 0, latest |-> 0, first |-> 0, read |-> 0]
    BY <2>1, <2>2 DEF AppStates
  <2>3. CASE app = [pc |-> "loop", attempts |-> 0, joined |-> TRUE, ever |-> TRUE,
                    start |-> 1, latest |-> 1, first |-> 0, read |-> 0]
    BY <2>1, <2>3 DEF AppStates
  <2>4. QED
    BY <1>0, <2>2, <2>3
<1>4. SolanaClientTypeOK
  <2>1. 0 \in 0 .. MaxReconnects /\ 0 \in 0 .. MaxNonce /\ -1 \in -1 .. MaxNonce /\ Now \in 1 .. MaxNonce
    BY <1>2, ClientNumbers
  <2>2. cursor \in [Subscriptions -> -1 .. MaxNonce] /\ reconnects \in 0 .. MaxReconnects
        /\ last_nonce \in 0 .. MaxNonce
    BY <2>1 DEF SolanaClientInit
  <2>3. sent \in Seq(1 .. MaxNonce) /\ Len(sent) <= MaxNonce
    BY ClientNumbers DEF SolanaClientInit
  <2>4. QED
    BY <1>2, <1>3, <2>1, <2>2, <2>3 DEF SolanaClientTypeOK, AppStates
<1>5. ChannelInOrder
  <2>1. Len(sent) = 0 /\ last_nonce = 0 /\ sent = <<>> /\ \A s \in Subscriptions : cursor[s] = -1
    BY DEF SolanaClientInit
  <2>2. app.start \in {0, 1} /\ app.first = 0 /\ app.read = 0
    BY <1>0
  <2>3. QED
    BY <1>2, <2>1, <2>2 DEF ChannelInOrder, UpdatesInOrder
<1>6. PendingLasts
  BY <1>2 DEF PendingLasts
<1>7. JoinRemembered
  BY <1>2 DEF SolanaClientInit, JoinRemembered, AsksForMembers, ChainState
<1>8. NoJoinMissing
  <2>1. app.first = app.read /\ (app.pc \in {"backend", "boot"} => ~app.joined) /\ app.read = 0
    BY <1>0
  <2>2. QED
    BY <2>1 DEF NoJoinMissing
<1>9. QED
  BY <1>4, <1>5, <1>6, <1>7, <1>8 DEF SolanaClientIInv

\* What an instruction adds to the account: a join that is pending is not forgotten
\* between two accounts that ask for members.
LEMMA AccountGrows ==
  ASSUME SolanaClientIInv, NEW new \in ChainStates, Change(new),
         /\ Last(account).pending
         /\ Last(account).run_state = "WaitingForMembers"
         /\ new.run_state = "WaitingForMembers"
         => new.pending
  PROVE  /\ account' \in Seq(ChainStates)
         /\ Now' = Now + 1
         /\ Now' \in 1 .. MaxNonce
         /\ \A n \in 1 .. Now : account'[n] = account[n]
         /\ account'[Now + 1] = new
         /\ PendingLasts'
<1>1. Now \in Nat /\ 1 <= Now /\ Now < MaxNonce
  BY ClientTypes DEF SolanaClientIInv, Change
<1>0. account \in Seq(ChainStates) /\ account' = Append(account, new)
  BY ClientTypes DEF SolanaClientIInv, Change
<1>2. /\ account' \in Seq(ChainStates)
      /\ Now' = Now + 1
      /\ \A n \in 1 .. Now : account'[n] = account[n]
      /\ account'[Now + 1] = new
  BY <1>0 DEF Now
<1>3. Now' \in 1 .. MaxNonce
  BY <1>1, <1>2, ClientNumbers
<1>4. PendingLasts'
  <2> SUFFICES ASSUME NEW m \in 1 .. Now + 1, NEW n \in 1 .. Now + 1, m <= n, account'[m].pending,
                      \A k \in m .. n : account'[k].run_state = "WaitingForMembers"
               PROVE  account'[n].pending
    BY <1>2 DEF PendingLasts, AsksForMembers
  <2>1. CASE n <= Now
    <3>1. m \in 1 .. Now /\ n \in 1 .. Now /\ account[m].pending
      BY <1>1, <1>2, <2>1
    <3>2. \A k \in m .. n : AsksForMembers(k)
      BY <1>1, <1>2, <2>1 DEF AsksForMembers
    <3>3. account[n].pending
      BY <3>1, <3>2 DEF SolanaClientIInv, PendingLasts
    <3>4. QED
      BY <1>2, <3>1, <3>3
  <2>2. CASE n = Now + 1 /\ m = n
    BY <2>2
  <2>3. CASE n = Now + 1 /\ m <= Now
    <3>1. m \in 1 .. Now /\ account[m].pending
      BY <1>1, <1>2, <2>3
    <3>2. \A k \in m .. Now : AsksForMembers(k)
      BY <1>1, <1>2, <2>3 DEF AsksForMembers
    <3>3. account[Now].pending /\ account[Now].run_state = "WaitingForMembers"
      BY <1>1, <3>1, <3>2 DEF SolanaClientIInv, PendingLasts, AsksForMembers
    <3>4. new.run_state = "WaitingForMembers"
      BY <1>1, <1>2, <2>3
    <3>5. Last(account) = account[Now]
      BY DEF Last, Now
    <3>6. QED
      BY <1>2, <2>3, <3>3, <3>4, <3>5
  <2>4. QED
    BY <1>1, <2>1, <2>2, <2>3
<1>5. QED
  BY <1>2, <1>3, <1>4

\* The account as it was is all that the client has seen of it.
LEMMA GrowingKeeps ==
  ASSUME SolanaClientIInv, NEW new \in ChainStates, Change(new),
         /\ Last(account).pending
         /\ Last(account).run_state = "WaitingForMembers"
         /\ new.run_state = "WaitingForMembers"
         => new.pending,
         UNCHANGED <<cursor, reconnects, last_nonce, sent, app>>
  PROVE  SolanaClientIInv'
<1>1. /\ account' \in Seq(ChainStates)
      /\ Now' = Now + 1
      /\ Now' \in 1 .. MaxNonce
      /\ \A n \in 1 .. Now : account'[n] = account[n]
      /\ account'[Now + 1] = new
      /\ PendingLasts'
  BY AccountGrows
<1>2. SolanaClientTypeOK'
  BY <1>1 DEF SolanaClientIInv, SolanaClientTypeOK
<1>3. /\ Now \in Nat /\ last_nonce \in Nat /\ Len(sent) \in Nat
      /\ \A i \in 1 .. Len(sent) : sent[i] \in Nat /\ 1 <= sent[i]
      /\ \A s \in Subscriptions : cursor[s] \in Int
      /\ app.start \in Nat /\ app.first \in Nat /\ app.read \in Nat
  BY ClientTypes DEF SolanaClientIInv
<1>4. ChannelInOrder'
  BY <1>1, <1>3 DEF SolanaClientIInv, ChannelInOrder, UpdatesInOrder
<1>5. \A i \in 1 .. Len(sent) : sent[i] \in 1 .. Now
  <2>1. \A i \in 1 .. Len(sent) : sent[i] <= last_nonce
    BY ClientTypes DEF SolanaClientIInv, ChannelInOrder
  <2>2. QED
    BY <1>3, <2>1 DEF SolanaClientIInv, ChannelInOrder
<1>6. JoinRemembered'
  <2> SUFFICES ASSUME app.pc \in {"subscribe", "loop"}, app.joined PROVE JoinRemembered'
    BY DEF JoinRemembered
  <2>1. PICK m \in 1 .. Now :
         /\ app.start <= m
         /\ account[m].pending
         /\ m = app.start => AsksForMembers(m)
         /\ \A i \in app.first + 1 .. app.read : m <= sent[i] => AsksForMembers(sent[i])
    BY DEF SolanaClientIInv, JoinRemembered
  <2>2. m \in 1 .. Now' /\ account'[m] = account[m]
    BY <1>1, <1>3
  <2>3. \A i \in app.first + 1 .. app.read : i \in 1 .. Len(sent)
    BY <1>3 DEF SolanaClientIInv, ChannelInOrder
  <2>4. \A i \in app.first + 1 .. app.read : account'[sent[i]] = account[sent[i]]
    BY <1>1, <1>5, <2>3
  <2>5. QED
    BY <2>1, <2>2, <2>4 DEF JoinRemembered, AsksForMembers
<1>7. NoJoinMissing'
  <2>1. ASSUME app.pc = "loop", ~app.joined, app.first < app.read
        PROVE  account'[sent[app.read]].run_state # "WaitingForMembers"
    <3>1. app.read \in 1 .. Len(sent)
      BY <1>3, <2>1 DEF SolanaClientIInv, ChannelInOrder
    <3>2. account'[sent[app.read]] = account[sent[app.read]]
      BY <1>1, <1>5, <3>1
    <3>3. QED
      BY <2>1, <3>2 DEF SolanaClientIInv, NoJoinMissing, AsksForMembers
  <2>2. QED
    BY <2>1 DEF SolanaClientIInv, NoJoinMissing, AsksForMembers
<1>8. QED
  BY <1>1, <1>2, <1>4, <1>6, <1>7 DEF SolanaClientIInv

\* What is left to show of a step that neither sends nor receives a notification.
LEMMA ClientStepKeeps ==
  ASSUME SolanaClientIInv, UNCHANGED <<cursor, reconnects, last_nonce, sent>>,
         account' \in Seq(ChainStates), Now' \in 1 .. MaxNonce, Now <= Now', PendingLasts',
         app' \in AppStates, app'.start <= Now', app'.first <= app'.read, app'.read <= Len(sent),
         JoinRemembered', NoJoinMissing'
  PROVE  SolanaClientIInv'
<1>1. SolanaClientTypeOK'
  BY DEF SolanaClientIInv, SolanaClientTypeOK, AppStates
<1>2. Now \in Nat /\ last_nonce \in Nat /\ \A s \in Subscriptions : cursor[s] \in Int
  BY ClientTypes DEF SolanaClientIInv
<1>3. Now' \in Nat
  BY ClientNumbers
<1>4. last_nonce <= Now' /\ \A s \in Subscriptions : cursor[s] <= Now'
  BY <1>2, <1>3 DEF SolanaClientIInv, ChannelInOrder
<1>5. ChannelInOrder'
  BY <1>4 DEF SolanaClientIInv, ChannelInOrder, UpdatesInOrder
<1>6. QED
  BY <1>1, <1>5 DEF SolanaClientIInv

\* An app that ends, or tries again, has read as much as before.
LEMMA AppKeeps ==
  ASSUME SolanaClientIInv, UNCHANGED <<account, cursor, reconnects, last_nonce, sent>>,
         app' \in AppStates,
         /\ app'.start = app.start /\ app'.first = app.first /\ app'.read = app.read
         /\ app'.pc \notin {"subscribe", "loop", "backend"} /\ (app'.pc = "boot" => ~app'.joined)
  PROVE  SolanaClientIInv'
<1>1. JoinRemembered' /\ NoJoinMissing'
  BY DEF JoinRemembered, NoJoinMissing
<1>2. Now' = Now /\ PendingLasts' /\ app.start <= Now
  BY DEF SolanaClientIInv, PendingLasts, Now, AsksForMembers, ChannelInOrder
<1>3. account' \in Seq(ChainStates) /\ Now \in 1 .. MaxNonce /\ Now <= Now
  BY ClientTypes DEF SolanaClientIInv
<1>4. app.first <= app.read /\ app.read <= Len(sent)
  BY DEF SolanaClientIInv, ChannelInOrder
<1>5. QED
  BY <1>1, <1>2, <1>3, <1>4, ClientStepKeeps

\* The account moves on while the client looks elsewhere.
LEMMA ChainMovesKeep ==
  ASSUME SolanaClientIInv, ChainMoves
  PROVE  SolanaClientIInv'
<1> DEFINE a == Last(account)
<1>1. Now \in Nat /\ 1 <= Now /\ account \in Seq(ChainStates) /\ Now = Len(account)
  BY ClientTypes DEF SolanaClientIInv
<1>2. a \in ChainStates
  BY <1>1, Elements DEF Last
<1> HIDE DEF a
<1> DEFINE Kept(new) ==
         /\ new \in ChainStates
         /\ a.pending /\ a.run_state = "WaitingForMembers" /\ new.run_state = "WaitingForMembers"
            => new.pending
<1>3. PICK new : Change(new) /\ Kept(new)
  <2>1. Kept([a EXCEPT !.run_state = "Warmup", !.me = IF a.pending THEN "Healthy" ELSE "absent"])
    BY <1>2 DEF ChainStates
  <2>2. Kept([a EXCEPT !.run_state = "RoundTrain", !.pending = FALSE])
    BY <1>2 DEF ChainStates
  <2>3. a.run_state \in {"Warmup", "RoundTrain"} => Kept([a EXCEPT !.run_state = "WaitingForMembers"])
    BY <1>2 DEF ChainStates
  <2>4. a.run_state = "RoundTrain" => Kept([a EXCEPT !.me = "Unhealthy"])
    BY <1>2 DEF ChainStates
  <2>5. Kept([a EXCEPT !.run_state = "Paused"])
    BY <1>2 DEF ChainStates
  <2>6. a.run_state = "Paused" => Kept([a EXCEPT !.version = 2])
    BY <1>2 DEF ChainStates
  <2>7. a.run_state = "Paused" => Kept([a EXCEPT !.run_state = "WaitingForMembers", !.pending = FALSE])
    BY <1>2 DEF ChainStates
  <2> HIDE DEF Kept
  <2>8. QED
    BY <2>1, <2>2, <2>3, <2>4, <2>5, <2>6, <2>7 DEF ChainMoves, a
<1>4. UNCHANGED <<cursor, reconnects, last_nonce, sent, app>>
  BY DEF ChainMoves
<1>5. QED
  BY <1>3, <1>4, GrowingKeeps DEF a

\* A task that passes on what is newer, and nothing else, keeps the order.
LEMMA NotificationKeeps ==
  ASSUME SolanaClientIInv, NEW s \in Subscriptions, Notification(s)
  PROVE  SolanaClientIInv'
<1> DEFINE n == cursor[s] + 1
<1>1. /\ cursor' = [cursor EXCEPT ![s] = n]
      /\ cursor[s] \in 1 .. Now - 1
      /\ UNCHANGED <<account, reconnects, app>>
      /\ \/ n > last_nonce /\ sent' = Append(sent, n) /\ last_nonce' = n
         \/ UNCHANGED <<sent, last_nonce>>
  BY DEF Notification, IsNewer
<1>2. /\ Now \in Nat /\ 1 <= Now /\ Now <= MaxNonce /\ MaxNonce \in Nat
      /\ last_nonce \in Nat /\ Len(sent) \in Nat
      /\ sent \in Seq(1 .. MaxNonce)
      /\ \A i \in 1 .. Len(sent) : sent[i] \in Nat
      /\ app.first \in Nat /\ app.read \in Nat
  BY ClientTypes, ClientNumbers DEF SolanaClientIInv
<1>3. n \in 1 .. MaxNonce /\ n \in Nat /\ n <= Now
  BY <1>1, <1>2
<1>4. Now' = Now
  BY <1>1 DEF Now
<1>5. cursor' \in [Subscriptions -> -1 .. MaxNonce] /\ \A u \in Subscriptions : cursor'[u] <= Now
  <2>1. cursor \in [Subscriptions -> -1 .. MaxNonce] /\ \A u \in Subscriptions : cursor[u] <= Now
    BY DEF SolanaClientIInv, SolanaClientTypeOK, ChannelInOrder
  <2>2. n \in -1 .. MaxNonce
    BY <1>2, <1>3
  <2> HIDE DEF n
  <2>3. QED
    BY <1>1, <1>3, <2>1, <2>2
<1> HIDE DEF n
<1>6. /\ sent' \in Seq(1 .. MaxNonce) /\ last_nonce' \in 0 .. MaxNonce /\ last_nonce' <= Now
      /\ Len(sent') <= last_nonce' /\ Len(sent) <= Len(sent') /\ Len(sent') \in Nat
      /\ \A i \in 1 .. Len(sent) : sent'[i] = sent[i]
      /\ \A i \in 1 .. Len(sent') : sent'[i] <= last_nonce'
      /\ \A i, j \in 1 .. Len(sent') : i < j => sent'[i] < sent'[j]
  <2>1. /\ Len(sent) <= last_nonce /\ last_nonce <= Now
        /\ \A i \in 1 .. Len(sent) : sent[i] <= last_nonce
        /\ \A i, j \in 1 .. Len(sent) : i < j => sent[i] < sent[j]
    BY <1>2, Elements DEF SolanaClientIInv, ChannelInOrder, UpdatesInOrder
  <2>2. CASE n > last_nonce /\ sent' = Append(sent, n) /\ last_nonce' = n
    <3>1. /\ sent' \in Seq(1 .. MaxNonce) /\ Len(sent') = Len(sent) + 1
          /\ \A i \in 1 .. Len(sent) : sent'[i] = sent[i]
          /\ sent'[Len(sent) + 1] = n
      BY <1>2, <1>3, <2>2
    <3>2. last_nonce' \in 0 .. MaxNonce /\ last_nonce' <= Now /\ Len(sent') <= last_nonce'
      BY <1>2, <1>3, <2>1, <2>2, <3>1
    <3>3. \A i \in 1 .. Len(sent') : i \in 1 .. Len(sent) \/ i = Len(sent) + 1
      BY <1>2, <3>1
    <3>4. \A i \in 1 .. Len(sent') : sent'[i] <= last_nonce'
      BY <1>2, <1>3, <2>1, <2>2, <3>1, <3>3
    <3>5. ASSUME NEW i \in 1 .. Len(sent'), NEW j \in 1 .. Len(sent'), i < j
          PROVE  sent'[i] < sent'[j]
      <4>1. i \in 1 .. Len(sent)
        BY <1>2, <3>1, <3>3, <3>5
      <4>2. sent'[i] = sent[i] /\ sent[i] <= last_nonce /\ sent[i] \in Nat
        BY <1>2, <2>1, <3>1, <4>1
      <4>3. CASE j = Len(sent) + 1
        BY <1>2, <1>3, <2>2, <3>1, <4>2, <4>3
      <4>4. CASE j \in 1 .. Len(sent)
        BY <2>1, <3>1, <3>5, <4>1, <4>2, <4>4
      <4>5. QED
        BY <3>3, <4>3, <4>4
    <3>6. QED
      BY <1>2, <3>1, <3>2, <3>4, <3>5
  <2>3. CASE UNCHANGED <<sent, last_nonce>>
    <3>1. last_nonce \in 0 .. MaxNonce
      BY DEF SolanaClientIInv, SolanaClientTypeOK
    <3>2. QED
      BY <1>2, <2>1, <2>3, <3>1
  <2>4. QED
    BY <1>1, <2>2, <2>3
<1>7. SolanaClientTypeOK'
  <2>1. Len(sent') <= MaxNonce
    BY SMTT(30), <1>2, <1>6
  <2>2. QED
    BY <1>1, <1>4, <1>5, <1>6, <2>1 DEF SolanaClientIInv, SolanaClientTypeOK
<1>8. ChannelInOrder'
  <2>1. app.start <= Now /\ app.first <= app.read /\ app.read <= Len(sent')
    BY <1>2, <1>6 DEF SolanaClientIInv, ChannelInOrder
  <2>2. DOMAIN sent' = 1 .. Len(sent')
    BY <1>6, Elements
  <2>3. UpdatesInOrder'
    BY <1>6, <2>2 DEF UpdatesInOrder
  <2>4. QED
    BY <1>1, <1>4, <1>5, <1>6, <2>1, <2>2, <2>3 DEF ChannelInOrder
<1>9. PendingLasts'
  BY <1>1, <1>4 DEF SolanaClientIInv, PendingLasts, AsksForMembers
<1>10. JoinRemembered'
  <2> SUFFICES ASSUME app.pc \in {"subscribe", "loop"}, app.joined PROVE JoinRemembered'
    BY <1>1 DEF JoinRemembered
  <2>1. PICK m \in 1 .. Now :
         /\ app.start <= m
         /\ account[m].pending
         /\ m = app.start => AsksForMembers(m)
         /\ \A i \in app.first + 1 .. app.read : m <= sent[i] => AsksForMembers(sent[i])
    BY DEF SolanaClientIInv, JoinRemembered
  <2>2. \A i \in app.first + 1 .. app.read : i \in 1 .. Len(sent)
    BY <1>2 DEF SolanaClientIInv, ChannelInOrder
  <2>3. \A i \in app.first + 1 .. app.read : sent'[i] = sent[i]
    BY <1>6, <2>2
  <2>4. QED
    BY <1>1, <1>4, <2>1, <2>3 DEF JoinRemembered, AsksForMembers
<1>11. NoJoinMissing'
  <2>1. app.first < app.read => app.read \in 1 .. Len(sent)
    BY <1>2 DEF SolanaClientIInv, ChannelInOrder
  <2>2. QED
    BY <1>1, <1>6, <2>1 DEF SolanaClientIInv, NoJoinMissing, AsksForMembers
<1>12. QED
  BY <1>7, <1>8, <1>9, <1>10, <1>11 DEF SolanaClientIInv

\* Subscriptions connect and close without a word to the client.
LEMMA ConnectionKeeps ==
  ASSUME SolanaClientIInv, NEW s \in Subscriptions, Subscribed(s) \/ Closed(s)
  PROVE  SolanaClientIInv'
<1>1. UNCHANGED <<account, last_nonce, sent, app>>
  BY DEF Subscribed, Closed
<1>2. Now \in Nat /\ 1 <= Now /\ Now <= MaxNonce /\ Now' = Now
  BY <1>1, ClientTypes DEF SolanaClientIInv, Now
<1>3. /\ cursor \in [Subscriptions -> -1 .. MaxNonce] /\ \A u \in Subscriptions : cursor[u] <= Now
      /\ reconnects \in 0 .. MaxReconnects
  BY DEF SolanaClientIInv, SolanaClientTypeOK, ChannelInOrder
<1>4. PICK n \in -1 .. Now : cursor' = [cursor EXCEPT ![s] = n]
  BY <1>2 DEF Subscribed, Closed
<1>5. n \in -1 .. MaxNonce /\ n <= Now
  BY <1>2, ClientNumbers
<1>6. cursor' \in [Subscriptions -> -1 .. MaxNonce] /\ \A u \in Subscriptions : cursor'[u] <= Now
  BY <1>3, <1>4, <1>5
<1>7. reconnects' \in 0 .. MaxReconnects
  BY <1>3, ClientNumbers DEF Subscribed, Closed
<1>8. SolanaClientTypeOK'
  BY <1>1, <1>2, <1>6, <1>7 DEF SolanaClientIInv, SolanaClientTypeOK
<1>9. ChannelInOrder'
  BY <1>1, <1>2, <1>6 DEF SolanaClientIInv, ChannelInOrder, UpdatesInOrder
<1>10. PendingLasts' /\ JoinRemembered' /\ NoJoinMissing'
  BY <1>1, <1>2 DEF SolanaClientIInv, PendingLasts, JoinRemembered, NoJoinMissing, AsksForMembers
<1>11. QED
  BY <1>8, <1>9, <1>10 DEF SolanaClientIInv

\* An attempt that fails leaves the app joining, or ends it.
LEMMA RetriedApp ==
  ASSUME SolanaClientTypeOK, NEW next \in Retried, app.pc \in {"bootJoining", "joining"}
  PROVE  /\ next \in AppStates
         /\ next.start = app.start /\ next.first = app.first /\ next.read = app.read
         /\ next.pc \in {"bootJoining", "joining", "ended"}
<1>1. app \in AppStates
  BY ClientTypes
<1>2. app.attempts + 1 < SendRetries => app.attempts + 1 \in 0 .. SendRetries - 1
  BY <1>1, ClientNumbers DEF AppStates
<1>3. \/ next = [app EXCEPT !.attempts = @ + 1] /\ app.attempts + 1 < SendRetries
      \/ next = [app EXCEPT !.pc = "ended"]
  BY DEF Retried
<1>4. QED
  BY <1>1, <1>2, <1>3 DEF AppStates

\* A join lands behind all that the app has read.
LEMMA JoinRunKeeps ==
  ASSUME SolanaClientIInv, JoinRun
  PROVE  SolanaClientIInv'
<1>0. app.pc \in {"bootJoining", "joining"} /\ UNCHANGED <<cursor, reconnects, last_nonce, sent>>
  BY DEF JoinRun
<1>1. /\ SolanaClientTypeOK /\ app \in AppStates
      /\ app.start <= Now /\ app.first <= app.read /\ app.read <= Len(sent)
      /\ app.start \in Nat /\ Now \in Nat /\ app.first \in Nat /\ app.read \in Nat
      /\ Len(sent) \in Nat
  BY ClientTypes DEF SolanaClientIInv, ChannelInOrder
<1>2. CASE app' \in Retried /\ UNCHANGED account
  BY <1>0, <1>1, <1>2, RetriedApp, AppKeeps
<1>3. CASE Change([Last(account) EXCEPT !.pending = TRUE]) /\ app' \in {Joined} \union Retried
  <2> DEFINE new == [Last(account) EXCEPT !.pending = TRUE]
  <2>1. Last(account) \in ChainStates
    <3>1. account \in Seq(ChainStates) /\ Len(account) \in Nat /\ 1 <= Len(account)
      BY <1>1, ClientTypes
    <3>2. QED
      BY <3>1, Elements DEF Last
  <2>2. new \in ChainStates /\ new.pending
    BY <2>1 DEF ChainStates
  <2> HIDE DEF new
  <2>3. /\ account' \in Seq(ChainStates)
        /\ Now' = Now + 1
        /\ Now' \in 1 .. MaxNonce
        /\ \A n \in 1 .. Now : account'[n] = account[n]
        /\ account'[Now + 1] = new
        /\ PendingLasts'
    <3>1. Change(new)
      BY <1>3 DEF new
    <3>2. QED
      BY <2>2, <3>1, AccountGrows
  <2>4. CASE app' \in Retried
    <3>1. /\ app' \in AppStates
          /\ app'.start = app.start /\ app'.first = app.first /\ app'.read = app.read
          /\ app'.pc \in {"bootJoining", "joining", "ended"}
      BY <1>0, <1>1, <2>4, RetriedApp
    <3>2. JoinRemembered' /\ NoJoinMissing'
      BY <3>1 DEF JoinRemembered, NoJoinMissing
    <3>3. app'.start <= Now' /\ Now <= Now' /\ app'.first <= app'.read /\ app'.read <= Len(sent)
      BY <1>1, <2>3, <3>1
    <3>4. QED
      BY <1>0, <2>3, <3>1, <3>2, <3>3, ClientStepKeeps
  <2>5. CASE app' = Joined
    <3>0. 0 \in 0 .. SendRetries - 1
      BY ClientNumbers
    <3>1. /\ app' \in AppStates
          /\ app'.start = app.start /\ app'.first = app.first /\ app'.read = app.read
          /\ app'.pc \in {"subscribe", "loop"} /\ app'.joined
      BY <1>1, <2>5, <3>0 DEF Joined, AppStates
    <3>2. \A i \in app.first + 1 .. app.read : ~(Now + 1 <= sent[i])
      <4>1. \A i \in app.first + 1 .. app.read : i \in 1 .. Len(sent)
        BY <1>1
      <4>2. \A i \in 1 .. Len(sent) : sent[i] \in Nat
        BY <1>1, ClientTypes
      <4>3. last_nonce <= Now /\ last_nonce \in Nat /\ DOMAIN sent = 1 .. Len(sent)
        BY <1>1, ClientTypes, Elements DEF SolanaClientIInv, ChannelInOrder
      <4>4. \A i \in 1 .. Len(sent) : sent[i] <= last_nonce
        BY <4>3 DEF SolanaClientIInv, ChannelInOrder
      <4>5. QED
        BY <1>1, <4>1, <4>2, <4>3, <4>4
    <3>3. Now + 1 \in 1 .. Now' /\ app.start <= Now + 1 /\ Now + 1 # app.start
      BY <1>1, <2>3
    <3>4. JoinRemembered'
      BY <1>0, <2>2, <2>3, <3>1, <3>2, <3>3 DEF JoinRemembered
    <3>5. NoJoinMissing'
      BY <3>1 DEF NoJoinMissing
    <3>6. app'.start <= Now' /\ Now <= Now' /\ app'.first <= app'.read /\ app'.read <= Len(sent)
      BY <1>1, <2>3, <3>1
    <3>7. QED
      BY <1>0, <2>3, <3>1, <3>4, <3>5, <3>6, ClientStepKeeps
  <2>6. QED
    BY <1>3, <2>4, <2>5
<1>4. QED
  BY <1>2, <1>3 DEF JoinRun

\* The app reads one account of the channel, in the order of the channel.
LEMMA AppReceivesKeeps ==
  ASSUME SolanaClientIInv, AppReceives
  PROVE  SolanaClientIInv'
<1>0. app.pc = "loop" /\ app.read < Len(sent) /\ UNCHANGED <<account, cursor, reconnects, last_nonce, sent>>
  BY DEF AppReceives
<1>1. /\ app \in AppStates
      /\ app.start <= Now /\ app.first <= app.read /\ app.read <= Len(sent)
      /\ app.start \in Nat /\ Now \in Nat /\ app.first \in Nat /\ app.read \in Nat
      /\ Len(sent) \in Nat /\ Len(sent) <= MaxNonce /\ MaxNonce \in Nat
  BY ClientTypes, ClientNumbers DEF SolanaClientIInv, SolanaClientTypeOK, ChannelInOrder
<1>2. CASE app' = [app EXCEPT !.pc = "ended"]
  <2>1. app' \in AppStates /\ app'.pc = "ended"
        /\ app'.start = app.start /\ app'.first = app.first /\ app'.read = app.read
    BY <1>1, <1>2 DEF AppStates
  <2>2. QED
    BY <1>0, <2>1, AppKeeps
<1> DEFINE n == sent[app.read + 1]
           after == AfterUpdate(account[n])
<1>3. CASE app' = [app EXCEPT !.latest = n, !.read = @ + 1, !.pc = after.pc, !.joined = after.joined]
  <2>0. app.read + 1 \in 1 .. Len(sent)
    BY <1>0, <1>1
  <2>1. n \in 0 .. MaxNonce
    BY <2>0, ClientTypes DEF SolanaClientIInv
  <2>2. /\ after.pc \in {"loop", "joining", "ended"} /\ after.joined \in BOOLEAN
        /\ after.joined => app.joined /\ AsksForMembers(n)
        /\ after.pc = "loop" /\ ~after.joined => ~AsksForMembers(n)
    BY <1>1 DEF AfterUpdate, AsksForMembers, AppStates
  <2> HIDE DEF after, n
  <2>3. app.read + 1 \in 0 .. MaxNonce
    BY <1>0, <1>1
  <2>4. /\ app' \in AppStates
        /\ app'.start = app.start /\ app'.first = app.first /\ app'.read = app.read + 1
        /\ app'.pc = after.pc /\ app'.joined = after.joined
    BY <1>1, <1>3, <2>1, <2>2, <2>3 DEF AppStates
  <2>5. JoinRemembered'
    <3> SUFFICES ASSUME after.pc = "loop", after.joined PROVE JoinRemembered'
      BY <2>2, <2>4 DEF JoinRemembered
    <3>1. PICK m \in 1 .. Now :
         /\ app.start <= m
         /\ account[m].pending
         /\ m = app.start => AsksForMembers(m)
         /\ \A i \in app.first + 1 .. app.read : m <= sent[i] => AsksForMembers(sent[i])
      BY <1>0, <2>2 DEF SolanaClientIInv, JoinRemembered
    <3>2. \A i \in app.first + 1 .. app.read + 1 : i \in app.first + 1 .. app.read \/ sent[i] = n
      BY <1>1 DEF n
    <3>3. \A i \in app.first + 1 .. app.read + 1 : m <= sent[i] => AsksForMembers(sent[i])
      BY <2>2, <3>1, <3>2
    <3>4. Now' = Now
      BY <1>0 DEF Now
    <3>5. QED
      BY <1>0, <2>4, <3>1, <3>3, <3>4 DEF JoinRemembered, AsksForMembers
  <2>6. NoJoinMissing'
    BY <1>0, <2>2, <2>4 DEF NoJoinMissing, AsksForMembers, n
  <2>7. app'.start <= Now /\ app'.first <= app'.read /\ app'.read <= Len(sent) /\ Now' = Now /\ Now <= Now
    BY <1>0, <1>1, <2>4 DEF Now
  <2>8. PendingLasts' /\ account' \in Seq(ChainStates) /\ Now \in 1 .. MaxNonce
    BY <1>0, <2>7 DEF SolanaClientIInv, SolanaClientTypeOK, PendingLasts, AsksForMembers
  <2>9. QED
    BY <1>0, <2>4, <2>5, <2>6, <2>7, <2>8, ClientStepKeeps
<1>4. QED
  BY <1>2, <1>3 DEF AppReceives

\* Every step of the account, the subscriptions and the app keeps the invariant.
LEMMA SolanaClientStep == SolanaClientIInv /\ [SolanaClientNext]_solanaClientVars => SolanaClientIInv'
<1> SUFFICES ASSUME SolanaClientIInv, [SolanaClientNext]_solanaClientVars PROVE SolanaClientIInv'
  OBVIOUS
<1>0. /\ app \in AppStates
      /\ app.start <= Now /\ app.first <= app.read /\ app.read <= Len(sent)
      /\ app.start \in Nat /\ Now \in Nat /\ 1 <= Now /\ app.first \in Nat /\ app.read \in Nat
      /\ Len(sent) \in Nat /\ Len(sent) <= MaxNonce /\ Now <= MaxNonce /\ MaxNonce \in Nat
  BY ClientTypes, ClientNumbers DEF SolanaClientIInv, SolanaClientTypeOK, ChannelInOrder
<1>1. CASE WatcherLags \/ TickCheck
  <2>1. app' = [app EXCEPT !.pc = "ended"] /\ UNCHANGED <<account, cursor, reconnects, last_nonce, sent>>
    BY <1>1 DEF WatcherLags, TickCheck
  <2>2. app' \in AppStates /\ app'.pc = "ended"
        /\ app'.start = app.start /\ app'.first = app.first /\ app'.read = app.read
    BY <1>0, <2>1 DEF AppStates
  <2>3. QED
    BY <2>1, <2>2, AppKeeps
<1>2. CASE Start
  <2>1. /\ app.pc = "backend" /\ app' = [app EXCEPT !.pc = "boot"]
        /\ UNCHANGED <<account, cursor, reconnects, last_nonce, sent>>
    BY <1>2 DEF Start
  <2>2. ~app.joined
    BY <2>1 DEF SolanaClientIInv, NoJoinMissing
  <2>3. app' \in AppStates /\ app'.pc = "boot" /\ ~app'.joined
        /\ app'.start = app.start /\ app'.first = app.first /\ app'.read = app.read
    BY <1>0, <2>1, <2>2 DEF AppStates
  <2>4. QED
    BY <2>1, <2>3, AppKeeps
<1>3. CASE ReadStartState \/ Subscribe
  <2>1. UNCHANGED <<account, cursor, reconnects, last_nonce, sent>> /\ Now' = Now
    BY <1>3 DEF ReadStartState, Subscribe, Now
  <2>2. PendingLasts' /\ account' \in Seq(ChainStates) /\ Now \in 1 .. MaxNonce /\ Now <= Now
    <3>1. PendingLasts'
      BY <2>1 DEF SolanaClientIInv, PendingLasts, AsksForMembers
    <3>2. account' \in Seq(ChainStates) /\ Now \in 1 .. MaxNonce
      BY <2>1 DEF SolanaClientIInv, SolanaClientTypeOK
    <3>3. QED
      BY <1>0, <3>1, <3>2
  <2>3. CASE ReadStartState
    <3>0. Now \in 0 .. MaxNonce
      BY <1>0
    <3>1. /\ app' \in AppStates /\ app'.pc \in {"bootJoining", "subscribe"} /\ app'.joined = app.joined
          /\ app'.start = Now /\ app'.first = app.first /\ app'.read = app.read
      BY <1>0, <2>3, <3>0 DEF ReadStartState, AppStates
    <3>2. ~app.joined
      BY <2>3 DEF ReadStartState, SolanaClientIInv, NoJoinMissing
    <3>3. JoinRemembered' /\ NoJoinMissing'
      BY <3>1, <3>2 DEF JoinRemembered, NoJoinMissing
    <3>4. QED
      BY <1>0, <2>1, <2>2, <3>1, <3>3, ClientStepKeeps
  <2>4. CASE Subscribe
    <3>1. PICK n \in app.start .. Now :
             app' = [app EXCEPT !.pc = "loop", !.latest = n, !.first = Len(sent), !.read = Len(sent)]
      BY <2>4 DEF Subscribe
    <3>2. n \in 0 .. MaxNonce /\ Len(sent) \in 0 .. MaxNonce /\ app.pc = "subscribe"
      BY <1>0, <2>4 DEF Subscribe
    <3>3. /\ app' \in AppStates /\ app'.pc = "loop" /\ app'.joined = app.joined
          /\ app'.start = app.start /\ app'.first = Len(sent) /\ app'.read = Len(sent)
      BY <1>0, <3>1, <3>2 DEF AppStates
    <3>4. JoinRemembered'
      <4> SUFFICES ASSUME app.joined PROVE JoinRemembered'
        BY <3>3 DEF JoinRemembered
      <4>1. PICK m \in 1 .. Now : app.start <= m /\ account[m].pending /\ (m = app.start => AsksForMembers(m))
        BY <3>2 DEF SolanaClientIInv, JoinRemembered
      <4>2. \A i \in Len(sent) + 1 .. Len(sent) : FALSE
        BY <1>0
      <4>3. QED
        BY <2>1, <3>3, <4>1, <4>2 DEF JoinRemembered, AsksForMembers
    <3>5. NoJoinMissing'
      BY <1>0, <3>3 DEF NoJoinMissing
    <3>6. Len(sent) <= Len(sent)
      BY <1>0
    <3>7. QED
      BY <1>0, <2>1, <2>2, <3>3, <3>4, <3>5, <3>6, ClientStepKeeps
  <2>5. QED
    BY <1>3, <2>3, <2>4
<1>4. CASE UNCHANGED solanaClientVars
  BY <1>4 DEF solanaClientVars, SolanaClientIInv, SolanaClientTypeOK, ChannelInOrder, UpdatesInOrder,
             PendingLasts, JoinRemembered, NoJoinMissing, AsksForMembers, Now
<1>5. QED
  BY <1>1, <1>2, <1>3, <1>4, ChainMovesKeep, ConnectionKeeps, NotificationKeeps, JoinRunKeeps, AppReceivesKeeps
     DEF SolanaClientNext

\* What an app that has missed nothing has read last is the account as it is.
LEMMA JoinsWhenAsked ==
  ASSUME SolanaClientIInv
  PROVE  JoinsEveryEpoch
<1> SUFFICES ASSUME app.pc = "loop", MissedNothing, AsksForMembers(Now), Now # app.start
             PROVE  account[Now].pending
  BY DEF JoinsEveryEpoch, AsksForMembers, Last, Now
<1>1. /\ app.start <= Now /\ app.first <= app.read /\ app.read = Len(sent)
      /\ app.start \in Nat /\ Now \in Nat /\ 1 <= Now /\ app.first \in Nat /\ app.read \in Nat
      /\ Len(sent) \in Nat /\ DOMAIN sent = 1 .. Len(sent)
      /\ last_nonce \in Nat /\ last_nonce <= Now
      /\ \A i \in 1 .. Len(sent) : sent[i] \in Nat /\ sent[i] <= last_nonce
  BY ClientTypes, Elements DEF SolanaClientIInv, ChannelInOrder, MissedNothing
<1>1a. Now \in app.start + 1 .. Now
  BY ONLY <1>1, Now # app.start
<1>1b. \A n \in app.start + 1 .. Now : \E i \in app.first + 1 .. app.read : sent[i] = n
  BY DEF MissedNothing
<1>2. PICK i \in app.first + 1 .. app.read : sent[i] = Now
  BY ONLY <1>1a, <1>1b
<1>3. sent[app.read] = Now
  BY SMTT(30), <1>1, <1>2 DEF SolanaClientIInv, ChannelInOrder, UpdatesInOrder
<1>4. app.joined
  BY <1>1, <1>2, <1>3 DEF SolanaClientIInv, NoJoinMissing
<1>5. PICK m \in 1 .. Now :
       /\ app.start <= m
       /\ account[m].pending
       /\ m = app.start => AsksForMembers(m)
       /\ \A j \in app.first + 1 .. app.read : m <= sent[j] => AsksForMembers(sent[j])
  BY <1>4 DEF SolanaClientIInv, JoinRemembered
<1>6. ASSUME NEW k \in m .. Now PROVE AsksForMembers(k)
  <2>1. CASE k = app.start
    BY <1>1, <1>5, <2>1
  <2>2. CASE k # app.start
    <3>1. k \in app.start + 1 .. Now /\ m <= k
      BY <1>1, <1>5, <2>2
    <3>2. PICK j \in app.first + 1 .. app.read : sent[j] = k
      BY <3>1 DEF MissedNothing
    <3>3. QED
      BY <1>5, <3>1, <3>2
  <2>3. QED
    BY <2>1, <2>2
<1>7. Now \in 1 .. Now /\ m <= Now
  BY <1>1, <1>5
<1>8. QED
  BY <1>5, <1>6, <1>7 DEF SolanaClientIInv, PendingLasts

\* For any number of subscriptions, of accounts and of lost connections: the client sees
\* the account change in order (the task of backend.rs that drops what is not newer), and
\* an app that misses nothing joins the run each time that it asks for members (app.rs).
THEOREM ClientFollowsAccount == SolanaClientSpec => []FollowsAccount
<1>1. SolanaClientIInv => FollowsAccount
  BY JoinsWhenAsked DEF SolanaClientIInv, FollowsAccount, ChannelInOrder
<1>2. QED
  BY <1>1, SolanaClientInitially, SolanaClientStep, PTL DEF SolanaClientSpec

-----------------------------------------------------------------------------
(* The step machine of a client: the parts of its inductive invariant. *)

TaskType ==
    [phase : {"idle", "applying", "training", "error"}, step : Nat,
     results : SUBSET Trainers, assigned : SUBSET Trainers, vote : SUBSET Trainers,
     training : BOOLEAN, finished : BOOLEAN, early : BOOLEAN, checks : Nat]

MailType == [step : Nat, results : SUBSET Trainers]

Everybody == {Me, Other, Extra}

\* The types, but for the coordinator's.
StepTypes ==
    /\ cs \in [run_state : CoordStates, clients : Seq(Everybody)]
    /\ current \in RoundType /\ previous \in RoundType
    /\ stage \in {"NotYetInitialized", "Initializing", "Running", "Failed"}
    /\ failure \in {"none", "Init", "Desync", "Apply", "NoActiveRound"}
    /\ active \in {"Warmup", "Training", "Witness", "Cooldown"}
    /\ payload \in [Steps -> [Trainers -> PayloadStates]]
    /\ task \in TaskType /\ mail \in SUBSET MailType /\ outbox \in SUBSET Steps
    /\ missed \in BOOLEAN /\ fresh \in BOOLEAN /\ late \in BOOLEAN /\ lost \in SUBSET Trainers

\* Results are kept for the rounds that are looked at.
PayloadsPlaced ==
    \A s \in Steps : payload[s] # NoPayloads => s \in {current.step, previous.step, task.step}

Training(c) == c.run_state \in {"RoundTrain", "RoundWitness"}

\* A coordinator: its last rounds have no training, an epoch starts with a round of
\* height 0, before which nothing was assigned, and votes are cast in rounds.
CoordSound(c) ==
    /\ c \in CoordType
    /\ c.step \in Steps
    /\ c.last_step # 0 => c.assigned = {}
    /\ c.run_state = "Warmup" => c.last_step = 0 /\ c.height = 0
    /\ Training(c) /\ c.height = 0 => c.prev_assigned = {}
    /\ ~Training(c) => c.vote.results = {}

Arrived == {"Voted", "Deserializing", "Ready", "Unusable"}

\* A round holds results of its own trainers, and has all of them once it is complete.
RoundSound(r, p) ==
    /\ r.assigned # {} => r.step \in Steps
    /\ r.step \in Steps => \A t \in Trainers : p[r.step][t] # "none" => t \in r.assigned
    /\ r.bloom \subseteq r.assigned
    /\ \A t \in r.assigned : t \notin r.remaining => p[r.step][t] \in Arrived
    /\ r.complete => r.remaining \cap r.assigned = {}

RoundsSound == RoundSound(current, payload) /\ RoundSound(previous, payload)

\* A witness goes out with the round after the one that it is about.
VotesCounted ==
    /\ current.votes = 0 /\ ~current.early /\ ~current.sent_witness
    /\ previous.votes <= 1
    /\ ~previous.sent_witness => previous.votes = 0

\* A round starts at a step that the client has not been at; so no witness of Me is of
\* a step that is yet to come.
StepsOrdered ==
    /\ current.step <= coord.step
    /\ ~Training(coord) => current.step < coord.step
    /\ active = "Witness" /\ coord.run_state = "RoundTrain" => current.step < coord.step
    /\ previous.step # 0 => previous.step < current.step
    /\ active = "Warmup" => current.step = 0 /\ current.height = 0
    /\ active # "Warmup" => current.step # 0
    /\ \A m \in mail : m.step <= coord.step /\ (~Training(coord) => m.step < coord.step)

StagesSound ==
    /\ stage \in {"NotYetInitialized", "Initializing"} => active = "Warmup"
    /\ stage = "Initializing" => cs.run_state = "Warmup" /\ IsMember(cs, Me)
    /\ stage # "Failed" => failure = "none"
    /\ active # "Training" => task = NoTask

\* A witness that went out before the end of the training has everything of its round.
EarlySound ==
    /\ previous.early => \A t \in previous.assigned : payload[previous.step][t] \in Deserialized
    /\ task.early /\ task.step # 0 => \A t \in task.assigned : payload[task.step][t] \in Deserialized
    /\ task.step # 0 /\ task.assigned # {} => task.step \in Steps
    /\ task.phase = "error" => ~task.early

\* A client that has seen every state is at most one behind.
InStep ==
    stage = "Running" /\ ~missed =>
      /\ active = "Training" =>
           /\ \/ coord.run_state = "RoundTrain" /\ ~fresh
              \/ coord.run_state = "RoundWitness" /\ fresh
           /\ current.step = coord.step /\ current.height = coord.height
      /\ active = "Witness" =>
           \/ /\ coord.run_state = "RoundWitness" /\ ~fresh
              /\ current.step = coord.step /\ current.height = coord.height
           \/ /\ coord.run_state = "RoundTrain" /\ fresh
              /\ current.step + 1 = coord.step /\ current.height + 1 = coord.height
           \/ coord.run_state = "Cooldown" /\ fresh
      /\ active = "Cooldown" =>
           \/ coord.run_state = "Cooldown" /\ ~fresh
           \/ coord.run_state \in {"WaitingForMembers", "Paused", "Finished"} /\ fresh
      /\ active = "Warmup" /\ ~late /\ IsMember(coord, Me) =>
           \/ coord.run_state \in {"WaitingForMembers", "Warmup", "Paused", "Finished"}
           \/ coord.run_state = "RoundTrain" /\ fresh /\ coord.height = 0

\* A vote is for results of the round before, whoever casts it.
VotesAssigned ==
    ~missed /\ ~late =>
      /\ \A m \in mail : m.step = coord.step => m.results \subseteq coord.prev_assigned
      /\ coord.vote.results \subseteq coord.prev_assigned

\* What is applied in a round, from the state that started it to its end.
Agreement ==
    ~missed /\ ~late /\ stage = "Running" /\ active \in {"Training", "Witness"} =>
      /\ current.height # 0 => previous.step # 0
      /\ current.step = coord.step =>
           /\ current.assigned = coord.assigned
           /\ previous.assigned = coord.prev_assigned
      /\ current.step = coord.step /\ coord.height >= 2 =>
           /\ active = "Training" =>
                /\ task.step # 0
                /\ task.vote = coord.prev_vote.results
                /\ coord.prev_vote.results \subseteq task.assigned
                /\ task.phase \in {"applying", "training", "error"}
                /\ task.phase = "training" => applied \cup lost = coord.prev_vote.results
           /\ active = "Witness" => applied \cup lost = coord.prev_vote.results
      /\ active = "Witness" /\ coord.run_state = "RoundTrain" =>
           /\ current.assigned = coord.prev_assigned
           /\ coord.prev_vote.results \subseteq previous.assigned

StepsIInv ==
    /\ CoordSound(coord) /\ StepTypes /\ PayloadsPlaced
    /\ RoundsSound /\ VotesCounted /\ StepsOrdered /\ StagesSound /\ EarlySound
    /\ InStep /\ VotesAssigned /\ Agreement
    /\ DesyncMeansBehind /\ HealthChecksInTime

\* It implies what the run checks.
LEMMA StepsIInvImplies ==
    ASSUME StepsIInv
    PROVE  StepsInv /\ AppliesAgreement
<1>1. ClientTypeOK
  BY DEF StepsIInv, CoordSound, StepTypes, PayloadsPlaced, ClientTypeOK, Everybody
<1>2. EarlyVotesApply /\ WitnessedOnce
  BY DEF StepsIInv, EarlySound, VotesCounted, EarlyVotesApply, WitnessedOnce
<1>3. StepsInv
  BY <1>1, <1>2 DEF StepsIInv, StepsInv
<1>4. AppliesAgreement
  <2> SUFFICES ASSUME ResultsDue, ~late, ~missed
               PROVE  applied \cup lost = coord.prev_vote.results
    BY DEF AppliesAgreement
  <2>1. stage = "Running" /\ active = "Witness" /\ current.step = coord.step /\ coord.height >= 2
    BY DEF ResultsDue
  <2>2. Agreement
    BY DEF StepsIInv
  <2> QED
    BY <2>1, <2>2 DEF Agreement
<1> QED
  BY <1>3, <1>4

LEMMA StepsStart ==
    ASSUME ClientInit
    PROVE  StepsIInv
<1>1. coord \in CoordType /\ coord.step \in Steps
  BY ClientAssumption DEF ClientInit, CoordType, CoordStates, Trainers, Steps, NoVote
<1>2. CoordSound(coord)
  BY <1>1 DEF ClientInit, CoordSound, Training, NoVote
<1>3. EmptyRound \in RoundType
  BY DEF EmptyRound, RoundType
<1>4. NoTask \in TaskType
  BY DEF NoTask, TaskType
<1>5. payload \in [Steps -> [Trainers -> PayloadStates]] /\ \A s \in Steps : payload[s] = NoPayloads
  BY DEF ClientInit, NoPayloads, PayloadStates
<1>6. cs \in [run_state : CoordStates, clients : Seq(Everybody)]
  BY DEF ClientInit, View, CoordStates, Everybody
<1>7. StepTypes /\ PayloadsPlaced
  BY <1>3, <1>4, <1>5, <1>6 DEF ClientInit, StepTypes, PayloadsPlaced
<1>8. current = EmptyRound /\ previous = EmptyRound /\ task = NoTask /\ coord.step = 1
      /\ mail = {} /\ active = "Warmup" /\ stage = "NotYetInitialized" /\ failure = "none"
  BY DEF ClientInit
<1>9. 0 \notin Steps
  BY DEF Steps
<1>10. RoundsSound
  BY <1>8, <1>9 DEF RoundsSound, RoundSound, EmptyRound
<1>11. VotesCounted /\ StepsOrdered /\ StagesSound
  BY <1>8 DEF VotesCounted, StepsOrdered, StagesSound, EmptyRound
<1>12. EarlySound /\ InStep /\ Agreement /\ DesyncMeansBehind /\ HealthChecksInTime
  BY <1>8 DEF EarlySound, InStep, Agreement, DesyncMeansBehind, HealthChecksInTime,
              EmptyRound, NoTask
<1>13. VotesAssigned
  BY <1>8 DEF VotesAssigned, ClientInit, NoVote
<1> QED
  BY <1>2, <1>7, <1>10, <1>11, <1>12, <1>13 DEF StepsIInv

-----------------------------------------------------------------------------
(* The coordinator moves. *)

SameEpoch(c, d) ==
    /\ d.height = c.height /\ d.clients = c.clients /\ d.prev_vote = c.prev_vote
    /\ d.step = c.step /\ d.vote = c.vote

\* A transition of the coordinator.
Moved(c, d) ==
    \/ /\ c.run_state = "WaitingForMembers" /\ d.run_state = "Warmup" /\ d.step = c.step
    \/ /\ c.run_state = "Warmup" /\ d.run_state = "WaitingForMembers" /\ SameEpoch(c, d)
    \/ /\ c.run_state = "Warmup" /\ d.run_state = "RoundTrain" /\ SameEpoch(c, d)
       /\ d.height = 0 /\ d.prev_assigned = {}
    \/ /\ c.run_state = "RoundTrain" /\ d.run_state = "RoundWitness" /\ SameEpoch(c, d)
       /\ d.assigned = c.assigned /\ d.prev_assigned = c.prev_assigned
    \/ /\ c.run_state = "RoundWitness" /\ d.run_state = "RoundTrain"
       /\ d.step = c.step + 1 /\ d.height = c.height + 1
       /\ IsMember(d, Me) => IsMember(c, Me)
       /\ d.prev_assigned = c.assigned /\ d.vote = NoVote /\ d.prev_vote = c.vote
    \/ /\ c.run_state = "RoundWitness" /\ d.run_state = "Cooldown"
       /\ d.step = c.step + 1 /\ d.clients = c.clients /\ d.vote = NoVote
    \/ /\ c.run_state = "Cooldown" /\ d.run_state \in {"WaitingForMembers", "Paused", "Finished"}
       /\ SameEpoch(c, d)
    \/ /\ c.run_state = "Paused" /\ d.run_state = "WaitingForMembers" /\ SameEpoch(c, d)

\* The clients that are left after a round are clients.
LEMMA AfterRoundFacts ==
    ASSUME NEW s \in Seq(Everybody), NEW t \in AfterRound(s)
    PROVE  /\ t \in Seq(Everybody)
           /\ \A x : Contains(t, x) => Contains(s, x)
<1>1. CASE t = s
  BY <1>1
<1>2. CASE t # s
  <2>1. PICK gone \in Droppable : t = Retain(s, {i \in DOMAIN s : s[i] # gone})
    BY <1>2 DEF AfterRound
  <2> DEFINE K == {i \in DOMAIN s : s[i] # gone}
  <2>2. K \in SUBSET (DOMAIN s) /\ DOMAIN s = 1 .. Len(s) /\ Len(s) \in Nat
    OBVIOUS
  <2> HIDE DEF K
  <2>3. /\ t \in Seq(Everybody) /\ DOMAIN t = 1 .. Cardinality(K)
        /\ \A i \in 1 .. Cardinality(K) : Nth(K, i) \in K /\ t[i] = s[Nth(K, i)]
    BY <2>1, <2>2, RetainProperties DEF K
  <2>4. Cardinality(K) = Len(t)
    <3>1. Cardinality(K) \in Nat
      BY <2>2, PositionsFinite
    <3>2. Len(t) \in Nat /\ 1 .. Len(t) = 1 .. Cardinality(K)
      BY <2>3
    <3>3. \A m, n \in Nat : 1 .. m = 1 .. n => m = n
      <4> SUFFICES ASSUME NEW m \in Nat, NEW n \in Nat, 1 .. m = 1 .. n
                   PROVE  m = n
        OBVIOUS
      <4>1. \A i \in Int : i \in 1 .. m <=> i \in 1 .. n
        OBVIOUS
      <4>2. /\ 1 <= m => m <= n
            /\ 1 <= n => n <= m
        BY <4>1
      <4> QED
        BY <4>2
    <3> QED
      BY <3>1, <3>2, <3>3
  <2>5. \A i \in 1 .. Len(t) : Nth(K, i) \in 1 .. Len(s) /\ t[i] = s[Nth(K, i)]
    BY <2>2, <2>3, <2>4
  <2>6. ASSUME NEW x, Contains(t, x)
        PROVE  Contains(s, x)
    BY <2>5, <2>6 DEF Contains
  <2> QED
    BY <2>3, <2>6
<1> QED
  BY <1>1, <1>2

\* Two coordinator states that differ in the bound only.
Counted(d, n) ==
    /\ d.run_state = n.run_state /\ d.step = n.step /\ d.height = n.height
    /\ d.last_step = n.last_step /\ d.clients = n.clients /\ d.elected = n.elected
    /\ d.assigned = n.assigned /\ d.prev_assigned = n.prev_assigned
    /\ d.vote = n.vote /\ d.prev_vote = n.prev_vote

\* A transition leaves the client alone.
NewToMe ==
    /\ missed' = (missed \/ fresh) /\ fresh' = TRUE
    /\ UNCHANGED <<mail, stage, init, failure, active, cs, roundVars, task, outbox, warmup,
                   ghostVars>>

\* An incident is counted and the state is new to Me.
LEMMA StepCounted ==
    ASSUME coord \in CoordType, NEW next \in CoordType, NEW incident,
           CoordinatorStep(next, incident)
    PROVE  coord' \in CoordType /\ Counted(coord', next) /\ NewToMe
<1> DEFINE S == {i \in {1, 2} : (i = 1 /\ fresh) \/ (i = 2 /\ incident)}
           n == coord.incidents + Cardinality(S)
<1>1. n <= MaxIncidents /\ coord' = [next EXCEPT !.incidents = n] /\ NewToMe
  BY DEF CoordinatorStep, NewToMe
<1>2. S \in SUBSET (1 .. 2)
  OBVIOUS
<1>3. Cardinality(S) \in Nat
  BY <1>2, PositionsFinite
<1> HIDE DEF S
<1>4. coord.incidents \in Nat
  BY ClientAssumption DEF CoordType
<1>5. n \in 0 .. MaxIncidents
  BY <1>1, <1>3, <1>4, ClientAssumption
<1> HIDE DEF n
<1>6. coord' \in CoordType
  BY <1>1, <1>5 DEF CoordType
<1>7. Counted(coord', next)
  BY <1>1 DEF CoordType, Counted
<1> QED
  BY <1>1, <1>6, <1>7

\* So the facts about a transition are those about the state it is told.
LEMMA MoveCounted ==
    ASSUME coord \in CoordType, NEW next \in CoordType, NEW incident,
           CoordinatorStep(next, incident), CoordSound(next), Moved(coord, next)
    PROVE  CoordSound(coord') /\ Moved(coord, coord') /\ NewToMe
<1>1. coord' \in CoordType /\ Counted(coord', next) /\ NewToMe
  BY StepCounted
<1>2. CoordSound(coord')
  BY <1>1 DEF CoordSound, Counted, Training
<1>3. Moved(coord, coord')
  BY <1>1 DEF Moved, SameEpoch, Counted, IsMember
<1> QED
  BY <1>1, <1>2, <1>3

\* Every transition is one.
LEMMA CoordinatorMoves ==
    ASSUME CoordSound(coord),
           \/ StartEpoch \/ AbandonEpoch \/ StartFirstRound \/ EndTraining
           \/ StartNextRound \/ StartCooldown \/ EndEpoch \/ Resume
    PROVE  CoordSound(coord') /\ Moved(coord, coord') /\ NewToMe
<1>0. coord \in CoordType /\ coord.step \in Steps /\ NoVote \in [cast : BOOLEAN, results : SUBSET Trainers]
      /\ NoVote.results = {} /\ \A s \in Steps : Assigned(s) \subseteq Trainers
  BY ClientAssumption DEF CoordSound, NoVote
<1>1. CASE StartEpoch
  <2>1. PICK clients \in Memberships :
          /\ coord.run_state = "WaitingForMembers"
          /\ CoordinatorStep([coord EXCEPT
             !.epoch = @ + 1, !.run_state = "Warmup", !.clients = clients, !.height = 0,
             !.last_step = 0, !.vote = NoVote, !.prev_vote = NoVote], FALSE)
    BY <1>1 DEF StartEpoch
  <2> DEFINE e == coord.epoch + 1
             next == [coord EXCEPT
               !.epoch = e, !.run_state = "Warmup", !.clients = clients, !.height = 0,
               !.last_step = 0, !.vote = NoVote, !.prev_vote = NoVote]
  <2>2. CoordinatorStep(next, FALSE)
    BY <2>1
  <2>3. e \in Nat /\ clients \in Seq({Me, Other, Extra})
    BY <1>0, <2>1, ClientAssumption DEF CoordType
  <2> HIDE DEF e
  <2>4. next \in CoordType
    BY <1>0, <2>3 DEF CoordType, CoordStates
  <2>5. CoordSound(next) /\ Moved(coord, next)
    BY <1>0, <2>1, <2>4 DEF CoordSound, CoordType, Moved, Training
  <2> HIDE DEF next
  <2> QED
    BY <1>0, <2>2, <2>4, <2>5, MoveCounted
<1>2. CASE AbandonEpoch
  <2> DEFINE next == [coord EXCEPT !.run_state = "WaitingForMembers"]
  <2>1. coord.run_state = "Warmup" /\ CoordinatorStep(next, TRUE)
    BY <1>2 DEF AbandonEpoch
  <2>2. next \in CoordType
    BY <1>0 DEF CoordType, CoordStates
  <2>3. CoordSound(next) /\ Moved(coord, next)
    BY <1>0, <2>1, <2>2 DEF CoordSound, CoordType, Moved, SameEpoch, Training
  <2> HIDE DEF next
  <2> QED
    BY <1>0, <2>1, <2>2, <2>3, MoveCounted
<1>3. CASE StartFirstRound
  <2>1. PICK elected \in Trainers \cap Range(coord.clients) :
          /\ coord.run_state = "Warmup"
          /\ CoordinatorStep([coord EXCEPT
             !.run_state = "RoundTrain", !.elected = elected,
             !.assigned = Assigned(coord.step), !.prev_assigned = {}], FALSE)
    BY <1>3 DEF StartFirstRound
  <2> DEFINE assigned == Assigned(coord.step)
             next == [coord EXCEPT !.run_state = "RoundTrain", !.elected = elected,
                                   !.assigned = assigned, !.prev_assigned = {}]
  <2>2. CoordinatorStep(next, FALSE) /\ assigned \in SUBSET Trainers /\ elected \in Trainers
    BY <1>0, <2>1
  <2> HIDE DEF assigned
  <2>3. next \in CoordType
    BY <1>0, <2>2 DEF CoordType, CoordStates
  <2>4. CoordSound(next) /\ Moved(coord, next)
    BY <1>0, <2>1, <2>3 DEF CoordSound, CoordType, Moved, SameEpoch, Training
  <2> HIDE DEF next
  <2> QED
    BY <1>0, <2>2, <2>3, <2>4, MoveCounted
<1>4. CASE EndTraining
  <2> DEFINE next == [coord EXCEPT !.run_state = "RoundWitness"]
  <2>1. coord.run_state = "RoundTrain" /\ CoordinatorStep(next, FALSE)
    BY <1>4 DEF EndTraining
  <2>2. next \in CoordType
    BY <1>0 DEF CoordType, CoordStates
  <2>3. CoordSound(next) /\ Moved(coord, next)
    BY <1>0, <2>1, <2>2 DEF CoordSound, CoordType, Moved, SameEpoch, Training
  <2> HIDE DEF next
  <2> QED
    BY <1>0, <2>1, <2>2, <2>3, MoveCounted
<1>5. CASE StartNextRound
  <2>1. coord.run_state = "RoundWitness" /\ coord.step + 1 \in Steps
    BY <1>5 DEF StartNextRound
  <2>2. PICK clients \in AfterRound(coord.clients), ending \in BOOLEAN :
         \E elected \in Trainers \cap Range(clients) :
          /\ ending => coord.last_step = 0 /\ coord.step + 3 >= 4
          /\ CoordinatorStep([coord EXCEPT
                !.run_state = "RoundTrain", !.step = @ + 1, !.height = @ + 1,
                !.last_step = IF ending THEN coord.step + 3 ELSE @,
                !.clients = clients, !.elected = elected,
                !.assigned = IF ending \/ coord.last_step # 0 THEN {}
                             ELSE Assigned(coord.step + 1) \cap Range(clients),
                !.prev_assigned = coord.assigned,
                !.published = {s \in @ : s = coord.step},
                !.vote = NoVote, !.prev_vote = coord.vote],
                clients # coord.clients)
    BY <1>5, Zenon DEF StartNextRound
  <2>3. PICK elected \in Trainers \cap Range(clients) :
          CoordinatorStep([coord EXCEPT
                !.run_state = "RoundTrain", !.step = @ + 1, !.height = @ + 1,
                !.last_step = IF ending THEN coord.step + 3 ELSE @,
                !.clients = clients, !.elected = elected,
                !.assigned = IF ending \/ coord.last_step # 0 THEN {}
                             ELSE Assigned(coord.step + 1) \cap Range(clients),
                !.prev_assigned = coord.assigned,
                !.published = {s \in @ : s = coord.step},
                !.vote = NoVote, !.prev_vote = coord.vote],
                clients # coord.clients)
    BY <2>2
  <2> DEFINE step == coord.step + 1
             height == coord.height + 1
             last == IF ending THEN coord.step + 3 ELSE coord.last_step
             assigned == IF ending \/ coord.last_step # 0 THEN {}
                         ELSE Assigned(coord.step + 1) \cap Range(clients)
             published == {s \in coord.published : s = coord.step}
             incident == clients # coord.clients
             next == [coord EXCEPT
                !.run_state = "RoundTrain", !.step = step, !.height = height,
                !.last_step = last,
                !.clients = clients, !.elected = elected,
                !.assigned = assigned,
                !.prev_assigned = coord.assigned,
                !.published = published,
                !.vote = NoVote, !.prev_vote = coord.vote]
  <2>4. CoordinatorStep(next, incident)
    BY <2>3
  <2>5. /\ step \in Steps /\ step \in Nat /\ height \in Nat /\ last \in Nat
        /\ assigned \in SUBSET Trainers
    BY <1>0, <2>1 DEF CoordType, Steps
  <2>6. last # 0 => assigned = {}
    BY <1>0, <2>1 DEF CoordType
  <2>7. published \in SUBSET Steps /\ elected \in Trainers
    BY <1>0 DEF CoordType
  <2>8. /\ clients \in Seq({Me, Other, Extra})
        /\ \A x : Contains(clients, x) => Contains(coord.clients, x)
    <3>1. coord.clients \in Seq(Everybody)
      BY <1>0 DEF CoordType, Everybody
    <3> QED
      BY <3>1, AfterRoundFacts DEF Everybody
  <2>9. step = coord.step + 1 /\ height = coord.height + 1 /\ height # 0
    BY <1>0 DEF CoordType
  <2> HIDE DEF step, height, last, assigned, published, incident
  <2>10. next \in CoordType
    BY <1>0, <2>5, <2>7, <2>8 DEF CoordType, CoordStates
  <2>11. CoordSound(next)
    BY <1>0, <2>5, <2>6, <2>9, <2>10 DEF CoordSound, CoordType, Training
  <2>12. Moved(coord, next)
    BY <1>0, <2>1, <2>8, <2>9 DEF CoordType, Moved, IsMember
  <2> HIDE DEF next
  <2> QED
    BY <1>0, <2>4, <2>10, <2>11, <2>12, MoveCounted
<1>6. CASE StartCooldown
  <2> DEFINE step == coord.step + 1
             incident == ~(coord.vote.cast /\ coord.step + 1 = coord.last_step)
             next == [coord EXCEPT
               !.run_state = "Cooldown", !.step = step, !.vote = NoVote,
               !.prev_vote = NoVote, !.assigned = {}, !.prev_assigned = {},
               !.published = {}]
  <2>1. coord.run_state = "RoundWitness" /\ step \in Steps /\ CoordinatorStep(next, incident)
    BY <1>6 DEF StartCooldown
  <2>2. step \in Nat /\ step = coord.step + 1
    BY <2>1 DEF Steps
  <2> HIDE DEF step, incident
  <2>3. next \in CoordType
    BY <1>0, <2>2 DEF CoordType, CoordStates
  <2>4. CoordSound(next) /\ Moved(coord, next)
    BY <1>0, <2>1, <2>2, <2>3 DEF CoordSound, CoordType, Moved, SameEpoch, Training
  <2> HIDE DEF next
  <2> QED
    BY <1>0, <2>1, <2>3, <2>4, MoveCounted
<1>7. CASE EndEpoch
  <2>1. PICK state \in {"WaitingForMembers", "Paused", "Finished"} :
          coord.run_state = "Cooldown" /\ CoordinatorStep([coord EXCEPT !.run_state = state], FALSE)
    BY <1>7 DEF EndEpoch
  <2> DEFINE next == [coord EXCEPT !.run_state = state]
  <2>2. next \in CoordType
    BY <1>0 DEF CoordType, CoordStates
  <2>3. CoordSound(next) /\ Moved(coord, next) /\ CoordinatorStep(next, FALSE)
    BY <1>0, <2>1, <2>2 DEF CoordSound, CoordType, Moved, SameEpoch, Training
  <2> HIDE DEF next
  <2> QED
    BY <1>0, <2>2, <2>3, MoveCounted
<1>8. CASE Resume
  <2> DEFINE next == [coord EXCEPT !.run_state = "WaitingForMembers"]
  <2>1. coord.run_state = "Paused" /\ CoordinatorStep(next, FALSE)
    BY <1>8 DEF Resume
  <2>2. next \in CoordType
    BY <1>0 DEF CoordType, CoordStates
  <2>3. CoordSound(next) /\ Moved(coord, next)
    BY <1>0, <2>1, <2>2 DEF CoordSound, CoordType, Moved, SameEpoch, Training
  <2> HIDE DEF next
  <2> QED
    BY <1>0, <2>1, <2>2, <2>3, MoveCounted
<1> QED
  BY <1>1, <1>2, <1>3, <1>4, <1>5, <1>6, <1>7, <1>8

\* A transition preserves the invariant: Me is one state behind, or it has missed one.
LEMMA MovePreserves ==
    ASSUME StepsIInv, stage # "Failed", CoordSound(coord'), Moved(coord, coord'), NewToMe
    PROVE  StepsIInv'
<1>1. /\ missed' = (missed \/ fresh) /\ fresh' = TRUE
      /\ mail' = mail /\ stage' = stage /\ failure' = failure /\ active' = active /\ cs' = cs
      /\ current' = current /\ previous' = previous /\ payload' = payload /\ task' = task
      /\ outbox' = outbox /\ applied' = applied /\ lost' = lost /\ late' = late
  BY DEF NewToMe, roundVars, ghostVars
<1>2. missed \in BOOLEAN /\ fresh \in BOOLEAN
  BY DEF StepsIInv, StepTypes
<1>3. missed' \in BOOLEAN /\ fresh' \in BOOLEAN /\ (~missed' => ~missed /\ ~fresh) /\ (missed => missed')
  BY <1>1, <1>2
<1>4. coord.step \in Nat /\ coord.height \in Nat /\ coord'.step \in Nat /\ coord'.height \in Nat
  BY DEF StepsIInv, CoordSound, CoordType
<1>5. current.step \in Nat /\ current.height \in Nat /\ \A m \in mail : m.step \in Nat
  BY DEF StepsIInv, StepTypes, RoundType, MailType
<1>6. StepTypes' /\ PayloadsPlaced' /\ RoundsSound'
  BY <1>1, <1>3 DEF StepsIInv, StepTypes, PayloadsPlaced, RoundsSound
<1>7. VotesCounted' /\ StagesSound' /\ EarlySound'
  BY <1>1 DEF StepsIInv, VotesCounted, StagesSound, EarlySound
<1>8. StepsOrdered'
  <2>1. StepsOrdered
    BY DEF StepsIInv
  <2> QED
    BY <1>1, <1>4, <1>5, <2>1 DEF StepsOrdered, Training, Moved, SameEpoch
<1>9. InStep'
  <2>1. InStep
    BY DEF StepsIInv
  <2> SUFFICES ASSUME stage = "Running", ~missed, ~fresh
               PROVE  InStep'
    BY <1>1, <1>3 DEF InStep
  <2>2. CASE active = "Training"
    BY <1>1, <1>4, <2>1, <2>2 DEF InStep, Moved, SameEpoch
  <2>3. CASE active = "Witness"
    BY <1>1, <1>4, <1>5, <2>1, <2>3 DEF InStep, Moved, SameEpoch
  <2>4. CASE active = "Cooldown"
    BY <1>1, <2>1, <2>4 DEF InStep, Moved
  <2>5. CASE active = "Warmup"
    BY <1>1, <2>1, <2>5 DEF InStep, Moved, SameEpoch, IsMember
  <2>6. active \in {"Warmup", "Training", "Witness", "Cooldown"}
    BY DEF StepsIInv, StepTypes
  <2> QED
    BY <2>2, <2>3, <2>4, <2>5, <2>6
<1>10. VotesAssigned'
  <2> SUFFICES ASSUME ~missed, ~late, ~fresh
               PROVE  /\ \A m \in mail : m.step = coord'.step => m.results \subseteq coord'.prev_assigned
                      /\ coord'.vote.results \subseteq coord'.prev_assigned
    BY <1>1, <1>3 DEF VotesAssigned
  <2>1. /\ \A m \in mail : m.step = coord.step => m.results \subseteq coord.prev_assigned
        /\ coord.vote.results \subseteq coord.prev_assigned
    BY DEF StepsIInv, VotesAssigned
  <2>2. /\ \A m \in mail : m.step <= coord.step /\ (~Training(coord) => m.step < coord.step)
        /\ \A m \in mail : m.step <= coord'.step /\ (~Training(coord') => m.step < coord'.step)
    BY <1>1, <1>8 DEF StepsIInv, StepsOrdered
  <2>3. NoVote.results = {} /\ (~Training(coord) => coord.vote.results = {})
        /\ (~Training(coord') => coord'.vote.results = {})
    BY DEF StepsIInv, CoordSound, NoVote
  <2>4. CASE ~Training(coord')
    BY <1>4, <1>5, <2>2, <2>3, <2>4
  <2>5. CASE coord.run_state = "RoundTrain"
    BY <2>1, <2>5, <2>4 DEF Moved, SameEpoch
  <2>6. CASE coord.run_state = "RoundWitness"
    BY <1>4, <1>5, <2>2, <2>3, <2>4, <2>6 DEF Moved, Training
  <2>7. CASE coord.run_state = "Warmup"
    BY <1>4, <1>5, <2>2, <2>3, <2>4, <2>7 DEF Moved, Training, SameEpoch
  <2> QED
    BY <2>4, <2>5, <2>6, <2>7 DEF Moved, Training
<1>11. Agreement'
  <2> SUFFICES ASSUME ~missed, ~late, ~fresh, stage = "Running", active \in {"Training", "Witness"}
               PROVE  Agreement'
    BY <1>1, <1>3 DEF Agreement
  <2>1. Agreement /\ InStep
    BY DEF StepsIInv
  <2>2. CASE active = "Training"
    <3>1. coord.run_state = "RoundTrain"
      BY <2>1, <2>2 DEF InStep
    <3>2. /\ coord'.run_state = "RoundWitness" /\ SameEpoch(coord, coord')
          /\ coord'.assigned = coord.assigned /\ coord'.prev_assigned = coord.prev_assigned
      BY <3>1 DEF Moved
    <3> QED
      BY <1>1, <2>1, <2>2, <3>2 DEF Agreement, SameEpoch
  <2>3. CASE active = "Witness"
    <3>1. coord.run_state = "RoundWitness" /\ current.step = coord.step
      BY <2>1, <2>3 DEF InStep
    <3>2. current.step # coord'.step
      BY <1>4, <3>1 DEF Moved
    <3>3. /\ current.assigned = coord.assigned /\ previous.assigned = coord.prev_assigned
          /\ current.height # 0 => previous.step # 0
      BY <2>1, <2>3, <3>1 DEF Agreement
    <3>4. coord.vote.results \subseteq coord.prev_assigned
      BY DEF StepsIInv, VotesAssigned
    <3>5. coord'.run_state = "RoundTrain" => coord'.prev_assigned = coord.assigned /\ coord'.prev_vote = coord.vote
      BY <3>1 DEF Moved
    <3> QED
      BY <1>1, <2>3, <3>2, <3>3, <3>4, <3>5 DEF Agreement
  <2> QED
    BY <2>2, <2>3
<1>12. DesyncMeansBehind' /\ HealthChecksInTime'
  BY <1>1, <1>3 DEF StepsIInv, StagesSound, DesyncMeansBehind, HealthChecksInTime
<1> QED
  BY <1>6, <1>7, <1>8, <1>9, <1>10, <1>11, <1>12 DEF StepsIInv

\* The other events of the coordinator: a vote, of a witness or of Me.
LEMMA VotePreserves ==
    ASSUME StepsIInv, stage # "Failed", NEW v \in [cast : BOOLEAN, results : SUBSET Trainers],
           Training(coord), v.results \subseteq coord.prev_assigned \/ missed \/ late,
           coord' = [coord EXCEPT !.vote = v], mail' \subseteq mail,
           UNCHANGED <<fresh, missed, stage, init, failure, active, cs, roundVars, task,
                       outbox, warmup, ghostVars>>
    PROVE  StepsIInv'
<1>1. /\ missed' = missed /\ fresh' = fresh
      /\ stage' = stage /\ failure' = failure /\ active' = active /\ cs' = cs
      /\ current' = current /\ previous' = previous /\ payload' = payload /\ task' = task
      /\ outbox' = outbox /\ applied' = applied /\ lost' = lost /\ late' = late
  BY DEF roundVars, ghostVars
<1>2. coord \in CoordType
  BY DEF StepsIInv, CoordSound
<1>3. coord' \in CoordType /\ Counted(coord', [coord EXCEPT !.vote = v]) /\ coord'.vote = v
  BY <1>2 DEF CoordType, Counted
<1>4. /\ coord'.run_state = coord.run_state /\ coord'.step = coord.step /\ coord'.height = coord.height
      /\ coord'.last_step = coord.last_step /\ coord'.clients = coord.clients
      /\ coord'.assigned = coord.assigned /\ coord'.prev_assigned = coord.prev_assigned
      /\ coord'.prev_vote = coord.prev_vote
  BY <1>2 DEF CoordType
<1>5. CoordSound(coord')
  BY <1>3, <1>4 DEF StepsIInv, CoordSound, Training
<1>6. StepTypes' /\ PayloadsPlaced' /\ RoundsSound'
  BY <1>1 DEF StepsIInv, StepTypes, PayloadsPlaced, RoundsSound
<1>7. VotesCounted' /\ StagesSound' /\ EarlySound'
  BY <1>1 DEF StepsIInv, VotesCounted, StagesSound, EarlySound
<1>8. StepsOrdered' /\ InStep'
  BY <1>1, <1>4 DEF StepsIInv, StepsOrdered, InStep, Training, IsMember
<1>9. VotesAssigned'
  BY <1>1, <1>3, <1>4 DEF StepsIInv, VotesAssigned
<1>10. Agreement'
  BY <1>1, <1>4 DEF StepsIInv, Agreement
<1>11. DesyncMeansBehind' /\ HealthChecksInTime'
  BY <1>1, <1>4 DEF StepsIInv, StagesSound, DesyncMeansBehind, HealthChecksInTime
<1> QED
  BY <1>5, <1>6, <1>7, <1>8, <1>9, <1>10, <1>11 DEF StepsIInv

LEMMA WitnessesPreserve ==
    ASSUME StepsIInv, stage # "Failed", OtherWitnesses \/ WitnessArrives
    PROVE  StepsIInv'
<1>0. coord \in CoordType /\ mail \in SUBSET MailType
  BY DEF StepsIInv, CoordSound, StepTypes
<1>1. CASE OtherWitnesses
  <2>1. PICK results \in SUBSET coord.prev_assigned :
          coord' = [coord EXCEPT !.vote = [cast |-> TRUE, results |-> results]]
    BY <1>1 DEF OtherWitnesses
  <2>2. Training(coord) /\ mail' = mail
        /\ UNCHANGED <<fresh, missed, stage, init, failure, active, cs, roundVars, task,
                       outbox, warmup, ghostVars>>
    BY <1>1 DEF OtherWitnesses, Training
  <2> DEFINE v == [cast |-> TRUE, results |-> results]
  <2>3. v \in [cast : BOOLEAN, results : SUBSET Trainers] /\ v.results \subseteq coord.prev_assigned
    BY <1>0 DEF CoordType
  <2>4. coord' = [coord EXCEPT !.vote = v]
    BY <2>1
  <2> HIDE DEF v
  <2> QED
    BY <2>2, <2>3, <2>4, VotePreserves
<1>2. CASE WitnessArrives
  <2>1. PICK m \in mail :
          /\ mail' = mail \ {m}
          /\ coord' = IF /\ coord.run_state \in {"RoundTrain", "RoundWitness"}
                         /\ coord.elected = Me /\ IsMember(coord, Me)
                         /\ ~coord.vote.cast
                      THEN [coord EXCEPT !.vote =
                              [cast |-> TRUE,
                               results |-> IF m.step = coord.step THEN m.results
                                                                  ELSE {}]]
                      ELSE coord
          /\ UNCHANGED <<fresh, missed, stage, init, failure, active, cs, roundVars,
                         task, outbox, warmup, ghostVars>>
    BY <1>2 DEF WitnessArrives
  <2> DEFINE v == [cast |-> TRUE, results |-> IF m.step = coord.step THEN m.results ELSE {}]
  <2>2. v \in [cast : BOOLEAN, results : SUBSET Trainers]
    BY <1>0 DEF MailType
  <2>3. v.results \subseteq coord.prev_assigned \/ missed \/ late
    BY DEF StepsIInv, VotesAssigned
  <2>4. (coord' = [coord EXCEPT !.vote = v] /\ Training(coord)) \/ coord' = coord
    BY <2>1 DEF Training
  <2> HIDE DEF v
  <2>5. CASE coord' = [coord EXCEPT !.vote = v] /\ Training(coord)
    BY <2>1, <2>2, <2>3, <2>5, VotePreserves
  <2>6. CASE coord' = coord
    <3>1. /\ missed' = missed /\ fresh' = fresh /\ mail' \subseteq mail
          /\ stage' = stage /\ failure' = failure /\ active' = active /\ cs' = cs
          /\ current' = current /\ previous' = previous /\ payload' = payload /\ task' = task
          /\ outbox' = outbox /\ applied' = applied /\ lost' = lost /\ late' = late
      BY <2>1 DEF roundVars, ghostVars
    <3>2. CoordSound(coord)' /\ StepTypes' /\ PayloadsPlaced' /\ RoundsSound'
      BY <2>6, <3>1 DEF StepsIInv, StepTypes, PayloadsPlaced, RoundsSound
    <3>3. VotesCounted' /\ StagesSound' /\ EarlySound'
      BY <3>1 DEF StepsIInv, VotesCounted, StagesSound, EarlySound
    <3>4. StepsOrdered' /\ InStep' /\ VotesAssigned'
      BY <2>6, <3>1 DEF StepsIInv, StepsOrdered, InStep, VotesAssigned
    <3>5. Agreement' /\ DesyncMeansBehind' /\ HealthChecksInTime'
      BY <2>6, <3>1 DEF StepsIInv, Agreement, DesyncMeansBehind, HealthChecksInTime
    <3> QED
      BY <3>2, <3>3, <3>4, <3>5 DEF StepsIInv
  <2> QED
    BY <2>4, <2>5, <2>6
<1> QED
  BY <1>1, <1>2

-----------------------------------------------------------------------------
(* Messages and tasks. *)

\* What the invariant knows of a round but for its results.
SameShape(r, q) ==
    /\ q.step = r.step /\ q.height = r.height /\ q.sent_witness = r.sent_witness
    /\ q.assigned = r.assigned /\ q.votes = r.votes /\ q.early = r.early

\* Of the coordinator only the results that it was told of have changed.
SameCoord ==
    /\ coord' \in CoordType
    /\ coord'.run_state = coord.run_state /\ coord'.step = coord.step
    /\ coord'.height = coord.height /\ coord'.last_step = coord.last_step
    /\ coord'.clients = coord.clients /\ coord'.assigned = coord.assigned
    /\ coord'.prev_assigned = coord.prev_assigned /\ coord'.vote = coord.vote
    /\ coord'.prev_vote = coord.prev_vote

LEMMA RoundsPreserve ==
    ASSUME StepsIInv, SameCoord,
           current' \in RoundType, previous' \in RoundType,
           payload' \in [Steps -> [Trainers -> PayloadStates]], outbox' \in SUBSET Steps,
           SameShape(current, current'), SameShape(previous, previous'),
           RoundSound(current', payload'), RoundSound(previous', payload'), PayloadsPlaced',
           \A s \in Steps, t \in Trainers :
              payload[s][t] \in Deserialized => payload'[s][t] \in Deserialized,
           UNCHANGED <<mail, fresh, missed, stage, failure, active, cs, task, applied, lost, late>>
    PROVE  StepsIInv'
<1>1. /\ missed' = missed /\ fresh' = fresh /\ mail' = mail
      /\ stage' = stage /\ failure' = failure /\ active' = active /\ cs' = cs
      /\ task' = task /\ applied' = applied /\ lost' = lost /\ late' = late
  OBVIOUS
<1>2. CoordSound(coord')
  BY DEF StepsIInv, CoordSound, SameCoord, Training
<1>3. StepTypes' /\ RoundsSound'
  BY <1>1 DEF StepsIInv, StepTypes, RoundsSound
<1>4. VotesCounted'
  BY DEF StepsIInv, VotesCounted, SameShape
<1>5. StagesSound'
  BY <1>1 DEF StepsIInv, StagesSound
<1>6. EarlySound'
  <2>1. /\ previous.assigned \subseteq Trainers /\ task.assigned \subseteq Trainers
        /\ previous.assigned # {} => previous.step \in Steps
        /\ task.step # 0 /\ task.assigned # {} => task.step \in Steps
    BY DEF StepsIInv, StepTypes, RoundType, TaskType, RoundsSound, RoundSound, EarlySound
  <2>2. EarlySound
    BY DEF StepsIInv
  <2>3. previous'.early => \A t \in previous'.assigned : payload'[previous'.step][t] \in Deserialized
    BY <2>1, <2>2 DEF EarlySound, SameShape
  <2>4. task.early /\ task.step # 0 => \A t \in task.assigned : payload'[task.step][t] \in Deserialized
    BY <2>1, <2>2 DEF EarlySound
  <2> QED
    BY <1>1, <2>2, <2>3, <2>4 DEF EarlySound
<1>7. StepsOrdered'
  BY <1>1 DEF StepsIInv, StepsOrdered, SameCoord, SameShape, Training
<1>8. InStep'
  BY <1>1 DEF StepsIInv, InStep, SameCoord, SameShape, IsMember
<1>9. VotesAssigned'
  BY <1>1 DEF StepsIInv, VotesAssigned, SameCoord
<1>10. Agreement'
  BY <1>1 DEF StepsIInv, Agreement, SameCoord, SameShape
<1>11. DesyncMeansBehind' /\ HealthChecksInTime'
  BY <1>1 DEF StepsIInv, DesyncMeansBehind, HealthChecksInTime, SameCoord
<1> QED
  BY <1>2, <1>3, <1>4, <1>5, <1>6, <1>7, <1>8, <1>9, <1>10, <1>11 DEF StepsIInv

\* A result moves on, and its round with it.
ResultMoves(step, from, new, q) ==
    /\ step \in {current.step, previous.step, task.step}
    /\ payload[step][from] \notin Deserialized
    /\ payload' = [payload EXCEPT ![step][from] = new]
    /\ \/ /\ step \in {current.step, previous.step}
          /\ q \in RoundType /\ SameShape(RoundOf(step), q) /\ RoundSound(q, payload')
          /\ WithRound(step, q)
       \/ /\ step \notin {current.step, previous.step}
          /\ UNCHANGED <<current, previous>>

\* Nothing else of the client changes but the results that it has to announce.
OthersKept ==
    /\ SameCoord /\ outbox' \in SUBSET Steps
    /\ UNCHANGED <<mail, fresh, missed, stage, failure, active, cs, task, applied, lost, late>>

\* A result of one of the two rounds, or of the one that is applied, moves on.
LEMMA ResultPreserves ==
    ASSUME StepsIInv, NEW step \in Steps, NEW from \in Trainers,
           NEW new \in PayloadStates, NEW q,
           ResultMoves(step, from, new, q), OthersKept
    PROVE  StepsIInv'
<1> USE DEF ResultMoves, OthersKept
<1>0. payload \in [Steps -> [Trainers -> PayloadStates]] /\ current \in RoundType /\ previous \in RoundType
  BY DEF StepsIInv, StepTypes
<1>1. /\ payload' \in [Steps -> [Trainers -> PayloadStates]]
      /\ payload'[step][from] = new
      /\ \A s \in Steps, t \in Trainers : (s # step \/ t # from) => payload'[s][t] = payload[s][t]
      /\ \A s \in Steps : s # step => payload'[s] = payload[s]
  BY <1>0
<1>2. \A s \in Steps, t \in Trainers :
              payload[s][t] \in Deserialized => payload'[s][t] \in Deserialized
  BY <1>1
<1>3. \A r \in RoundType : r.step # step /\ RoundSound(r, payload) => RoundSound(r, payload')
  <2> SUFFICES ASSUME NEW r \in RoundType, r.step # step, RoundSound(r, payload)
               PROVE  RoundSound(r, payload')
    OBVIOUS
  <2>1. r.assigned \subseteq Trainers
    BY DEF RoundType
  <2>2. r.step \in Steps => payload'[r.step] = payload[r.step]
    BY <1>1
  <2> QED
    BY <2>1, <2>2 DEF RoundSound
<1>4. RoundSound(current, payload) /\ RoundSound(previous, payload)
  BY DEF StepsIInv, RoundsSound
<1>5. current.step = step => previous.step # step
  BY <1>0 DEF StepsIInv, StepsOrdered, Steps, RoundType
<1>6. /\ current' \in RoundType /\ previous' \in RoundType
      /\ SameShape(current, current') /\ SameShape(previous, previous')
      /\ RoundSound(current', payload') /\ RoundSound(previous', payload')
  <2>1. CASE current.step = step
    BY <1>0, <1>3, <1>4, <1>5, <2>1 DEF RoundOf, WithRound, SameShape
  <2>2. CASE current.step # step /\ previous.step = step
    BY <1>0, <1>3, <1>4, <2>2 DEF RoundOf, WithRound, SameShape
  <2>3. CASE step \notin {current.step, previous.step}
    BY <1>0, <1>3, <1>4, <2>3 DEF SameShape
  <2> QED
    BY <2>1, <2>2, <2>3
<1>7. PayloadsPlaced'
  <2>1. PayloadsPlaced /\ current'.step = current.step /\ previous'.step = previous.step
        /\ task' = task
    BY <1>6 DEF StepsIInv, SameShape
  <2> QED
    BY <1>1, <2>1 DEF PayloadsPlaced
<1> QED
  BY <1>1, <1>2, <1>6, <1>7, RoundsPreserve

\* Nothing but what clients publish, or nothing, happens to the coordinator.
LEMMA CoordKept ==
    ASSUME CoordSound(coord), coord' = coord
    PROVE  SameCoord
  BY DEF CoordSound, SameCoord

LEMMA AnnouncementsPreserve ==
    ASSUME StepsIInv, AnnounceOwnResult \/ \E step \in Steps : ResultAnnounced(step)
    PROVE  StepsIInv'
<1>0. /\ CoordSound(coord) /\ coord \in CoordType /\ outbox \in SUBSET Steps
      /\ payload \in [Steps -> [Trainers -> PayloadStates]]
      /\ current \in RoundType /\ previous \in RoundType
      /\ RoundSound(current, payload) /\ RoundSound(previous, payload)
  BY DEF StepsIInv, CoordSound, StepTypes, RoundsSound
<1>1. ASSUME NEW step \in Steps, NEW from \in Trainers, AcceptsResult(from, step), SameCoord,
             WithRound(step, [RoundOf(step) EXCEPT !.results = @ \cup {from}]),
             payload' = [payload EXCEPT ![step][from] = "Downloading"],
             outbox' \in SUBSET Steps,
             UNCHANGED <<mail, fresh, missed, stage, failure, active, cs, task, applied, lost, late>>
      PROVE  StepsIInv'
  <2> DEFINE r == RoundOf(step)
             q == [r EXCEPT !.results = @ \cup {from}]
  <2>1. step \in {current.step, previous.step} /\ from \in r.assigned /\ payload[step][from] = "none"
    BY <1>1 DEF AcceptsResult, Accepts
  <2>2. r \in RoundType /\ RoundSound(r, payload) /\ r.step = step
    BY <1>0, <2>1 DEF RoundOf
  <2>3. WithRound(step, q)
    BY <1>1
  <2> HIDE DEF r
  <2>4. q \in RoundType /\ SameShape(r, q)
    BY <2>2 DEF RoundType, SameShape
  <2>5. q.step = r.step /\ q.assigned = r.assigned /\ q.bloom = r.bloom /\ q.remaining = r.remaining
        /\ q.complete = r.complete /\ r.assigned \subseteq Trainers
    BY <2>2 DEF RoundType
  <2> HIDE DEF q
  <2>6. \A t \in Trainers : payload'[step][t] = IF t = from THEN "Downloading" ELSE payload[step][t]
    BY <1>0, <1>1
  <2>7. RoundSound(q, payload')
    BY <2>1, <2>2, <2>5, <2>6 DEF RoundSound, Arrived
  <2>8. "Downloading" \in PayloadStates /\ SameShape(RoundOf(step), q)
    BY <2>4 DEF PayloadStates, r
  <2>9. ResultMoves(step, from, "Downloading", q) /\ OthersKept
    BY <1>1, <2>1, <2>3, <2>4, <2>7, <2>8 DEF ResultMoves, OthersKept, Deserialized
  <2> QED
    BY <2>8, <2>9, ResultPreserves
<1>2. CASE AnnounceOwnResult
  <2>1. PICK step \in outbox :
       /\ outbox' = outbox \ {step}
       /\ IF AcceptsResult(Me, step)
          THEN /\ WithRound(step, [RoundOf(step) EXCEPT !.results = @ \cup {Me}])
               /\ payload' = [payload EXCEPT ![step][Me] = "Downloading"]
          ELSE UNCHANGED roundVars
       /\ coord' = [coord EXCEPT !.published =
             IF step + 1 >= coord.step THEN @ \cup {step} ELSE @]
       /\ UNCHANGED <<mail, fresh, missed, stage, init, failure, active, cs, task,
                      warmup, ghostVars>>
    BY <1>2 DEF AnnounceOwnResult
  <2>2. step \in Steps /\ outbox' \in SUBSET Steps /\ Me \in Trainers
    BY <1>0, <2>1 DEF Trainers
  <2> DEFINE published == IF step + 1 >= coord.step THEN coord.published \cup {step} ELSE coord.published
  <2>3. published \in SUBSET Steps /\ coord' = [coord EXCEPT !.published = published]
    BY <1>0, <2>1, <2>2 DEF CoordType
  <2> HIDE DEF published
  <2>4. SameCoord
    BY <1>0, <2>3 DEF SameCoord, CoordType
  <2>5. UNCHANGED <<mail, fresh, missed, stage, failure, active, cs, task, applied, lost, late>>
    BY <2>1 DEF ghostVars
  <2>6. CASE AcceptsResult(Me, step)
    BY <1>1, <2>1, <2>2, <2>4, <2>5, <2>6
  <2>7. CASE ~AcceptsResult(Me, step)
    <3>1. current' = current /\ previous' = previous /\ payload' = payload
      BY <2>1, <2>7 DEF roundVars
    <3>2. PayloadsPlaced' /\ SameShape(current, current') /\ SameShape(previous, previous')
      BY <2>5, <3>1 DEF StepsIInv, PayloadsPlaced, SameShape
    <3> QED
      BY <1>0, <2>2, <2>4, <2>5, <3>1, <3>2, RoundsPreserve
  <2> QED
    BY <2>6, <2>7
<1>3. ASSUME NEW step \in Steps, ResultAnnounced(step)
      PROVE  StepsIInv'
  <2>1. /\ AcceptsResult(Other, step)
        /\ WithRound(step, [RoundOf(step) EXCEPT !.results = @ \cup {Other}])
        /\ payload' = [payload EXCEPT ![step][Other] = "Downloading"]
        /\ UNCHANGED <<coordVars, stage, init, failure, active, cs, task, outbox,
                       warmup, ghostVars>>
    BY <1>3 DEF ResultAnnounced
  <2>2. coord' = coord /\ outbox' = outbox /\ Other \in Trainers
        /\ UNCHANGED <<mail, fresh, missed, stage, failure, active, cs, task, applied, lost, late>>
    BY <2>1 DEF coordVars, ghostVars, Trainers
  <2>3. SameCoord /\ outbox' \in SUBSET Steps
    BY <1>0, <2>2, CoordKept
  <2> QED
    BY <1>1, <2>1, <2>2, <2>3
<1> QED
  BY <1>2, <1>3

\* The tasks that take a result from its download to the form in which it is applied.
LEMMA ArrivalsPreserve ==
    ASSUME StepsIInv, NEW step \in Steps, NEW from \in Trainers,
           \/ ResultArrives(step, from) \/ NoteComplete(step, from) \/ DeserializeEnds(step, from)
    PROVE  StepsIInv'
<1>0. /\ CoordSound(coord) /\ outbox \in SUBSET Steps
      /\ payload \in [Steps -> [Trainers -> PayloadStates]]
      /\ current \in RoundType /\ previous \in RoundType
      /\ RoundSound(current, payload) /\ RoundSound(previous, payload)
  BY DEF StepsIInv, CoordSound, StepTypes, RoundsSound
<1>1. OthersKept
  <2>1. coord' = coord /\ outbox' = outbox
        /\ UNCHANGED <<mail, fresh, missed, stage, failure, active, cs, task, applied, lost, late>>
    BY DEF ResultArrives, NoteComplete, DeserializeEnds, coordVars, ghostVars
  <2> QED
    BY <1>0, <2>1, CoordKept DEF OthersKept
<1>2. payload[step][from] \notin Deserialized \cup {"none"}
  BY DEF ResultArrives, NoteComplete, DeserializeEnds, Deserialized
<1>3. step \in {current.step, previous.step, task.step}
  <2>1. payload[step] # NoPayloads
    BY <1>2 DEF NoPayloads
  <2> QED
    BY <2>1 DEF StepsIInv, PayloadsPlaced
<1> DEFINE r == RoundOf(step)
<1>4. step \in {current.step, previous.step} => r \in RoundType /\ RoundSound(r, payload) /\ r.step = step
  BY <1>0 DEF RoundOf
<1> HIDE DEF r
<1>5. r \in RoundType => r.assigned \subseteq Trainers
  BY DEF RoundType
<1>6. CASE ResultArrives(step, from)
  <2> DEFINE bloom == IF r.complete THEN r.bloom ELSE r.bloom \cup {from}
             remaining == r.remaining \ {from}
             q == [r EXCEPT !.bloom = bloom, !.remaining = remaining]
  <2>1. payload' = [payload EXCEPT ![step][from] = "Voted"] /\ "Voted" \in PayloadStates
    BY <1>6 DEF ResultArrives, PayloadStates
  <2>2. \A t \in Trainers : payload'[step][t] = IF t = from THEN "Voted" ELSE payload[step][t]
    BY <1>0, <2>1
  <2>3. CASE step \in {current.step, previous.step}
    <3>1. WithRound(step, q)
      BY <1>6, <2>3 DEF ResultArrives, r
    <3>2. bloom \in SUBSET Trainers /\ remaining \in SUBSET Trainers
      BY <1>4, <2>3 DEF RoundType
    <3>3. bloom \subseteq r.bloom \cup {from} /\ remaining \subseteq r.remaining
          /\ \A t \in Trainers : t \notin remaining => t = from \/ t \notin r.remaining
      OBVIOUS
    <3> HIDE DEF bloom, remaining
    <3>4. q \in RoundType /\ SameShape(r, q)
      BY <1>4, <2>3, <3>2 DEF RoundType, SameShape
    <3>5. q.step = step /\ q.assigned = r.assigned /\ q.bloom = bloom /\ q.remaining = remaining
          /\ q.complete = r.complete
      BY <1>4, <2>3 DEF RoundType
    <3> HIDE DEF q
    <3>6. from \in r.assigned
      BY <1>2, <1>4, <2>3 DEF RoundSound
    <3>7. RoundSound(q, payload')
      BY <1>4, <1>5, <2>2, <2>3, <3>3, <3>5, <3>6 DEF RoundSound, Arrived
    <3>8. ResultMoves(step, from, "Voted", q)
      BY <1>2, <1>3, <2>1, <2>3, <3>1, <3>4, <3>7 DEF ResultMoves, r
    <3> QED
      BY <1>1, <2>1, <3>8, ResultPreserves
  <2>4. CASE step \notin {current.step, previous.step}
    <3>1. UNCHANGED <<current, previous>>
      BY <1>6, <2>4 DEF ResultArrives
    <3>2. ResultMoves(step, from, "Voted", q)
      BY <1>2, <1>3, <2>1, <2>4, <3>1 DEF ResultMoves
    <3> HIDE DEF q
    <3> QED
      BY <1>1, <2>1, <3>2, ResultPreserves
  <2> QED
    BY <2>3, <2>4
<1>7. CASE NoteComplete(step, from)
  <2> DEFINE q == IF r.remaining = {} THEN [r EXCEPT !.complete = TRUE] ELSE r
  <2>1. payload' = [payload EXCEPT ![step][from] = "Deserializing"] /\ "Deserializing" \in PayloadStates
        /\ payload[step][from] = "Voted"
    BY <1>7 DEF NoteComplete, PayloadStates
  <2>2. \A t \in Trainers : payload'[step][t] = IF t = from THEN "Deserializing" ELSE payload[step][t]
    BY <1>0, <2>1
  <2>3. CASE step \in {current.step, previous.step}
    <3>1. WithRound(step, q)
      BY <1>7, <2>3 DEF NoteComplete, r, RoundOf, WithRound
    <3>2. q \in RoundType /\ SameShape(r, q)
      BY <1>4, <2>3 DEF RoundType, SameShape
    <3>3. q.step = step /\ q.assigned = r.assigned /\ q.bloom = r.bloom /\ q.remaining = r.remaining
          /\ (q.complete => r.complete \/ r.remaining = {})
      BY <1>4, <2>3 DEF RoundType
    <3> HIDE DEF q
    <3>4. RoundSound(q, payload')
      BY <1>4, <1>5, <2>1, <2>2, <2>3, <3>3 DEF RoundSound, Arrived
    <3>5. ResultMoves(step, from, "Deserializing", q)
      BY <1>3, <2>1, <2>3, <3>1, <3>2, <3>4 DEF ResultMoves, r, Deserialized
    <3> QED
      BY <1>1, <2>1, <3>5, ResultPreserves
  <2>4. CASE step \notin {current.step, previous.step}
    <3>1. UNCHANGED <<current, previous>>
      BY <1>7, <2>4 DEF NoteComplete
    <3>2. ResultMoves(step, from, "Deserializing", q)
      BY <1>3, <2>1, <2>4, <3>1 DEF ResultMoves, Deserialized
    <3> HIDE DEF q
    <3> QED
      BY <1>1, <2>1, <3>2, ResultPreserves
  <2> QED
    BY <2>3, <2>4
<1>8. CASE DeserializeEnds(step, from)
  <2>0. PICK new \in Deserialized : payload' = [payload EXCEPT ![step][from] = new]
    BY <1>8 DEF DeserializeEnds
  <2>1. /\ payload' = [payload EXCEPT ![step][from] = new]
        /\ new \in PayloadStates /\ new \in Arrived /\ payload[step][from] \notin Deserialized
        /\ payload[step][from] = "Deserializing" /\ UNCHANGED <<current, previous>>
    BY <1>8, <2>0 DEF DeserializeEnds, Deserialized, PayloadStates, Arrived
  <2>2. \A t \in Trainers : payload'[step][t] = IF t = from THEN new ELSE payload[step][t]
    BY <1>0, <2>1
  <2>3. CASE step \in {current.step, previous.step}
    <3>1. WithRound(step, r) /\ SameShape(r, r)
      BY <2>1, <2>3 DEF r, RoundOf, WithRound, SameShape
    <3>2. RoundSound(r, payload')
      BY <1>4, <1>5, <2>1, <2>2, <2>3 DEF RoundSound, Arrived
    <3>3. ResultMoves(step, from, new, r)
      BY <1>3, <1>4, <2>1, <2>3, <3>1, <3>2 DEF ResultMoves, r
    <3> QED
      BY <1>1, <2>1, <3>3, ResultPreserves
  <2>4. CASE step \notin {current.step, previous.step}
    <3>1. ResultMoves(step, from, new, r)
      BY <1>3, <2>1, <2>4 DEF ResultMoves
    <3> QED
      BY <1>1, <2>1, <3>1, ResultPreserves
  <2> QED
    BY <2>3, <2>4
<1> QED
  BY <1>6, <1>7, <1>8

\* The finished broadcasts only change who has finished.
LEMMA FinishedPreserve ==
    ASSUME StepsIInv,
           \/ FinishedReceived \/ WarmupFinishedReceived \/ SendFinished
           \/ SendWarmupFinished \/ SendWarmupWitness \/ InitRunEnds
    PROVE  StepsIInv'
<1>0. /\ CoordSound(coord) /\ outbox \in SUBSET Steps
      /\ payload \in [Steps -> [Trainers -> PayloadStates]]
      /\ current \in RoundType /\ previous \in RoundType
      /\ RoundSound(current, payload) /\ RoundSound(previous, payload)
      /\ cs.clients \in Seq({Me, Other, Extra})
  BY DEF StepsIInv, CoordSound, StepTypes, RoundsSound, Everybody
<1>1. coord' = coord /\ outbox' = outbox /\ payload' = payload /\ previous' = previous
      /\ UNCHANGED <<mail, fresh, missed, stage, failure, active, cs, task, applied, lost, late>>
  BY DEF FinishedReceived, WarmupFinishedReceived, SendFinished, SendWarmupFinished,
         SendWarmupWitness, InitRunEnds, coordVars, roundVars, ghostVars
<1>2. Range(cs.clients) \subseteq {Me, Other, Extra}
  BY <1>0 DEF Range
<1>3. \E f \in SUBSET {Me, Other, Extra}, b \in BOOLEAN :
        current' = [current EXCEPT !.finished = f, !.sent_finished = b]
  <2>0. /\ current.finished \in SUBSET {Me, Other, Extra} /\ current.sent_finished \in BOOLEAN
        /\ current = [current EXCEPT !.finished = current.finished, !.sent_finished = current.sent_finished]
    BY <1>0 DEF RoundType
  <2>1. CASE FinishedReceived
    <3> DEFINE f == current.finished \cup {c \in Range(cs.clients) \ {Me} : Accepts(c, current.step)}
    <3>1. current' = [current EXCEPT !.finished = f] /\ f \in SUBSET {Me, Other, Extra}
      BY <1>2, <2>0, <2>1 DEF FinishedReceived
    <3> HIDE DEF f
    <3>2. current' = [current EXCEPT !.finished = f, !.sent_finished = current.sent_finished]
      BY <1>0, <3>1 DEF RoundType
    <3> QED
      BY <2>0, <3>1, <3>2
  <2>2. CASE WarmupFinishedReceived
    <3> DEFINE f == current.finished \cup (Range(cs.clients) \ {Me})
    <3>1. current' = [current EXCEPT !.finished = f] /\ f \in SUBSET {Me, Other, Extra}
      BY <1>2, <2>0, <2>2 DEF WarmupFinishedReceived
    <3> HIDE DEF f
    <3>2. current' = [current EXCEPT !.finished = f, !.sent_finished = current.sent_finished]
      BY <1>0, <3>1 DEF RoundType
    <3> QED
      BY <2>0, <3>1, <3>2
  <2>3. CASE SendFinished
    <3> DEFINE f == current.finished \cup {Me}
    <3>1. current' = [current EXCEPT !.sent_finished = TRUE, !.finished = f] /\ f \in SUBSET {Me, Other, Extra}
      BY <2>0, <2>3 DEF SendFinished
    <3> HIDE DEF f
    <3>2. current' = [current EXCEPT !.finished = f, !.sent_finished = TRUE]
      BY <1>0, <3>1 DEF RoundType
    <3> QED
      BY <2>0, <3>1, <3>2
  <2>4. CASE SendWarmupFinished
    <3> DEFINE f == IF IsMember(cs, Me) THEN current.finished \cup {Me} ELSE current.finished
    <3>1. current' = [current EXCEPT !.finished = f] /\ f \in SUBSET {Me, Other, Extra}
      BY <2>0, <2>4 DEF SendWarmupFinished
    <3> HIDE DEF f
    <3>2. current' = [current EXCEPT !.finished = f, !.sent_finished = current.sent_finished]
      BY <1>0, <3>1 DEF RoundType
    <3> QED
      BY <2>0, <3>1, <3>2
  <2>5. CASE SendWarmupWitness \/ InitRunEnds
    BY <2>0, <2>5 DEF SendWarmupWitness, InitRunEnds, roundVars
  <2> QED
    BY <2>1, <2>2, <2>3, <2>4, <2>5
<1>4. PICK f \in SUBSET {Me, Other, Extra}, b \in BOOLEAN :
        current' = [current EXCEPT !.finished = f, !.sent_finished = b]
  BY <1>3
<1>5. /\ current' \in RoundType /\ SameShape(current, current') /\ SameShape(previous, previous')
      /\ current'.bloom = current.bloom /\ current'.remaining = current.remaining
      /\ current'.complete = current.complete
  BY <1>0, <1>1, <1>4 DEF RoundType, SameShape
<1>6. RoundSound(current', payload') /\ RoundSound(previous', payload')
  BY <1>0, <1>1, <1>5 DEF RoundSound, SameShape
<1>7. PayloadsPlaced' /\ SameCoord
  BY <1>0, <1>1, <1>5, CoordKept DEF StepsIInv, PayloadsPlaced, SameShape
<1> QED
  BY <1>0, <1>1, <1>5, <1>6, <1>7, RoundsPreserve

-----------------------------------------------------------------------------
(* The witness of Me, and the training task. *)

\* A complete round whose payloads are there: a witness goes out early.
LEMMA OpportunisticWitnessPreserves ==
    ASSUME StepsIInv, SendOpportunisticWitness
    PROVE  StepsIInv'
<1>0. /\ CoordSound(coord) /\ coord.step \in Nat /\ coord.height \in Nat
      /\ payload \in [Steps -> [Trainers -> PayloadStates]]
      /\ current \in RoundType /\ previous \in RoundType
      /\ RoundSound(previous, payload) /\ mail \in SUBSET MailType
  BY DEF StepsIInv, CoordSound, CoordType, StepTypes, RoundsSound
<1>1. /\ stage = "Running" /\ active = "Training" /\ previous.complete
      /\ \A t \in Trainers : previous.step \in Steps => payload[previous.step][t] \in Deserialized \cup {"none"}
      /\ ~previous.sent_witness
      /\ mail' = mail \cup {[step |-> current.step, results |-> previous.bloom]}
      /\ coord' = coord /\ fresh' = fresh /\ missed' = missed /\ stage' = stage
      /\ failure' = failure /\ active' = active /\ cs' = cs /\ current' = current
      /\ payload' = payload /\ task' = task /\ outbox' = outbox
      /\ applied' = applied /\ lost' = lost /\ late' = late
  BY DEF SendOpportunisticWitness, DoneWithPrevious, HasWitness, ghostVars
<1>2. \E n \in Nat : n = previous.votes + 1
  BY <1>0 DEF RoundType
<1>3. PICK n \in Nat : n = previous.votes + 1
  BY <1>2
<1>4. previous' = [previous EXCEPT !.sent_witness = TRUE, !.votes = n, !.early = TRUE]
  BY <1>0, <1>3 DEF SendOpportunisticWitness, GetWitness, RoundType
<1>5. /\ previous' \in RoundType
      /\ previous'.step = previous.step /\ previous'.height = previous.height
      /\ previous'.assigned = previous.assigned /\ previous'.bloom = previous.bloom
      /\ previous'.remaining = previous.remaining /\ previous'.complete = previous.complete
      /\ previous'.sent_witness /\ previous'.votes = n
  BY <1>0, <1>4 DEF RoundType
<1>6. n <= 1
  BY <1>0, <1>1, <1>3 DEF StepsIInv, VotesCounted, RoundType
<1>7. \A t \in previous.assigned : payload[previous.step][t] \in Deserialized
  <2> SUFFICES ASSUME NEW t \in previous.assigned
               PROVE  payload[previous.step][t] \in Deserialized
    OBVIOUS
  <2>1. t \in Trainers /\ previous.step \in Steps /\ t \notin previous.remaining
    BY <1>0, <1>1 DEF RoundSound, RoundType
  <2>2. payload[previous.step][t] \in Arrived
    BY <1>0, <2>1 DEF RoundSound
  <2> QED
    BY <1>1, <2>1, <2>2 DEF Arrived, Deserialized
<1> DEFINE w == [step |-> current.step, results |-> previous.bloom]
<1>8. w \in MailType /\ w.step = current.step /\ w.results = previous.bloom
  BY <1>0 DEF MailType, RoundType
<1>9. mail' = mail \cup {w}
  BY <1>1
<1> HIDE DEF w
<1>10. CoordSound(coord)' /\ StepTypes' /\ PayloadsPlaced' /\ RoundsSound'
  <2>1. StepTypes'
    BY <1>1, <1>5, <1>8, <1>9 DEF StepsIInv, StepTypes
  <2>2. PayloadsPlaced'
    BY <1>1, <1>5 DEF StepsIInv, PayloadsPlaced
  <2>3. RoundsSound'
    BY <1>1, <1>5 DEF StepsIInv, RoundsSound, RoundSound
  <2> QED
    BY <1>0, <1>1, <2>1, <2>2, <2>3
<1>11. VotesCounted' /\ StagesSound'
  BY <1>1, <1>5, <1>6 DEF StepsIInv, VotesCounted, StagesSound
<1>12. EarlySound'
  BY <1>1, <1>5, <1>7 DEF StepsIInv, EarlySound
<1>13. StepsOrdered'
  <2>1. StepsOrdered /\ current.step \in Nat
    BY <1>0 DEF StepsIInv, RoundType
  <2> QED
    BY <1>0, <1>1, <1>5, <1>8, <1>9, <2>1 DEF StepsOrdered
<1>14. InStep'
  BY <1>1 DEF StepsIInv, InStep
<1>15. VotesAssigned'
  <2> SUFFICES ASSUME ~missed, ~late
               PROVE  VotesAssigned'
    BY <1>1 DEF VotesAssigned
  <2>1. current.step = coord.step => previous.assigned = coord.prev_assigned
    BY <1>1 DEF StepsIInv, Agreement
  <2>2. previous.bloom \subseteq previous.assigned
    BY <1>0 DEF RoundSound
  <2> QED
    BY <1>1, <1>8, <1>9, <2>1, <2>2 DEF StepsIInv, VotesAssigned
<1>16. Agreement'
  BY <1>1, <1>5 DEF StepsIInv, Agreement
<1>17. DesyncMeansBehind' /\ HealthChecksInTime'
  BY <1>1 DEF StepsIInv, DesyncMeansBehind, HealthChecksInTime
<1> QED
  BY <1>10, <1>11, <1>12, <1>13, <1>14, <1>15, <1>16, <1>17 DEF StepsIInv

\* The training task of a step moves on.
LEMMA TaskPreserves ==
    ASSUME StepsIInv, active = "Training",
           task' \in TaskType, outbox' \in SUBSET Steps, lost' \in SUBSET Trainers,
           task'.step = task.step, task'.assigned = task.assigned, task'.vote = task.vote,
           task'.early = task.early, task'.checks = task.checks,
           task'.phase = "error" => ~task.early,
           task'.phase \in {task.phase, "training", "error"},
           ~missed /\ ~late /\ stage = "Running" /\ task'.phase = "training"
              /\ current.step = coord.step /\ coord.height >= 2
                 => applied' \cup lost' = coord.prev_vote.results,
           UNCHANGED <<coordVars, stage, failure, active, cs, roundVars, late>>
    PROVE  StepsIInv'
<1>1. /\ coord' = coord /\ mail' = mail /\ fresh' = fresh /\ missed' = missed /\ stage' = stage
      /\ failure' = failure /\ active' = active /\ cs' = cs /\ current' = current
      /\ previous' = previous /\ payload' = payload /\ late' = late
  BY DEF coordVars, roundVars
<1>2. CoordSound(coord)' /\ StepTypes' /\ PayloadsPlaced' /\ RoundsSound'
  BY <1>1 DEF StepsIInv, StepTypes, PayloadsPlaced, RoundsSound
<1>3. VotesCounted' /\ StagesSound' /\ EarlySound'
  BY <1>1 DEF StepsIInv, VotesCounted, StagesSound, EarlySound
<1>4. StepsOrdered' /\ InStep' /\ VotesAssigned'
  BY <1>1 DEF StepsIInv, StepsOrdered, InStep, VotesAssigned
<1>5. Agreement'
  BY <1>1 DEF StepsIInv, Agreement
<1>6. DesyncMeansBehind' /\ HealthChecksInTime'
  BY <1>1 DEF StepsIInv, DesyncMeansBehind, HealthChecksInTime
<1> QED
  BY <1>2, <1>3, <1>4, <1>5, <1>6 DEF StepsIInv

LEMMA TasksPreserve ==
    ASSUME StepsIInv, ApplyResults \/ TrainingEnds
    PROVE  StepsIInv'
<1>0. /\ task \in TaskType /\ outbox \in SUBSET Steps /\ lost \in SUBSET Trainers /\ current \in RoundType
      /\ RoundSound(current, payload)
  BY DEF StepsIInv, StepTypes, RoundsSound
<1>1. active = "Training"
  <2>1. task # NoTask
    BY DEF ApplyResults, TrainingEnds, NoTask
  <2> QED
    BY <2>1 DEF StepsIInv, StagesSound
<1>2. Agreement /\ EarlySound
  BY DEF StepsIInv
<1>3. CASE ApplyResults
  <2> DEFINE agreement == task.assigned \cap task.results \cap task.vote
             usable == {t \in agreement : payload[task.step][t] = "Ready"}
             unusable == {t \in agreement : payload[task.step][t] = "Unusable"}
             unheard == (task.assigned \cap task.vote) \ task.results
  <2>1. /\ task.phase = "applying" /\ outbox' = outbox /\ late' = late
        /\ UNCHANGED <<coordVars, stage, failure, active, cs, roundVars, late>>
    BY <1>3 DEF ApplyResults, ghostVars
  <2>2. \/ task.step = 0 /\ task' = [task EXCEPT !.phase = "training"] /\ lost' = lost
        \/ /\ task.step # 0 /\ (\E t \in agreement : payload[task.step][t] \notin Deserialized)
           /\ task' = [task EXCEPT !.phase = "error"] /\ lost' = lost
        \/ /\ task.step # 0 /\ task' = [task EXCEPT !.phase = "training"]
           /\ \A t \in agreement : payload[task.step][t] \in Deserialized
           /\ applied' = usable /\ lost' = unheard \cup unusable
    BY <1>3 DEF ApplyResults, ghostVars
  <2>3. /\ task' \in TaskType /\ task'.step = task.step /\ task'.assigned = task.assigned
        /\ task'.vote = task.vote /\ task'.early = task.early /\ task'.checks = task.checks
        /\ task'.phase \in {"training", "error"}
    BY <1>0, <2>2 DEF TaskType
  <2>4. lost' \in SUBSET Trainers
    <3>1. task.assigned \subseteq Trainers
      BY <1>0 DEF TaskType
    <3> QED
      BY <1>0, <2>2, <3>1
  <2>5. task'.phase = "error" => ~task.early
    BY <1>0, <1>2, <2>2 DEF TaskType, EarlySound
  <2>6. ASSUME ~missed, ~late, stage = "Running", task'.phase = "training",
               current.step = coord.step, coord.height >= 2
        PROVE  applied' \cup lost' = coord.prev_vote.results
    <3>1. task.step # 0 /\ task.vote = coord.prev_vote.results
          /\ coord.prev_vote.results \subseteq task.assigned
      BY <1>1, <1>2, <2>6 DEF Agreement
    <3>2. /\ applied' = usable /\ lost' = unheard \cup unusable
          /\ \A t \in agreement : payload[task.step][t] \in {"Ready", "Unusable"}
      BY <1>0, <2>2, <2>6, <3>1 DEF TaskType, Deserialized
    <3>3. usable \cup unusable = agreement
      BY <3>2
    <3>4. unheard \cup agreement = task.vote
      BY <3>1
    <3> HIDE DEF usable, unusable, unheard, agreement
    <3> QED
      BY <3>1, <3>2, <3>3, <3>4
  <2> QED
    BY <1>0, <1>1, <2>1, <2>3, <2>4, <2>5, <2>6, TaskPreserves
<1>4. CASE TrainingEnds
  <2>1. /\ task' = [task EXCEPT !.finished = TRUE]
        /\ outbox' = outbox \/ (Me \in current.assigned /\ outbox' = outbox \cup {current.step})
        /\ applied' = applied /\ lost' = lost
        /\ UNCHANGED <<coordVars, stage, failure, active, cs, roundVars, late>>
    BY <1>4 DEF TrainingEnds, ghostVars
  <2>2. outbox' \in SUBSET Steps
    BY <1>0, <2>1 DEF RoundSound
  <2>3. /\ task' \in TaskType /\ task'.step = task.step /\ task'.assigned = task.assigned
        /\ task'.vote = task.vote /\ task'.early = task.early /\ task'.checks = task.checks
        /\ task'.phase = task.phase
    BY <1>0, <2>1 DEF TaskType
  <2>4. task'.phase = "error" => ~task.early
    BY <1>2, <2>3 DEF EarlySound
  <2>5. ASSUME ~missed, ~late, stage = "Running", task'.phase = "training",
               current.step = coord.step, coord.height >= 2
        PROVE  applied' \cup lost' = coord.prev_vote.results
    BY <1>1, <1>2, <2>1, <2>3, <2>5 DEF Agreement
  <2> QED
    BY <1>0, <1>1, <2>1, <2>2, <2>3, <2>4, <2>5, TaskPreserves
<1> QED
  BY <1>3, <1>4

-----------------------------------------------------------------------------
(* Me takes a state of the coordinator. *)

Observed ==
    /\ coord' = coord /\ missed' = missed /\ outbox' = outbox
    /\ fresh' \in BOOLEAN /\ late' \in BOOLEAN /\ (late => late')

\* The rounds, the task and the witnesses stay as they are.
RoundsKept ==
    /\ current' = current /\ previous' = previous /\ payload' = payload /\ task' = task
    /\ mail' = mail /\ applied' = applied /\ lost' = lost

\* A client that is not running, or that an error has ended, is where it was.
LEMMA QuietPreserves ==
    ASSUME StepsIInv, Observed, RoundsKept, active' = active,
           stage' \in {"NotYetInitialized", "Initializing", "Failed"},
           failure' \in {"none", "Init", "Desync", "Apply", "NoActiveRound"},
           cs' \in [run_state : CoordStates, clients : Seq(Everybody)],
           StagesSound', DesyncMeansBehind'
    PROVE  StepsIInv'
<1>1. CoordSound(coord)' /\ StepTypes' /\ PayloadsPlaced' /\ RoundsSound'
  BY DEF StepsIInv, StepTypes, PayloadsPlaced, RoundsSound, Observed, RoundsKept
<1>2. VotesCounted' /\ EarlySound' /\ StepsOrdered'
  BY DEF StepsIInv, VotesCounted, EarlySound, StepsOrdered, Observed, RoundsKept
<1>3. InStep' /\ Agreement'
  BY DEF InStep, Agreement
<1>4. VotesAssigned' /\ HealthChecksInTime'
  BY DEF StepsIInv, VotesAssigned, HealthChecksInTime, Observed, RoundsKept
<1> QED
  BY <1>1, <1>2, <1>3, <1>4 DEF StepsIInv

\* An error ends the client.
LEMMA FailPreserves ==
    ASSUME StepsIInv, Observed, RoundsKept, NEW error \in {"Init", "Desync", "Apply", "NoActiveRound"},
           Fail(error), UNCHANGED <<active, cs>>,
           error = "Desync" => missed \/ late' \/ coord.run_state = "Finished"
    PROVE  StepsIInv'
<1>1. stage' = "Failed" /\ failure' = error /\ active' = active /\ cs' = cs
  BY DEF Fail
<1>2. StagesSound'
  BY <1>1 DEF StepsIInv, StagesSound, RoundsKept
<1>3. DesyncMeansBehind'
  BY <1>1 DEF DesyncMeansBehind, Observed
<1>4. cs' \in [run_state : CoordStates, clients : Seq(Everybody)]
  BY <1>1 DEF StepsIInv, StepTypes
<1> QED
  BY <1>1, <1>2, <1>3, <1>4, QuietPreserves

\* The step stays, or it is over: the client looks at its rounds as before.
LEMMA StayPreserves ==
    ASSUME StepsIInv, stage # "Failed", Observed, RoundsKept,
           active' = active \/ (active = "Witness" /\ active' = "Cooldown"),
           stage' = "Running", failure' = failure,
           cs' \in [run_state : CoordStates, clients : Seq(Everybody)],
           InStep'
    PROVE  StepsIInv'
<1>1. CoordSound(coord)' /\ StepTypes' /\ PayloadsPlaced' /\ RoundsSound'
  BY DEF StepsIInv, StepTypes, PayloadsPlaced, RoundsSound, Observed, RoundsKept
<1>2. VotesCounted' /\ EarlySound'
  BY DEF StepsIInv, VotesCounted, EarlySound, Observed, RoundsKept
<1>3. StepsOrdered'
  BY DEF StepsIInv, StepsOrdered, Observed, RoundsKept
<1>4. StagesSound'
  BY DEF StepsIInv, StagesSound, Observed, RoundsKept
<1>5. active \in {"Training", "Witness"} => stage = "Running"
  BY DEF StepsIInv, StagesSound, StepTypes
<1>6. Agreement'
  BY <1>5 DEF StepsIInv, Agreement, Observed, RoundsKept
<1>7. VotesAssigned' /\ HealthChecksInTime' /\ DesyncMeansBehind'
  BY DEF StepsIInv, VotesAssigned, HealthChecksInTime, StagesSound, DesyncMeansBehind, Observed, RoundsKept
<1> QED
  BY <1>1, <1>2, <1>3, <1>4, <1>6, <1>7 DEF StepsIInv

\* Back to the warmup, with nothing left of the rounds.
LEMMA BackPreserves ==
    ASSUME StepsIInv, stage # "Failed", Observed, BackToWarmup, stage' = "Running", failure' = failure,
           UNCHANGED <<mail, applied, lost>>,
           cs' \in [run_state : CoordStates, clients : Seq(Everybody)],
           \/ ~IsMember(coord, Me)
           \/ coord.run_state \in {"WaitingForMembers", "Warmup", "Paused"}
    PROVE  StepsIInv'
<1>1. /\ active' = "Warmup" /\ current' = EmptyRound /\ previous' = EmptyRound /\ task' = NoTask
      /\ payload' = [s \in Steps |-> NoPayloads] /\ mail' = mail /\ applied' = applied /\ lost' = lost
  BY DEF BackToWarmup
<1>2. EmptyRound \in RoundType /\ NoTask \in TaskType
  BY DEF EmptyRound, RoundType, NoTask, TaskType
<1>3. payload' \in [Steps -> [Trainers -> PayloadStates]] /\ \A s \in Steps : payload'[s] = NoPayloads
  BY <1>1 DEF NoPayloads, PayloadStates
<1>4. 0 \notin Steps /\ coord.step \in Steps /\ 0 < coord.step /\ 0 <= coord.step
  BY DEF Steps, StepsIInv, CoordSound
<1>5. CoordSound(coord)' /\ StepTypes'
  BY <1>1, <1>2, <1>3 DEF StepsIInv, StepTypes, Observed
<1>6. PayloadsPlaced' /\ RoundsSound'
  BY <1>1, <1>3, <1>4 DEF PayloadsPlaced, RoundsSound, RoundSound, EmptyRound
<1>7. VotesCounted' /\ EarlySound'
  BY <1>1 DEF VotesCounted, EarlySound, EmptyRound, NoTask
<1>8. StepsOrdered'
  BY <1>1, <1>4 DEF StepsIInv, StepsOrdered, EmptyRound, Observed
<1>9. StagesSound' /\ Agreement'
  BY <1>1 DEF StepsIInv, StagesSound, Agreement
<1>10. InStep'
  BY <1>1 DEF InStep, Observed
<1>11. VotesAssigned' /\ HealthChecksInTime' /\ DesyncMeansBehind'
  BY <1>1 DEF StepsIInv, VotesAssigned, HealthChecksInTime, StagesSound, DesyncMeansBehind, Observed, NoTask
<1> QED
  BY <1>5, <1>6, <1>7, <1>8, <1>9, <1>10, <1>11 DEF StepsIInv

\* The results that are kept.
LEMMA KeepFacts ==
    ASSUME payload \in [Steps -> [Trainers -> PayloadStates]], NEW kept, KeepPayloads(kept)
    PROVE  /\ payload' \in [Steps -> [Trainers -> PayloadStates]]
           /\ \A s \in Steps : s \in kept => payload'[s] = payload[s]
           /\ \A s \in Steps : s \notin kept => payload'[s] = NoPayloads
  BY DEF KeepPayloads, NoPayloads, PayloadStates

\* A round keeps its facts if its results are kept.
LEMMA KeptSound ==
    ASSUME NEW r \in RoundType, NEW q \in RoundType, NEW p, NEW o, RoundSound(r, p),
           r.step \in Steps => o[r.step] = p[r.step],
           q.step = r.step, q.assigned = r.assigned, q.bloom = r.bloom,
           q.remaining = r.remaining, q.complete = r.complete
    PROVE  RoundSound(q, o)
  BY DEF RoundSound

\* The training ends: the witness goes out if it has not yet.
LEMMA WitnessStepPreserves ==
    ASSUME StepsIInv, stage # "Failed", Observed, active = "Training",
           coord.run_state = "RoundWitness", ~fresh',
           task.phase # "error", TrainingFinishes(coord)
    PROVE  StepsIInv'
<1>0. /\ CoordSound(coord) /\ coord.step \in Nat /\ coord.height \in Nat
      /\ payload \in [Steps -> [Trainers -> PayloadStates]]
      /\ current \in RoundType /\ previous \in RoundType /\ mail \in SUBSET MailType
      /\ RoundSound(current, payload) /\ RoundSound(previous, payload)
      /\ stage = "Running"
  BY DEF StepsIInv, CoordSound, CoordType, StepTypes, RoundsSound, StagesSound
<1>1. /\ task.phase # "applying" /\ active' = "Witness" /\ cs' = View(coord) /\ task' = NoTask
      /\ KeepPayloads({current.step, previous.step})
      /\ stage' = "Running" /\ failure' = failure
      /\ current' = current /\ applied' = applied /\ lost' = lost
  BY DEF TrainingFinishes, GoOn
<1>2. /\ previous' = IF HasWitness(previous, current) THEN GetWitness(previous) ELSE previous
      /\ mail' = IF HasWitness(previous, current)
                 THEN mail \cup {[step |-> current.step, results |-> previous.bloom]}
                 ELSE mail
  BY DEF TrainingFinishes
<1>3. /\ previous' \in RoundType
      /\ previous'.step = previous.step /\ previous'.height = previous.height
      /\ previous'.assigned = previous.assigned /\ previous'.bloom = previous.bloom
      /\ previous'.remaining = previous.remaining /\ previous'.complete = previous.complete
      /\ previous'.early = previous.early
      /\ previous'.votes <= 1 /\ (~previous'.sent_witness => previous'.votes = 0)
  <2>1. VotesCounted
    BY DEF StepsIInv
  <2>2. CASE HasWitness(previous, current)
    <3>1. \E n \in Nat : n = previous.votes + 1
      BY <1>0 DEF RoundType
    <3>2. PICK n \in Nat : n = previous.votes + 1
      BY <3>1
    <3>3. previous' = [previous EXCEPT !.sent_witness = TRUE, !.votes = n]
      BY <1>0, <1>2, <2>2, <3>2 DEF GetWitness, RoundType
    <3>4. n <= 1
      BY <2>1, <2>2, <3>2 DEF VotesCounted, HasWitness
    <3> QED
      BY <1>0, <3>3, <3>4 DEF RoundType
  <2>3. CASE ~HasWitness(previous, current)
    BY <1>0, <1>2, <2>1, <2>3 DEF VotesCounted
  <2> QED
    BY <2>2, <2>3
<1> DEFINE w == [step |-> current.step, results |-> previous.bloom]
<1>4. w \in MailType /\ w.step = current.step /\ w.results = previous.bloom
  BY <1>0 DEF MailType, RoundType
<1>5. mail' = mail \cup {w} \/ mail' = mail
  BY <1>2
<1> HIDE DEF w
<1>6. /\ payload' \in [Steps -> [Trainers -> PayloadStates]]
      /\ \A s \in Steps : s \in {current.step, previous.step} => payload'[s] = payload[s]
      /\ \A s \in Steps : s \notin {current.step, previous.step} => payload'[s] = NoPayloads
  BY <1>0, <1>1, KeepFacts
<1>7. cs' \in [run_state : CoordStates, clients : Seq(Everybody)] /\ NoTask \in TaskType
  BY <1>0, <1>1 DEF CoordSound, CoordType, View, Everybody, NoTask, TaskType
<1>8. CoordSound(coord)' /\ StepTypes'
  <2>1. mail' \in SUBSET MailType
    BY <1>0, <1>4, <1>5
  <2> QED
    BY <1>0, <1>1, <1>3, <1>6, <1>7, <2>1 DEF StepsIInv, StepTypes, Observed
<1>9. PayloadsPlaced'
  BY <1>1, <1>3, <1>6 DEF PayloadsPlaced
<1>10. RoundsSound'
  <2>1. RoundSound(current, payload')
    BY <1>0, <1>6, KeptSound
  <2>2. RoundSound(previous', payload')
    <3>1. previous.step \in Steps => payload'[previous.step] = payload[previous.step]
      BY <1>6
    <3> QED
      BY <1>0, <1>3, <3>1 DEF RoundSound
  <2> QED
    BY <1>1, <2>1, <2>2 DEF RoundsSound
<1>11. VotesCounted' /\ StagesSound'
  BY <1>1, <1>3 DEF StepsIInv, VotesCounted, StagesSound
<1>12. EarlySound'
  <2>1. previous.early => \A t \in previous.assigned : payload[previous.step][t] \in Deserialized
    BY DEF StepsIInv, EarlySound
  <2>2. previous.assigned # {} => previous.step \in Steps
    BY <1>0 DEF RoundSound
  <2> QED
    BY <1>1, <1>3, <1>6, <2>1, <2>2 DEF EarlySound, NoTask
<1>13. StepsOrdered'
  <2>1. StepsOrdered /\ current.step \in Nat
    BY <1>0 DEF StepsIInv, RoundType
  <2>2. Training(coord)
    BY DEF Training
  <2> QED
    BY <1>0, <1>1, <1>3, <1>4, <1>5, <2>1, <2>2 DEF StepsOrdered, Observed
<1>14. ~missed => current.step = coord.step /\ current.height = coord.height
  BY <1>0 DEF StepsIInv, InStep
<1>15. InStep'
  BY <1>1, <1>14 DEF InStep, Observed
<1>16. VotesAssigned'
  <2> SUFFICES ASSUME ~missed, ~late
               PROVE  VotesAssigned'
    BY DEF VotesAssigned, Observed
  <2>1. previous.assigned = coord.prev_assigned
    BY <1>0, <1>14 DEF StepsIInv, Agreement
  <2>2. previous.bloom \subseteq previous.assigned
    BY <1>0 DEF RoundSound
  <2> QED
    BY <1>4, <1>5, <2>1, <2>2 DEF StepsIInv, VotesAssigned, Observed
<1>17. Agreement'
  <2> SUFFICES ASSUME ~missed, ~late
               PROVE  Agreement'
    BY DEF Agreement, Observed
  <2>1. Agreement
    BY DEF StepsIInv
  <2> QED
    BY <1>0, <1>1, <1>3, <2>1 DEF Agreement, Observed
<1>18. HealthChecksInTime' /\ DesyncMeansBehind'
  BY <1>1 DEF StepsIInv, HealthChecksInTime, StagesSound, DesyncMeansBehind, Observed, NoTask
<1> QED
  BY <1>8, <1>9, <1>10, <1>11, <1>12, <1>13, <1>15, <1>16, <1>17, <1>18 DEF StepsIInv

\* A round starts: what was the current round is now the previous one, and what the
\* round before it left is applied.
LEMMA TrainingStepPreserves ==
    ASSUME StepsIInv, stage # "Failed", Observed, active \in {"Warmup", "Witness"},
           coord.run_state = "RoundTrain", ~fresh', mail' = mail,
           active = "Warmup" /\ ~late' => coord.height = 0,
           ~(HasResultsToApply /\ ~previous.committee), StartTraining(coord)
    PROVE  StepsIInv'
<1>0. /\ CoordSound(coord) /\ coord \in CoordType /\ coord.step \in Nat /\ coord.height \in Nat
      /\ coord.step \in Steps
      /\ payload \in [Steps -> [Trainers -> PayloadStates]]
      /\ current \in RoundType /\ previous \in RoundType
      /\ RoundSound(current, payload) /\ RoundSound(previous, payload)
      /\ StepsOrdered /\ 0 \notin Steps
  BY DEF StepsIInv, CoordSound, CoordType, StepTypes, RoundsSound, Steps
<1> DEFINE applies == current.height # 0
           kept == {current.step} \cup (IF applies THEN {previous.step} ELSE {})
           from == IF applies THEN previous.step ELSE 0
           checks == IF SendsHealthChecks THEN coord.height ELSE 0
           training == HasTraining(coord)
<1>1. /\ active' = "Training" /\ cs' = View(coord)
      /\ previous' = [current EXCEPT !.finished = {}]
      /\ current' = NewRound(coord)
      /\ task' = [phase |-> "applying", step |-> from, results |-> previous.results,
                  assigned |-> previous.assigned, vote |-> coord.prev_vote.results,
                  training |-> training, finished |-> ~training,
                  early |-> previous.early, checks |-> checks]
      /\ KeepPayloads(kept)
      /\ applied' = {} /\ lost' = {} /\ stage' = "Running" /\ failure' = failure
  BY DEF StartTraining, HasResultsToApply, GoOn
<1>2. training \in BOOLEAN /\ (coord.elected = Me) \in BOOLEAN /\ (~training) \in BOOLEAN
  BY DEF HasTraining
<1>3. from \in Nat /\ checks \in Nat
  BY <1>0 DEF RoundType
<1>4. /\ current' \in RoundType /\ current'.step = coord.step /\ current'.height = coord.height
      /\ current'.assigned = coord.assigned /\ current'.remaining = coord.assigned
      /\ current'.bloom = {} /\ current'.complete = ~HasTraining(coord)
      /\ current'.votes = 0 /\ ~current'.early /\ ~current'.sent_witness
  BY <1>0, <1>1, <1>2 DEF NewRound, RoundType, CoordType
<1>5. /\ previous' \in RoundType /\ previous'.step = current.step /\ previous'.height = current.height
      /\ previous'.assigned = current.assigned /\ previous'.remaining = current.remaining
      /\ previous'.bloom = current.bloom /\ previous'.complete = current.complete
      /\ previous'.votes = current.votes /\ previous'.early = current.early
      /\ previous'.sent_witness = current.sent_witness
  BY <1>0, <1>1 DEF RoundType
<1>6. /\ task' \in TaskType /\ task'.phase = "applying" /\ task'.step = from
      /\ task'.assigned = previous.assigned /\ task'.vote = coord.prev_vote.results
      /\ task'.early = previous.early /\ task'.checks = checks
  <2>1. coord.prev_vote.results \in SUBSET Trainers
    BY <1>0 DEF CoordType
  <2> HIDE DEF from, checks, training
  <2> QED
    BY <1>0, <1>1, <1>2, <1>3, <2>1 DEF TaskType, RoundType
<1>7. /\ payload' \in [Steps -> [Trainers -> PayloadStates]]
      /\ \A s \in Steps : s \in kept => payload'[s] = payload[s]
      /\ \A s \in Steps : s \notin kept => payload'[s] = NoPayloads
  <2> HIDE DEF kept
  <2> QED
    BY <1>0, <1>1, KeepFacts
<1>8. current.step < coord.step
  BY <1>0 DEF StepsOrdered, Steps
<1>9. coord.step \notin kept
  BY <1>0, <1>8 DEF StepsOrdered, RoundType
<1>10. cs' \in [run_state : CoordStates, clients : Seq(Everybody)]
  BY <1>0, <1>1 DEF CoordType, View, Everybody
<1>11. active = "Witness" => stage = "Running"
  BY DEF StepsIInv, StagesSound, StepTypes
<1>12. active = "Witness" /\ ~missed => current.step + 1 = coord.step /\ current.height + 1 = coord.height
  BY <1>11 DEF StepsIInv, InStep
<1>13. CoordSound(coord)' /\ StepTypes'
  BY <1>0, <1>1, <1>4, <1>5, <1>6, <1>7, <1>10 DEF StepsIInv, StepTypes, Observed
<1>14. PayloadsPlaced'
  <2> SUFFICES ASSUME NEW s \in Steps, payload'[s] # NoPayloads
               PROVE  s \in {current'.step, previous'.step, task'.step}
    BY DEF PayloadsPlaced
  <2>1. s \in kept
    BY <1>7
  <2> QED
    BY <1>5, <1>6, <2>1
<1>15. RoundsSound'
  <2>1. RoundSound(previous', payload')
    <3>1. current.step \in Steps => payload'[current.step] = payload[current.step]
      BY <1>7
    <3> QED
      BY <1>0, <1>5, <3>1 DEF RoundSound
  <2>2. RoundSound(current', payload')
    <3>1. \A t \in Trainers : payload'[coord.step][t] = "none"
      BY <1>0, <1>7, <1>9 DEF NoPayloads
    <3>2. ~HasTraining(coord) => coord.assigned = {}
      BY <1>0 DEF CoordSound, HasTraining
    <3> QED
      BY <1>0, <1>4, <3>1, <3>2 DEF RoundSound
  <2> QED
    BY <2>1, <2>2 DEF RoundsSound
<1>16. VotesCounted' /\ StagesSound'
  BY <1>1, <1>4, <1>5 DEF StepsIInv, VotesCounted, StagesSound
<1>17. EarlySound'
  <2>1. previous.early => \A t \in previous.assigned : payload[previous.step][t] \in Deserialized
    BY DEF StepsIInv, EarlySound
  <2>2. previous.assigned # {} => previous.step \in Steps
    BY <1>0 DEF RoundSound
  <2>3. ~current.early
    BY DEF StepsIInv, VotesCounted
  <2>4. from # 0 => from = previous.step /\ (previous.step \in Steps => payload'[previous.step] = payload[previous.step])
    BY <1>7
  <2>5. task'.early /\ task'.step # 0 => \A t \in task'.assigned : payload'[task'.step][t] \in Deserialized
    BY <1>6, <2>1, <2>2, <2>4
  <2> QED
    BY <1>5, <1>6, <2>2, <2>3, <2>4, <2>5 DEF EarlySound
<1>18. StepsOrdered'
  <2>1. Training(coord) /\ coord.step # 0
    BY <1>0 DEF Training
  <2> QED
    BY <1>0, <1>1, <1>4, <1>5, <1>8, <2>1 DEF StepsOrdered, Observed
<1>19. InStep'
  BY <1>1, <1>4 DEF InStep, Observed
<1>20. VotesAssigned'
  BY DEF StepsIInv, VotesAssigned, Observed
<1>21. HealthChecksInTime'
  <2> SUFFICES ASSUME checks # 0, ~missed
               PROVE  checks >= 2
    BY <1>6 DEF HealthChecksInTime, Observed
  <2>1. current.height # 0 /\ checks = coord.height
    BY DEF SendsHealthChecks
  <2>2. active = "Witness"
    BY <1>0, <2>1 DEF StepsOrdered
  <2> QED
    BY <1>0, <1>12, <2>1, <2>2 DEF RoundType
<1>22. Agreement'
  <2> SUFFICES ASSUME ~missed, ~late'
               PROVE  Agreement'
    BY DEF Agreement, Observed
  <2>0. ~late /\ Agreement
    BY DEF Observed, StepsIInv
  <2>1. CASE active = "Warmup"
    <3>1. coord.height = 0 /\ current.step = 0
      BY <1>0, <2>1 DEF StepsOrdered
    <3>2. coord.prev_assigned = {} /\ current.assigned = {}
      BY <1>0, <3>1 DEF CoordSound, Training, RoundSound
    <3> QED
      BY <1>1, <1>4, <1>5, <3>1, <3>2 DEF Agreement, Observed
  <2>2. CASE active = "Witness"
    <3>1. /\ current.step # 0 /\ (current.height # 0 => previous.step # 0)
          /\ current.assigned = coord.prev_assigned
          /\ coord.prev_vote.results \subseteq previous.assigned
      BY <1>0, <1>11, <2>0, <2>2 DEF Agreement, StepsOrdered
    <3>2. coord.height >= 2 => from # 0
      BY <1>0, <1>12, <2>2, <3>1 DEF RoundType
    <3> QED
      BY <1>1, <1>4, <1>5, <1>6, <3>1, <3>2 DEF Agreement, Observed
  <2> QED
    BY <2>1, <2>2
<1>23. DesyncMeansBehind'
  BY <1>1 DEF StepsIInv, StagesSound, DesyncMeansBehind
<1> QED
  BY <1>13, <1>14, <1>15, <1>16, <1>17, <1>18, <1>19, <1>20, <1>21, <1>22, <1>23 DEF StepsIInv

\* A state is taken by a client that is one of its members: every case of apply_state.
LEMMA MemberPreserves ==
    ASSUME StepsIInv, stage \in {"Initializing", "Running"}, Observed, ApplyMember(coord), ~fresh',
           stage = "Initializing" /\ stage' # stage /\ TooLate(coord) => late',
           stage = "Initializing" => coord.run_state \notin {"WaitingForMembers", "Paused"},
           active = "Warmup" /\ active' = "Training" /\ coord.height # 0 => late'
    PROVE  StepsIInv'
<1>0. /\ coord \in CoordType /\ IsMember(coord, Me) /\ stage # "Failed"
      /\ cs \in [run_state : CoordStates, clients : Seq(Everybody)]
      /\ View(coord) \in [run_state : CoordStates, clients : Seq(Everybody)]
      /\ active # "Warmup" => stage = "Running"
      /\ active \in {"Warmup", "Training", "Witness", "Cooldown"}
  BY DEF StepsIInv, CoordSound, CoordType, ApplyMember, StepTypes, StagesSound, View, Everybody
<1>1. CASE active \in {"Warmup", "Witness"} /\ coord.run_state = "RoundTrain" /\ StartTraining(coord) /\ mail' = mail
  <2>1. CASE HasResultsToApply /\ ~previous.committee
    <3>1. Fail("NoActiveRound") /\ UNCHANGED <<active, cs>> /\ RoundsKept
      BY <1>1, <2>1 DEF StartTraining, RoundsKept, roundVars
    <3> QED
      BY <3>1, FailPreserves
  <2>2. CASE ~(HasResultsToApply /\ ~previous.committee)
    <3>1. active' = "Training"
      BY <1>1, <2>2 DEF StartTraining
    <3>2. coord.height \in Nat /\ (active = "Warmup" /\ ~late' => coord.height = 0)
      BY <1>0, <3>1 DEF CoordType
    <3> QED
      BY <1>0, <1>1, <2>2, <3>2, TrainingStepPreserves
  <2> QED
    BY <2>1, <2>2
<1>2. CASE active = "Training" /\ coord.run_state = "RoundWitness" /\ TrainingFinishes(coord)
  <2>1. CASE task.phase = "error"
    <3>1. Fail("Apply") /\ UNCHANGED <<active, cs>> /\ RoundsKept
      BY <1>2, <2>1 DEF TrainingFinishes, RoundsKept, roundVars
    <3> QED
      BY <3>1, FailPreserves
  <2>2. CASE task.phase # "error"
    BY <1>0, <1>2, <2>2, WitnessStepPreserves
  <2> QED
    BY <2>1, <2>2
<1>3. CASE /\ active = "Witness" /\ coord.run_state = "Cooldown" /\ active' = "Cooldown"
           /\ cs' = View(coord) /\ GoOn /\ UNCHANGED <<roundVars, task, mail, warmup, applied, lost>>
  <2>1. RoundsKept /\ stage' = "Running" /\ failure' = failure
    BY <1>3 DEF RoundsKept, roundVars, GoOn
  <2>2. InStep'
    BY <1>3 DEF InStep, Observed
  <2> QED
    BY <1>0, <1>3, <2>1, <2>2, StayPreserves
<1>4. CASE /\ EntersWarmup(active, coord.run_state) /\ BackToWarmup /\ cs' = View(coord) /\ GoOn
           /\ UNCHANGED <<mail, warmup, applied, lost>>
  <2>1. coord.run_state \in {"WaitingForMembers", "Warmup", "Paused"}
        /\ stage' = "Running" /\ failure' = failure /\ UNCHANGED <<mail, applied, lost>>
    BY <1>4 DEF EntersWarmup, GoOn
  <2> QED
    BY <1>0, <1>4, <2>1, BackPreserves
<1>5. CASE AllowedInRunState(active, coord.run_state) /\ StayInStep(coord)
  <2>1. RoundsKept /\ stage' = "Running" /\ failure' = failure /\ active' = active /\ cs' = View(coord)
    BY <1>5 DEF RoundsKept, roundVars, GoOn, StayInStep
  <2>2. InStep
    BY DEF StepsIInv
  <2>3. InStep'
    BY <1>0, <1>5, <2>1, <2>2 DEF InStep, Observed, RoundsKept, AllowedInRunState
  <2> QED
    BY <1>0, <2>1, <2>3, StayPreserves
<1>6. CASE /\ ~AllowedInRunState(active, coord.run_state)
           /\ ~EntersWarmup(active, coord.run_state)
           /\ <<active, coord.run_state>> \notin
                 {<<"Warmup", "RoundTrain">>, <<"Training", "RoundWitness">>,
                  <<"Witness", "RoundTrain">>, <<"Witness", "Cooldown">>}
           /\ Fail("Desync")
           /\ UNCHANGED <<active, cs, roundVars, task, mail, warmup, applied, lost>>
  <2>1. RoundsKept /\ UNCHANGED <<active, cs>>
    BY <1>6 DEF RoundsKept, roundVars
  <2>2. missed \/ late' \/ coord.run_state = "Finished"
    <3> SUFFICES ASSUME ~missed, ~late', coord.run_state # "Finished"
                 PROVE  FALSE
      OBVIOUS
    <3>0. ~late /\ InStep /\ coord.run_state \in CoordStates
      BY <1>0 DEF Observed, StepsIInv, CoordType
    <3>1. CASE stage = "Running" /\ active = "Warmup"
      BY <1>0, <1>6, <3>0, <3>1 DEF InStep, AllowedInRunState, EntersWarmup
    <3>2. CASE active = "Training"
      BY <1>0, <1>6, <3>0, <3>2 DEF InStep, AllowedInRunState, EntersWarmup
    <3>3. CASE active = "Witness"
      BY <1>0, <1>6, <3>0, <3>3 DEF InStep, AllowedInRunState, EntersWarmup
    <3>4. CASE active = "Cooldown"
      BY <1>0, <1>6, <3>0, <3>4 DEF InStep, AllowedInRunState, EntersWarmup
    <3>5. CASE stage = "Initializing" /\ active = "Warmup"
      <4>1. stage' # stage
        BY <1>6, <3>5 DEF Fail
      <4>2. coord.run_state \in {"RoundWitness", "Cooldown"}
        BY <1>6, <3>0, <3>5 DEF AllowedInRunState, CoordStates
      <4>3. TooLate(coord)
        BY <4>2 DEF TooLate
      <4> QED
        BY <3>5, <4>1, <4>3
    <3> QED
      BY <1>0, <3>1, <3>2, <3>3, <3>4, <3>5
  <2> QED
    BY <1>6, <2>1, <2>2, FailPreserves
<1> QED
  BY <1>1, <1>2, <1>3, <1>4, <1>5, <1>6, Zenon DEF ApplyMember

\* A state without Me.
LEMMA NotMemberPreserves ==
    ASSUME StepsIInv, stage # "Failed", Observed, ApplyNotMember(coord)
    PROVE  StepsIInv'
<1>0. /\ ~IsMember(coord, Me) /\ cs' = cs /\ mail' = mail /\ applied' = applied /\ lost' = lost
      /\ cs \in [run_state : CoordStates, clients : Seq(Everybody)]
  BY DEF ApplyNotMember, StepsIInv, StepTypes
<1>1. CASE task.phase = "error"
  <2>1. Fail("Apply") /\ UNCHANGED <<active, cs>> /\ RoundsKept
    BY <1>0, <1>1 DEF ApplyNotMember, RoundsKept, roundVars
  <2> QED
    BY <2>1, FailPreserves
<1>2. CASE task.phase # "error" /\ active = "Warmup"
  <2>1. RoundsKept /\ stage' = "Running" /\ failure' = failure /\ active' = active
    BY <1>0, <1>2 DEF ApplyNotMember, RoundsKept, roundVars, GoOn
  <2>2. InStep'
    BY <1>0, <1>2, <2>1 DEF InStep, Observed
  <2> QED
    BY <1>0, <2>1, <2>2, StayPreserves
<1>3. CASE task.phase # "error" /\ active # "Warmup"
  <2>1. BackToWarmup /\ stage' = "Running" /\ failure' = failure
    BY <1>3 DEF ApplyNotMember, GoOn
  <2> QED
    BY <1>0, <2>1, BackPreserves
<1> QED
  BY <1>1, <1>2, <1>3

LEMMA NoteLateFacts ==
    ASSUME late \in BOOLEAN, NEW state, NoteLate(state)
    PROVE  /\ late' \in BOOLEAN /\ (late => late')
           /\ stage = "Initializing" /\ stage' # stage /\ TooLate(state) => late'
           /\ active = "Warmup" /\ active' = "Training" /\ state.height # 0 => late'
  BY DEF NoteLate

LEMMA ObservePreserves ==
    ASSUME StepsIInv, stage # "Failed", ObserveState
    PROVE  StepsIInv'
<1>0. late \in BOOLEAN /\ coord \in CoordType
      /\ View(coord) \in [run_state : CoordStates, clients : Seq(Everybody)]
      /\ cs \in [run_state : CoordStates, clients : Seq(Everybody)]
      /\ StagesSound
  BY DEF StepsIInv, StepTypes, CoordSound, CoordType, View, Everybody
<1>1. NoteLate(coord) /\ fresh' = FALSE /\ coord' = coord /\ missed' = missed /\ outbox' = outbox
  BY DEF ObserveState
<1>2. /\ late' \in BOOLEAN /\ (late => late')
      /\ stage = "Initializing" /\ stage' # stage /\ TooLate(coord) => late'
      /\ active = "Warmup" /\ active' = "Training" /\ coord.height # 0 => late'
  BY <1>0, <1>1, NoteLateFacts
<1>3. Observed
  BY <1>1, <1>2 DEF Observed
<1>4. CASE BeginInit
  <2>1. RoundsKept /\ active' = active /\ cs' = View(coord) /\ failure' = failure
        /\ stage = "NotYetInitialized"
        /\ stage' = IF coord.run_state = "Warmup" /\ IsMember(coord, Me) THEN "Initializing" ELSE stage
    BY <1>4 DEF BeginInit, RoundsKept, roundVars
  <2>2. stage' \in {"NotYetInitialized", "Initializing"} /\ failure' = "none" /\ active' = "Warmup"
    BY <1>0, <2>1 DEF StagesSound
  <2>3. stage' = "Initializing" => cs'.run_state = "Warmup" /\ IsMember(cs', Me)
    BY <1>0, <2>1 DEF View, IsMember
  <2>4. StagesSound'
    BY <1>0, <2>1, <2>2, <2>3 DEF StagesSound, RoundsKept, IsMember
  <2>5. DesyncMeansBehind'
    BY <2>2 DEF DesyncMeansBehind
  <2> QED
    BY <1>0, <1>3, <2>1, <2>2, <2>4, <2>5, QuietPreserves
<1>5. CASE stage = "Initializing" /\ UNCHANGED <<stage, failure, active, cs, roundVars, task, mail,
                                                 warmup, applied, lost>>
  <2>1. RoundsKept /\ active' = active /\ cs' = cs /\ failure' = failure /\ stage' = stage
    BY <1>5 DEF RoundsKept, roundVars
  <2>2. failure' = "none"
    BY <1>0, <1>5, <2>1 DEF StagesSound
  <2>3. StagesSound' /\ DesyncMeansBehind'
    BY <1>0, <2>1, <2>2 DEF StagesSound, RoundsKept, IsMember, DesyncMeansBehind
  <2> QED
    BY <1>0, <1>3, <1>5, <2>1, <2>2, <2>3, QuietPreserves
<1>6. CASE FinishInit(coord)
  <2>1. stage = "Initializing" /\ coord.run_state \notin {"WaitingForMembers", "Paused"}
    BY <1>6 DEF FinishInit, WaitsInInit
  <2>2. CASE init = "failed"
    <3>1. Fail("Init") /\ UNCHANGED <<active, cs>> /\ RoundsKept
      BY <1>6, <2>2 DEF FinishInit, RoundsKept, roundVars
    <3> QED
      BY <1>3, <3>1, FailPreserves
  <2>3. CASE init # "failed"
    <3>1. ApplyState(coord)
      BY <1>6, <2>3 DEF FinishInit
    <3> QED
      BY <1>1, <1>2, <1>3, <2>1, <3>1, MemberPreserves, NotMemberPreserves DEF ApplyState
  <2> QED
    BY <2>2, <2>3
<1>7. CASE stage = "Running" /\ ApplyState(coord)
  BY <1>1, <1>2, <1>3, <1>7, MemberPreserves, NotMemberPreserves DEF ApplyState
<1> QED
  BY <1>4, <1>5, <1>6, <1>7 DEF ObserveState

\* init_run was spawned in a warmup of which Me is a member: that is the state it is given.
LEMMA PollPreserves ==
    ASSUME StepsIInv, stage # "Failed", PollInit
    PROVE  StepsIInv'
<1> DEFINE state == [coord EXCEPT !.run_state = cs.run_state, !.clients = cs.clients]
<1>0. late \in BOOLEAN /\ coord \in CoordType /\ fresh \in BOOLEAN
      /\ cs \in [run_state : CoordStates, clients : Seq(Everybody)]
      /\ StagesSound
  BY DEF StepsIInv, StepTypes, CoordSound
<1>1. /\ stage = "Initializing" /\ FinishInit(state) /\ NoteLate(state)
      /\ coord' = coord /\ fresh' = fresh /\ missed' = missed /\ outbox' = outbox
  BY DEF PollInit
<1>2. state.run_state = "Warmup" /\ state.clients = cs.clients /\ cs.run_state = "Warmup"
      /\ IsMember(state, Me) /\ active = "Warmup"
  BY <1>0, <1>1 DEF StagesSound, IsMember, CoordType
<1> HIDE DEF state
<1>3. /\ late' \in BOOLEAN /\ (late => late')
      /\ stage = "Initializing" /\ stage' # stage /\ TooLate(state) => late'
  BY <1>0, <1>1, NoteLateFacts
<1>4. Observed
  BY <1>0, <1>1, <1>3 DEF Observed
<1>5. CASE init = "failed"
  <2>1. Fail("Init") /\ UNCHANGED <<active, cs>> /\ RoundsKept
    BY <1>1, <1>5 DEF FinishInit, RoundsKept, roundVars
  <2> QED
    BY <1>4, <2>1, FailPreserves
<1>6. CASE init # "failed"
  <2>1. StayInStep(state)
    BY <1>1, <1>2, <1>6 DEF FinishInit, ApplyState, ApplyNotMember, ApplyMember,
                            AllowedInRunState, EntersWarmup
  <2>2. RoundsKept /\ stage' = "Running" /\ failure' = failure /\ active' = active /\ cs' = View(state)
    BY <2>1 DEF RoundsKept, roundVars, GoOn, StayInStep
  <2>3. cs' \in [run_state : CoordStates, clients : Seq(Everybody)]
    BY <1>0, <1>2, <2>2 DEF View
  <2>4. InStep'
    <3> SUFFICES ASSUME ~late', coord.run_state \notin {"WaitingForMembers", "Warmup", "Paused", "Finished"}
                 PROVE  coord.run_state = "RoundTrain" /\ fresh /\ coord.height = 0
      BY <1>1, <1>2, <2>2 DEF InStep, Observed
    <3>1. ~TooLate(state)
      BY <1>1, <1>3, <2>2
    <3>2. coord.run_state \in {"RoundTrain", "RoundWitness", "Cooldown"}
      BY <1>0 DEF CoordType, CoordStates
    <3>3. coord.run_state = "RoundTrain" /\ coord.height = 0 /\ (fresh \/ state = coord)
      BY <3>1, <3>2 DEF TooLate
    <3> QED
      BY <1>2, <3>3
  <2> QED
    BY <1>4, <2>2, <2>3, <2>4, StayPreserves
<1> QED
  BY <1>5, <1>6

\* Every step preserves it.
LEMMA StepsIInvStep ==
    ASSUME StepsIInv, [ClientNext]_clientVars
    PROVE  StepsIInv'
<1>1. CASE ClientNext
  <2>0. stage # "Failed" /\ CoordSound(coord)
    BY <1>1 DEF ClientNext, StepsIInv
  <2>1. CASE \/ StartEpoch \/ AbandonEpoch \/ StartFirstRound \/ EndTraining
             \/ StartNextRound \/ StartCooldown \/ EndEpoch \/ Resume
    BY <2>0, <2>1, CoordinatorMoves, MovePreserves
  <2>2. CASE OtherWitnesses \/ WitnessArrives
    BY <2>0, <2>2, WitnessesPreserve
  <2>3. CASE ObserveState
    BY <2>0, <2>3, ObservePreserves
  <2>4. CASE PollInit
    BY <2>0, <2>4, PollPreserves
  <2>5. CASE ApplyResults \/ TrainingEnds
    BY <2>5, TasksPreserve
  <2>6. CASE AnnounceOwnResult \/ \E step \in Steps : ResultAnnounced(step)
    BY <2>6, AnnouncementsPreserve
  <2>7. CASE \E step \in Steps : \E t \in Trainers :
                \/ ResultArrives(step, t) \/ NoteComplete(step, t) \/ DeserializeEnds(step, t)
    BY <2>7, ArrivalsPreserve
  <2>8. CASE \/ FinishedReceived \/ WarmupFinishedReceived \/ SendFinished
             \/ SendWarmupFinished \/ SendWarmupWitness \/ InitRunEnds
    BY <2>8, FinishedPreserve
  <2>9. CASE SendOpportunisticWitness
    BY <2>9, OpportunisticWitnessPreserves
  <2> QED
    BY <1>1, <2>1, <2>2, <2>3, <2>4, <2>5, <2>6, <2>7, <2>8, <2>9 DEF ClientNext, CoordinatorNext
<1>2. CASE UNCHANGED clientVars
  <2>1. /\ coord' = coord /\ mail' = mail /\ fresh' = fresh /\ missed' = missed /\ stage' = stage
        /\ failure' = failure /\ active' = active /\ cs' = cs /\ current' = current
        /\ previous' = previous /\ payload' = payload /\ task' = task /\ outbox' = outbox
        /\ applied' = applied /\ lost' = lost /\ late' = late
    BY <1>2 DEF clientVars
  <2>2. CoordSound(coord)' /\ StepTypes' /\ PayloadsPlaced' /\ RoundsSound'
    BY <2>1 DEF StepsIInv, StepTypes, PayloadsPlaced, RoundsSound
  <2>3. VotesCounted' /\ StagesSound' /\ EarlySound' /\ StepsOrdered'
    BY <2>1 DEF StepsIInv, VotesCounted, StagesSound, EarlySound, StepsOrdered
  <2>4. InStep' /\ VotesAssigned' /\ Agreement'
    BY <2>1 DEF StepsIInv, InStep, VotesAssigned, Agreement
  <2>5. DesyncMeansBehind' /\ HealthChecksInTime'
    BY <2>1 DEF StepsIInv, DesyncMeansBehind, HealthChecksInTime
  <2> QED
    BY <2>2, <2>3, <2>4, <2>5 DEF StepsIInv
<1> QED
  BY <1>1, <1>2

LEMMA StepsAlways == ClientSpec => []StepsIInv
<1>1. ClientInit => StepsIInv
  BY StepsStart
<1>2. StepsIInv /\ [ClientNext]_clientVars => StepsIInv'
  BY StepsIInvStep
<1> QED
  BY <1>1, <1>2, PTL DEF ClientSpec

\* RunManager and StepStateMachine, for every client list, every assignment of batches, any
\* number of steps and epochs, and any number of states that the client never sees: a
\* client gives up as out of step only if it is, votes early only for what is through its
\* deserialization, witnesses a round once, and sends its health checks in time.
THEOREM StepsSafety == ClientSpec => []StepsInv
<1>1. StepsIInv => StepsInv
  BY StepsIInvImplies
<1> QED
  BY <1>1, StepsAlways, PTL

\* apply_results: a client that has followed the coordinator applies in every round the
\* results that the witnesses of the round before agreed on and no others, save the ones
\* of which it never heard and the ones that did not deserialize or whose trainer is
\* warming up.
THEOREM AgreementSafety == ClientSpec => []AppliesAgreement
<1>1. StepsIInv => AppliesAgreement
  BY StepsIInvImplies
<1> QED
  BY <1>1, StepsAlways, PTL


-----------------------------------------------------------------------------
(* The entry into a run. *)

\* A run is entered whole or not at all, nothing is left at work, and peers learn of the
\* configuration of a loaded model only.
EnteredWhole == RunIsComplete /\ NothingLeftBehind /\ ConfigOfLoadedModel

\* The barrier of a reduction, made for tensor_parallelism threads, holds the data
\* parallel ranks together if there are not more of them than that.
ReducedTogether == TensorParallelism >= DataParallelism => ReduceTogether

\* What the three futures have come to, and what init_run made of it.
LoadSound ==
  /\ checkpoint \in CheckpointKinds
  /\ data \in {"pending", "ok", "error", "panicked"}
  /\ wandb \in {"pending", "run", "none", "error"}
  /\ model \in {"start", "dummy", "files", "config", "parameters", "ranks", "loaded", "error"}
  /\ ranks \in [WorldRanks -> RankStates]
  /\ model = "loaded" => configs = 1 /\ \A r \in WorldRanks : ranks[r] = "loaded"
  /\ model # "loaded" => configs = 0
  /\ result = "ok" => data = "ok" /\ wandb \in {"run", "none"} /\ model = "loaded"
  /\ NothingLeftBehind

\* The threads of one tp.
DpClass(t) == {q \in WorldRanks : Tp(q) = t}

\* Before its reduction a thread trains or waits, after it waits again or is done.
Coming == {"none", "train", "wait"}
Gone == {"reduce", "reduced", "waitEnd", "done"}

\* The threads of one tp have all come to their reduction, or none has begun it; those
\* in the barrier wait.
ClassComing(t) ==
  \A q \in DpClass(t) :
    thread[q] \in Coming /\ ~reduced[q] /\ (q \in arrived[t] <=> thread[q] = "wait")

ClassGone(t) ==
  \A q \in DpClass(t) :
    thread[q] \in Gone /\ (q \in arrived[t] <=> thread[q] = "waitEnd")

ClassesSound ==
  \A t \in 0 .. TensorParallelism - 1 :
    ClassComing(t) \/ ClassGone(t)

ThreadsSound ==
  /\ thread \in [WorldRanks -> Coming \cup Gone]
  /\ arrived \in [0 .. TensorParallelism - 1 -> SUBSET WorldRanks]
  /\ reduced \in [WorldRanks -> BOOLEAN]
  /\ \A t \in 0 .. TensorParallelism - 1 :
       \A q \in arrived[t] : q \in DpClass(t) /\ thread[q] \in {"wait", "waitEnd"}
  /\ result = "pending" => /\ \A r \in WorldRanks : thread[r] = "none" /\ ~reduced[r]
                           /\ \A t \in 0 .. TensorParallelism - 1 : arrived[t] = {}

\* The inductive invariant.
InitRunIInv ==
  /\ LoadSound
  /\ ThreadsSound
  /\ TensorParallelism >= DataParallelism => ClassesSound

\* Every rank has a tp, and at most one rank of a tp is of each data parallel rank.
LEMMA ClassesSmall ==
  ASSUME NEW t \in 0 .. TensorParallelism - 1
  PROVE  IsFiniteSet(DpClass(t)) /\ Cardinality(DpClass(t)) <= DataParallelism
<1> DEFINE T == TensorParallelism
           D == DataParallelism
           f == [q \in DpClass(t) |-> Dp(q)]
<1>1. T \in Nat \ {0} /\ D \in Nat \ {0}
  BY InitRunAssumption
<1>2. ASSUME NEW q \in DpClass(t) PROVE Dp(q) \in 0 .. D - 1 /\ q = T * Dp(q) + t
  <2>1. q \in Nat /\ q < D * T /\ q % T = t
    <3>1. D * T \in Nat
      BY <1>1
    <3> QED BY <3>1, <1>2 DEF DpClass, WorldRanks, Tp
  <2> DEFINE d == q \div T
  <2>2. d \in Nat /\ q = T * d + t
    <3>1. q \div T \in Nat /\ q = T * (q \div T) + (q % T)
      BY <1>1, <2>1
    <3> QED BY <2>1, <3>1
  <2>3. Dp(q) = d
    BY DEF Dp
  <2> HIDE DEF d
  <2>4. d < D
    <3> SUFFICES ASSUME d >= D PROVE FALSE
      BY <1>1, <2>2
    <3>1. PICK k \in Nat : d = D + k
      <4>1. d - D \in Nat /\ d = D + (d - D)
        BY <1>1, <2>2
      <4> QED BY <4>1
    <3>2. T * d = D * T + T * k /\ T * k \in Nat /\ D * T \in Nat
      BY <1>1, <3>1
    <3> QED BY <2>1, <2>2, <3>2
  <2> QED BY <1>1, <2>2, <2>3, <2>4
<1>3. f \in [DpClass(t) -> 0 .. D - 1]
  BY <1>2
<1>4. \A p, q \in DpClass(t) : f[p] = f[q] => p = q
  BY <1>2
<1>5. f \in Injection(DpClass(t), 0 .. D - 1)
  BY <1>3, <1>4 DEF Injection, IsInjective
<1>6. IsFiniteSet(0 .. D - 1) /\ Cardinality(0 .. D - 1) = D
  BY <1>1, FS_Interval
<1> HIDE DEF f
<1> QED BY <1>5, <1>6, FS_Injection

\* A rank is of one tp.
LEMMA RankHasTp ==
  ASSUME NEW r \in WorldRanks
  PROVE  Tp(r) \in 0 .. TensorParallelism - 1 /\ r \in DpClass(Tp(r)) /\ DpRanks(r) = DpClass(Tp(r))
<1>1. DataParallelism * TensorParallelism \in Nat
  BY InitRunAssumption
<1>2. r \in Nat
  BY <1>1 DEF WorldRanks
<1> QED BY <1>2, InitRunAssumption DEF Tp, DpClass, DpRanks

\* Before the three futures are started nothing is loaded, and no thread runs.
LEMMA InitRunStarts == InitRunInit => InitRunIInv
<1> SUFFICES ASSUME InitRunInit PROVE InitRunIInv
  OBVIOUS
<1>1. LoadSound
  BY DEF InitRunInit, LoadSound, NothingLeftBehind, RankStates
<1>2. ThreadsSound
  BY DEF InitRunInit, ThreadsSound, Coming, Gone
<1>3. ClassesSound
  BY DEF InitRunInit, ClassesSound, ClassComing, DpClass, Coming
<1> QED BY <1>1, <1>2, <1>3 DEF InitRunIInv

\* The steps of the futures and of the ranks are no business of the threads.
LEMMA ThreadsKept ==
  ASSUME ThreadsSound, TensorParallelism >= DataParallelism => ClassesSound,
         UNCHANGED dpVars, result = "pending" \/ result' # "pending"
  PROVE  ThreadsSound' /\ (TensorParallelism >= DataParallelism => ClassesSound')
<1>1. thread' = thread /\ arrived' = arrived /\ reduced' = reduced
  BY DEF dpVars
<1> QED BY <1>1 DEF ThreadsSound, ClassesSound, ClassComing, ClassGone

\* Whatever the futures do, in whichever order.
LEMMA FuturesStep ==
  ASSUME InitRunIInv,
         \/ RefuseRun \/ StartRun \/ LoadDummy \/ ModelLoaded
         \/ DataReady \/ WandbReady \/ ModelSource
         \/ \E r \in WorldRanks : RankStep(r)
  PROVE  InitRunIInv'
<1>0. LoadSound /\ ThreadsSound /\ (TensorParallelism >= DataParallelism => ClassesSound)
  BY DEF InitRunIInv
<1>1. LoadSound'
  <2>1. CASE RefuseRun
    BY <1>0, <2>1 DEF RefuseRun, LoadSound, NothingLeftBehind, loadVars
  <2>2. CASE StartRun
    <3>1. model' \in {"dummy", "files", "config"} /\ model = "start"
      BY <1>0, <2>2 DEF StartRun, LoadSound, CheckpointKinds
    <3> QED BY <1>0, <2>2, <3>1 DEF StartRun, LoadSound, NothingLeftBehind, loadVars
  <2>3. CASE LoadDummy
    BY <1>0, <2>3 DEF LoadDummy, LoadSound, NothingLeftBehind, loadVars, RankStates
  <2>4. CASE ModelLoaded
    BY <1>0, <2>4 DEF ModelLoaded, ConfigUploaded, LoadSound, NothingLeftBehind, loadVars
  <2>5. CASE DataReady
    BY <1>0, <2>5 DEF DataReady, LoadSound, NothingLeftBehind, loadVars
  <2>6. CASE WandbReady
    BY <1>0, <2>6 DEF WandbReady, LoadSound, NothingLeftBehind, loadVars
  <2>7. CASE ModelSource
    BY <1>0, <2>7 DEF ModelSource, LoadSound, NothingLeftBehind, loadVars, RankStates
  <2>8. CASE \E r \in WorldRanks : RankStep(r)
    <3>1. PICK r \in WorldRanks : RankStep(r)
      BY <2>8
    <3>2. /\ ranks[r] \in {"started", "joining"}
          /\ \E outcome \in {"error", "joining", "loaded", "failed"} :
               ranks' = [ranks EXCEPT ![r] = outcome]
          /\ UNCHANGED <<checkpoint, data, model, wandb, configs, result>>
      BY <3>1 DEF RankStep, RankJoins, RankLoads, loadVars
    <3>3. ranks' \in [WorldRanks -> RankStates] /\ model # "loaded"
      BY <1>0, <3>2 DEF LoadSound, RankStates
    <3> QED BY <1>0, <3>2, <3>3 DEF LoadSound, NothingLeftBehind
  <2> QED BY <2>1, <2>2, <2>3, <2>4, <2>5, <2>6, <2>7, <2>8
<1>2. UNCHANGED dpVars /\ (result = "pending" \/ result' # "pending")
  BY DEF RefuseRun, StartRun, LoadDummy, ModelLoaded, DataReady, WandbReady, ModelSource,
         RankStep, RankJoins, RankLoads
<1>3. ThreadsSound' /\ (TensorParallelism >= DataParallelism => ClassesSound')
  BY <1>0, <1>2, ThreadsKept
<1> QED BY <1>1, <1>3 DEF InitRunIInv

\* init_run returns: the threads start, or nothing does.
LEMMA FuturesJoined ==
  ASSUME InitRunIInv, JoinFutures
  PROVE  InitRunIInv'
<1>0. /\ LoadSound /\ ThreadsSound /\ (TensorParallelism >= DataParallelism => ClassesSound)
      /\ result = "pending" /\ model \in {"loaded", "error"} /\ data \in {"ok", "error"}
      /\ wandb # "pending" /\ result' = RunResult
      /\ UNCHANGED <<checkpoint, data, model, ranks, wandb, configs, arrived, reduced>>
      /\ thread' = IF result' = "ok" THEN [r \in WorldRanks |-> "train"] ELSE thread
  BY DEF InitRunIInv, JoinFutures, loadVars
<1>1. /\ result' \in {"ok", "ModelLoad", "DataProviderConnect", "Wandb"}
      /\ result' = "ok" => model = "loaded" /\ data = "ok" /\ wandb \in {"run", "none"}
  BY <1>0 DEF RunResult, LoadSound
<1>2. LoadSound'
  BY <1>0, <1>1 DEF LoadSound, NothingLeftBehind
<1>3. ThreadsSound'
  BY <1>0, <1>1 DEF ThreadsSound, Coming
<1>4. ClassesSound'
  BY <1>0 DEF ThreadsSound, ClassesSound, ClassComing, Coming, DpClass
<1> QED BY <1>2, <1>3, <1>4 DEF InitRunIInv

\* The barrier of a tp opens when all of its threads are there.
LEMMA BarrierHolds ==
  ASSUME TensorParallelism >= DataParallelism,
         NEW t \in 0 .. TensorParallelism - 1, NEW all \in SUBSET DpClass(t),
         Cardinality(all) >= BarrierSize
  PROVE  all = DpClass(t)
<1>1. IsFiniteSet(DpClass(t)) /\ Cardinality(DpClass(t)) <= DataParallelism
  BY ClassesSmall
<1>2. Cardinality(all) <= Cardinality(DpClass(t)) /\ Cardinality(all) \in Nat
      /\ Cardinality(DpClass(t)) \in Nat
  BY <1>1, FS_Subset, FS_CardinalityType
<1>3. Cardinality(all) = Cardinality(DpClass(t))
  BY <1>1, <1>2, InitRunAssumption DEF BarrierSize
<1> QED BY <1>1, <1>3, FS_Subset

\* A thread comes to the barrier.
LEMMA ThreadWaits ==
  ASSUME InitRunIInv, NEW r \in WorldRanks, DpWait(r)
  PROVE  InitRunIInv'
<1> DEFINE t == Tp(r)
           all == arrived[t] \cup {r}
           waits == [train |-> "wait", reduced |-> "waitEnd"]
           freed == [train |-> "reduce", reduced |-> "done", wait |-> "reduce",
                     waitEnd |-> "done"]
<1>0. /\ LoadSound /\ ThreadsSound /\ (TensorParallelism >= DataParallelism => ClassesSound)
      /\ thread[r] \in {"train", "reduced"}
      /\ UNCHANGED <<checkpoint, data, model, ranks, wandb, configs, result, reduced>>
  BY DEF InitRunIInv, DpWait, loadVars
<1>1. t \in 0 .. TensorParallelism - 1 /\ r \in DpClass(t)
  BY RankHasTp
<1>2. LoadSound'
  BY <1>0 DEF LoadSound, NothingLeftBehind
<1>3. result # "pending" /\ result' # "pending"
  BY <1>0 DEF ThreadsSound
<1>4. all \in SUBSET WorldRanks
  BY <1>0, <1>1 DEF ThreadsSound
<1>5. \/ /\ Cardinality(all) >= BarrierSize
         /\ arrived' = [arrived EXCEPT ![t] = {}]
         /\ thread' = [q \in WorldRanks |-> IF q \in all THEN freed[thread[q]] ELSE thread[q]]
      \/ /\ arrived' = [arrived EXCEPT ![t] = all]
         /\ thread' = [thread EXCEPT ![r] = waits[thread[r]]]
  BY DEF DpWait
<1>6. /\ \A q \in WorldRanks, u \in 0 .. TensorParallelism - 1 :
           q \in DpClass(u) <=> Tp(q) = u
      /\ \A u : DpClass(u) \subseteq WorldRanks
  BY DEF DpClass
<1> HIDE DEF t
<1>7. \A q \in all : q \in DpClass(t) /\ thread[q] \in {"wait", "waitEnd", "train", "reduced"}
  BY <1>0, <1>1 DEF ThreadsSound
<1>8. CASE /\ Cardinality(all) >= BarrierSize
           /\ arrived' = [arrived EXCEPT ![t] = {}]
           /\ thread' = [q \in WorldRanks |-> IF q \in all THEN freed[thread[q]] ELSE thread[q]]
  <2>1. \A q \in all :
          /\ thread[q] \in {"train", "wait"} => thread'[q] = "reduce"
          /\ thread[q] \in {"reduced", "waitEnd"} => thread'[q] = "done"
    BY <1>4, <1>7, <1>8
  <2>2. \A q \in WorldRanks : q \notin all => thread'[q] = thread[q]
    BY <1>8
  <2>3. \A u \in 0 .. TensorParallelism - 1 : arrived'[u] = IF u = t THEN {} ELSE arrived[u]
    BY <1>0, <1>8 DEF ThreadsSound
  <2>4. ThreadsSound'
    <3>1. thread' \in [WorldRanks -> Coming \cup Gone]
      <4>1. \A q \in WorldRanks : thread'[q] \in Coming \cup Gone
        BY <1>0, <1>7, <2>1, <2>2 DEF ThreadsSound, Coming, Gone
      <4> QED BY <1>8, <4>1
    <3>2. arrived' \in [0 .. TensorParallelism - 1 -> SUBSET WorldRanks]
      BY <1>0, <1>8 DEF ThreadsSound
    <3>3. ASSUME NEW u \in 0 .. TensorParallelism - 1, NEW q \in arrived'[u]
          PROVE  q \in DpClass(u) /\ thread'[q] \in {"wait", "waitEnd"}
      <4>1. u # t /\ q \in arrived[u]
        BY <2>3, <3>3
      <4>2. q \in DpClass(u) /\ thread[q] \in {"wait", "waitEnd"} /\ q \in WorldRanks
        BY <1>0, <1>6, <4>1 DEF ThreadsSound
      <4>3. q \notin all
        BY <1>1, <1>6, <1>7, <4>1, <4>2
      <4> QED BY <2>2, <4>2, <4>3
    <3> QED BY <1>0, <1>3, <3>1, <3>2, <3>3 DEF ThreadsSound
  <2>5. ASSUME TensorParallelism >= DataParallelism, NEW u \in 0 .. TensorParallelism - 1
        PROVE  ClassComing(u)' \/ ClassGone(u)'
    <3>0. ClassComing(u) \/ ClassGone(u)
      BY <1>0, <2>5 DEF ClassesSound
    <3>1. CASE u = t
      <4>1. all = DpClass(t)
        BY <1>1, <1>7, <1>8, <2>5, BarrierHolds
      <4>2. \A q \in DpClass(t) : thread'[q] \in {"reduce", "done"}
        BY <1>7, <2>1, <4>1
      <4>3. arrived'[t] = {}
        BY <1>1, <2>3
      <4> QED BY <3>1, <4>2, <4>3 DEF ClassGone, Gone
    <3>2. CASE u # t
      <4>1. \A q \in DpClass(u) : thread'[q] = thread[q] /\ reduced'[q] = reduced[q]
        BY <1>0, <1>1, <1>6, <1>7, <2>2, <3>2
      <4>2. arrived'[u] = arrived[u]
        BY <2>3, <3>2
      <4> QED BY <3>0, <4>1, <4>2 DEF ClassComing, ClassGone
    <3> QED BY <3>1, <3>2
  <2> QED BY <1>2, <2>4, <2>5 DEF InitRunIInv, ClassesSound
<1>9. CASE /\ arrived' = [arrived EXCEPT ![t] = all]
           /\ thread' = [thread EXCEPT ![r] = waits[thread[r]]]
  <2>1. /\ thread[r] = "train" => thread'[r] = "wait"
        /\ thread[r] = "reduced" => thread'[r] = "waitEnd"
    BY <1>0, <1>9 DEF ThreadsSound
  <2>2. \A q \in WorldRanks : q # r => thread'[q] = thread[q]
    BY <1>0, <1>9 DEF ThreadsSound
  <2>3. \A u \in 0 .. TensorParallelism - 1 : arrived'[u] = IF u = t THEN all ELSE arrived[u]
    BY <1>0, <1>9 DEF ThreadsSound
  <2>4. ThreadsSound'
    <3>1. thread' \in [WorldRanks -> Coming \cup Gone]
      <4>1. waits[thread[r]] \in Coming \cup Gone
        BY <1>0 DEF Coming, Gone
      <4> QED BY <1>0, <1>9, <4>1 DEF ThreadsSound
    <3>2. arrived' \in [0 .. TensorParallelism - 1 -> SUBSET WorldRanks]
      BY <1>0, <1>4, <1>9 DEF ThreadsSound
    <3>3. ASSUME NEW u \in 0 .. TensorParallelism - 1, NEW q \in arrived'[u]
          PROVE  q \in DpClass(u) /\ thread'[q] \in {"wait", "waitEnd"}
      <4>1. CASE q = r
        <5>1. u = t
          BY <1>0, <1>1, <1>6, <2>3, <3>3, <4>1 DEF ThreadsSound
        <5> QED BY <1>0, <1>1, <2>1, <4>1, <5>1
      <4>2. CASE q # r
        <5>1. q \in arrived[u]
          BY <2>3, <3>3, <4>2
        <5>2. q \in DpClass(u) /\ thread[q] \in {"wait", "waitEnd"} /\ q \in WorldRanks
          BY <1>0, <1>6, <5>1 DEF ThreadsSound
        <5> QED BY <2>2, <4>2, <5>2
      <4> QED BY <4>1, <4>2
    <3> QED BY <1>0, <1>3, <3>1, <3>2, <3>3 DEF ThreadsSound
  <2>5. ASSUME TensorParallelism >= DataParallelism, NEW u \in 0 .. TensorParallelism - 1
        PROVE  ClassComing(u)' \/ ClassGone(u)'
    <3>0. ClassComing(u) \/ ClassGone(u)
      BY <1>0, <2>5 DEF ClassesSound
    <3>1. CASE u = t
      <4>1. arrived'[t] = arrived[t] \cup {r} /\ reduced' = reduced
        BY <1>0, <1>1, <2>3
      <4>2. CASE ClassComing(t)
        <5>1. thread[r] = "train"
          BY <1>0, <1>1, <4>2 DEF ClassComing, Coming
        <5>2. ASSUME NEW q \in DpClass(t)
              PROVE  thread'[q] \in Coming /\ ~reduced'[q] /\ (q \in arrived'[t] <=> thread'[q] = "wait")
          <6>1. CASE q = r
            BY <2>1, <4>1, <4>2, <5>1, <6>1 DEF ClassComing, Coming
          <6>2. CASE q # r
            BY <1>6, <2>2, <4>1, <4>2, <6>2 DEF ClassComing
          <6> QED BY <6>1, <6>2
        <5> QED BY <3>1, <5>2 DEF ClassComing
      <4>3. CASE ClassGone(t)
        <5>1. thread[r] = "reduced"
          BY <1>0, <1>1, <4>3 DEF ClassGone, Gone
        <5>2. ASSUME NEW q \in DpClass(t)
              PROVE  thread'[q] \in Gone /\ (q \in arrived'[t] <=> thread'[q] = "waitEnd")
          <6>1. CASE q = r
            BY <2>1, <4>1, <4>3, <5>1, <6>1 DEF ClassGone, Gone
          <6>2. CASE q # r
            BY <1>6, <2>2, <4>1, <4>3, <6>2 DEF ClassGone
          <6> QED BY <6>1, <6>2
        <5> QED BY <3>1, <5>2 DEF ClassGone
      <4> QED BY <3>0, <3>1, <4>2, <4>3
    <3>2. CASE u # t
      <4>1. \A q \in DpClass(u) : thread'[q] = thread[q] /\ reduced'[q] = reduced[q]
        BY <1>0, <1>1, <1>6, <2>2, <3>2
      <4>2. arrived'[u] = arrived[u]
        BY <2>3, <3>2
      <4> QED BY <3>0, <4>1, <4>2 DEF ClassComing, ClassGone
    <3> QED BY <3>1, <3>2
  <2> QED BY <1>2, <2>4, <2>5 DEF InitRunIInv, ClassesSound
<1> QED BY <1>5, <1>8, <1>9

\* A thread begins or ends its reduction.
LEMMA ThreadReduces ==
  ASSUME InitRunIInv, NEW r \in WorldRanks, DpReduce(r)
  PROVE  InitRunIInv'
<1>0. /\ LoadSound /\ ThreadsSound /\ (TensorParallelism >= DataParallelism => ClassesSound)
      /\ thread[r] = "reduce"
      /\ UNCHANGED <<checkpoint, data, model, ranks, wandb, configs, result, arrived>>
      /\ \/ reduced' = [reduced EXCEPT ![r] = TRUE] /\ thread' = thread
         \/ thread' = [thread EXCEPT ![r] = "reduced"] /\ reduced' = reduced
  BY DEF InitRunIInv, DpReduce, loadVars
<1>1. LoadSound'
  BY <1>0 DEF LoadSound, NothingLeftBehind
<1>2. result # "pending"
  BY <1>0 DEF ThreadsSound
<1>3. /\ \A q \in WorldRanks : q # r => thread'[q] = thread[q] /\ reduced'[q] = reduced[q]
      /\ thread'[r] \in {"reduce", "reduced"}
      /\ thread' \in [WorldRanks -> Coming \cup Gone] /\ reduced' \in [WorldRanks -> BOOLEAN]
  BY <1>0 DEF ThreadsSound, Coming, Gone
<1>4. ThreadsSound'
  BY <1>0, <1>2, <1>3 DEF ThreadsSound, DpClass
<1>5. ASSUME NEW t \in 0 .. TensorParallelism - 1, ClassComing(t) \/ ClassGone(t)
      PROVE  ClassComing(t)' \/ ClassGone(t)'
  <2>1. CASE r \in DpClass(t)
    <3>1. ClassGone(t)
      BY <1>0, <1>5, <2>1 DEF ClassComing, Coming
    <3>2. \A q \in DpClass(t) : q \in WorldRanks
      BY DEF DpClass
    <3> QED BY <1>0, <1>3, <2>1, <3>1, <3>2 DEF ClassGone, Gone
  <2>2. CASE r \notin DpClass(t)
    <3>1. \A q \in DpClass(t) : thread'[q] = thread[q] /\ reduced'[q] = reduced[q]
      BY <1>3, <2>2 DEF DpClass
    <3> QED BY <1>0, <1>5, <3>1 DEF ClassComing, ClassGone
  <2> QED BY <2>1, <2>2
<1> QED BY <1>0, <1>1, <1>4, <1>5 DEF InitRunIInv, ClassesSound

\* Every step keeps the invariant.
LEMMA InitRunStep == InitRunIInv /\ [InitRunNext]_initRunVars => InitRunIInv'
<1> SUFFICES ASSUME InitRunIInv, [InitRunNext]_initRunVars PROVE InitRunIInv'
  OBVIOUS
<1>1. CASE UNCHANGED initRunVars
  BY <1>1 DEF initRunVars, InitRunIInv, LoadSound, NothingLeftBehind, ThreadsSound, ClassesSound,
              ClassComing, ClassGone
<1>2. CASE InitRunNext
  <2>1. CASE JoinFutures
    BY <2>1, FuturesJoined
  <2>2. CASE \E r \in WorldRanks : DpWait(r)
    BY <2>2, ThreadWaits
  <2>3. CASE \E r \in WorldRanks : DpReduce(r)
    BY <2>3, ThreadReduces
  <2>4. CASE \/ RefuseRun \/ StartRun \/ LoadDummy \/ ModelLoaded
             \/ DataReady \/ WandbReady \/ ModelSource
             \/ \E r \in WorldRanks : RankStep(r)
    BY <2>4, FuturesStep
  <2> QED BY <1>2, <2>1, <2>2, <2>3, <2>4 DEF InitRunNext, Futures, ThreadStep
<1> QED BY <1>1, <1>2

\* For any number of devices, data and tensor parallel ranks, whichever of the three
\* futures of init_run or of the ranks that load the model fails or comes first: a run
\* is entered with everything loaded or not at all, no error leaves another future at
\* work, peers get the configuration of a loaded model, and the data parallel ranks
\* reduce together if they are not more than the tensor parallel ones, which the barrier
\* of init.rs is made for.
THEOREM InitRunSafety == InitRunSpec => [](EnteredWhole /\ ReducedTogether)
<1>1. InitRunInit => InitRunIInv
  BY InitRunStarts
<1>2. InitRunIInv /\ [InitRunNext]_initRunVars => InitRunIInv'
  BY InitRunStep
<1>3. InitRunIInv => EnteredWhole /\ ReducedTogether
  <2> SUFFICES ASSUME InitRunIInv PROVE EnteredWhole /\ ReducedTogether
    OBVIOUS
  <2>1. EnteredWhole
    BY DEF InitRunIInv, LoadSound, EnteredWhole, RunIsComplete, ConfigOfLoadedModel
  <2>2. ASSUME TensorParallelism >= DataParallelism, NEW r \in WorldRanks, reduced[r],
               NEW q \in DpRanks(r)
        PROVE  thread[q] \notin {"none", "train", "wait"}
    <3>1. Tp(r) \in 0 .. TensorParallelism - 1 /\ r \in DpClass(Tp(r)) /\ q \in DpClass(Tp(r))
      BY RankHasTp
    <3>2. ClassGone(Tp(r))
      BY <2>2, <3>1 DEF InitRunIInv, ClassesSound, ClassComing
    <3> QED BY <3>1, <3>2 DEF ClassGone, Gone
  <2> QED BY <2>1, <2>2 DEF ReducedTogether, ReduceTogether
<1> QED BY <1>1, <1>2, <1>3, PTL DEF InitRunSpec

\* A thread of a grid that is wider than it is deep never leaves the first barrier.
NobodyReduces ==
  \A r \in WorldRanks : thread[r] \in Coming /\ ~reduced[r]

\* CancellableBarrier::new(tensor_parallelism) of init.rs, with more tensor than data
\* parallel ranks: as many threads as it waits for never come, so that no thread of the
\* client begins its reduction.
THEOREM WideGridHangs ==
  ASSUME TensorParallelism > DataParallelism
  PROVE  InitRunSpec => []NobodyReduces
<1> DEFINE J == InitRunIInv /\ NobodyReduces
<1>1. InitRunInit => J
  BY InitRunStarts DEF InitRunInit, NobodyReduces, Coming
<1>2. ASSUME J, [InitRunNext]_initRunVars PROVE NobodyReduces'
  <2>0. /\ thread \in [WorldRanks -> Coming \cup Gone] /\ NobodyReduces
        /\ arrived \in [0 .. TensorParallelism - 1 -> SUBSET WorldRanks]
        /\ \A t \in 0 .. TensorParallelism - 1 : arrived[t] \subseteq DpClass(t)
    BY <1>2 DEF InitRunIInv, ThreadsSound
  <2>1. CASE thread' = thread /\ reduced' = reduced
    BY <2>0, <2>1 DEF NobodyReduces
  <2>2. ASSUME NEW r \in WorldRanks, DpWait(r) PROVE NobodyReduces'
    <3> DEFINE t == Tp(r)
               all == arrived[t] \cup {r}
    <3>1. t \in 0 .. TensorParallelism - 1 /\ r \in DpClass(t) /\ all \subseteq DpClass(t)
      BY <2>0, RankHasTp
    <3>2. IsFiniteSet(DpClass(t)) /\ Cardinality(DpClass(t)) <= DataParallelism
      BY <3>1, ClassesSmall
    <3>3. Cardinality(all) \in Nat /\ Cardinality(all) <= Cardinality(DpClass(t))
          /\ Cardinality(DpClass(t)) \in Nat
      BY <3>1, <3>2, FS_Subset, FS_CardinalityType
    <3>4. ~(Cardinality(all) >= BarrierSize)
      BY <3>2, <3>3, InitRunAssumption DEF BarrierSize
    <3>5. /\ thread[r] \in {"train", "reduced"} /\ reduced' = reduced
          /\ thread' = [thread EXCEPT ![r] =
                          [train |-> "wait", reduced |-> "waitEnd"][thread[r]]]
      BY <2>2, <3>4 DEF DpWait
    <3>6. thread[r] = "train"
      BY <2>0, <3>5 DEF NobodyReduces, Coming
    <3>7. thread' = [thread EXCEPT ![r] = "wait"]
      BY <3>5, <3>6
    <3> QED BY <2>0, <3>5, <3>7 DEF NobodyReduces, Coming
  <2>3. ASSUME NEW r \in WorldRanks, DpReduce(r) PROVE FALSE
    BY <2>0, <2>3 DEF DpReduce, NobodyReduces, Coming
  <2>4. CASE JoinFutures
    <3>1. reduced' = reduced
          /\ (thread' = thread \/ thread' = [r \in WorldRanks |-> "train"])
      BY <2>4 DEF JoinFutures
    <3> QED BY <2>0, <3>1 DEF NobodyReduces, Coming
  <2>5. CASE UNCHANGED initRunVars
    BY <2>1, <2>5 DEF initRunVars
  <2>6. CASE \/ RefuseRun \/ StartRun \/ LoadDummy \/ ModelLoaded
             \/ DataReady \/ WandbReady \/ ModelSource
             \/ \E r \in WorldRanks : RankStep(r)
    BY <2>1, <2>6 DEF RefuseRun, StartRun, LoadDummy, ModelLoaded, DataReady, WandbReady,
                      ModelSource, RankStep, RankJoins, RankLoads, dpVars
  <2> QED BY <1>2, <2>2, <2>3, <2>4, <2>5, <2>6 DEF InitRunNext, Futures, ThreadStep
<1>3. J /\ [InitRunNext]_initRunVars => J'
  BY <1>2, InitRunStep
<1>4. J => NobodyReduces
  OBVIOUS
<1> QED BY <1>1, <1>3, <1>4, PTL DEF InitRunSpec

-----------------------------------------------------------------------------
(* The texts that are written for an evaluation. *)

\* The constants of the texts, and the step of a stride with them, are positive.
LEMMA WriterConstants ==
  /\ StepBy \in Nat \ {0} /\ NumRequests \in Nat \ {0} /\ RequestLength \in Nat \ {0}
  /\ MaxContext \in Nat \ {0} /\ MaxTokens \in Nat \ {0} /\ PassLimit \in Nat \ {0}
  /\ LastPosition \in Nat /\ MaxAbsences \in Nat
<1>1. Cardinality(Writers) \in Nat /\ Cardinality(Writers) # 0
  BY GenerateAssumption, FS_CardinalityType, FS_EmptySet
<1> QED BY <1>1, GenerateAssumption DEF StepBy

\* The rest of a multiple and a rest.
LEMMA RestOfMultiple ==
  ASSUME NEW n \in Nat \ {0}, NEW a \in Nat, NEW x \in 0 .. n - 1
  PROVE  (a * n + x) % n = x
<1> DEFINE y == a * n + x
           q == y \div n
           r == y % n
<1>0. a * n \in Nat
  OBVIOUS
<1>1. y \in Nat
  BY <1>0
<1>2. q \in Nat /\ r \in 0 .. n - 1 /\ y = n * q + r
  <2> HIDE DEF y
  <2> QED BY <1>1
<1>3. y = n * a + x
  OBVIOUS
<1> HIDE DEF y, q, r
<1>4. q = a
  <2>1. ASSUME q > a PROVE FALSE
    <3> DEFINE d == q - a
    <3>1. d \in Nat /\ d >= 1 /\ q = a + d
      BY <1>2, <2>1
    <3>2. n * q = n * a + n * d /\ n * d >= n
      <4> HIDE DEF d
      <4>1. \A u, v \in Nat : n * (u + v) = n * u + n * v
        OBVIOUS
      <4>2. n * q = n * a + n * d
        BY <3>1, <4>1
      <4>3. n * d >= n
        BY <3>1
      <4> QED BY <4>2, <4>3
    <3> DEFINE u == n * q
               v == n * a
               z == n * d
    <3>3. u = v + z /\ z >= n /\ u \in Nat /\ v \in Nat /\ z \in Nat
      <4> HIDE DEF d
      <4> QED BY <1>2, <3>1, <3>2
    <3>4. u + r = v + x
      BY <1>2, <1>3
    <3> HIDE DEF u, v, z, d
    <3> QED BY <1>2, <3>3, <3>4
  <2>2. ASSUME a > q PROVE FALSE
    <3> DEFINE d == a - q
    <3>1. d \in Nat /\ d >= 1 /\ a = q + d
      BY <1>2, <2>2
    <3>2. n * a = n * q + n * d /\ n * d >= n
      <4> HIDE DEF d
      <4>1. \A u, v \in Nat : n * (u + v) = n * u + n * v
        OBVIOUS
      <4>2. n * a = n * q + n * d
        BY <1>2, <3>1, <4>1
      <4>3. n * d >= n
        BY <3>1
      <4> QED BY <4>2, <4>3
    <3> DEFINE u == n * q
               v == n * a
               z == n * d
    <3>3. v = u + z /\ z >= n /\ u \in Nat /\ v \in Nat /\ z \in Nat
      <4> HIDE DEF d
      <4> QED BY <1>2, <3>1, <3>2
    <3>4. u + r = v + x
      BY <1>2, <1>3
    <3> HIDE DEF u, v, z, d
    <3> QED BY <1>2, <3>3, <3>4
  <2> QED BY <1>2, <2>1, <2>2
<1>5. r = x
  <2> DEFINE z == n * a
  <2>1. z \in Nat /\ y = z + r /\ y = z + x
    BY <1>2, <1>3, <1>4
  <2> HIDE DEF z
  <2> QED BY <1>2, <2>1
<1> QED BY <1>5 DEF r, y

\* The window of a text that grows does not need what fell out of the window.
LEMMA WindowForgets ==
  ASSUME NEW s \in Seq(Int), NEW t \in Int
  PROVE  Window(s) \in Seq(Int) /\ Window(Append(Window(s), t)) = Window(Append(s, t))
<1> DEFINE L == Len(s)
           M == MaxContext
<1>0. L \in Nat /\ M \in Nat \ {0}
  BY WriterConstants
<1>1. CASE L <= M
  <2>1. Window(s) = s
    BY <1>0, <1>1 DEF Window
  <2> QED BY <2>1
<1>2. CASE L > M
  <2> DEFINE w == SubSeq(s, L - M + 1, L)
             a == Append(w, t)
             b == Append(s, t)
  <2>1. Window(s) = w
    BY <1>0, <1>2 DEF Window
  <2>2. w \in Seq(Int) /\ Len(w) = M /\ \A i \in 1 .. M : w[i] = s[L - M + i]
    BY <1>0, <1>2
  <2>3. a \in Seq(Int) /\ Len(a) = M + 1 /\ (\A i \in 1 .. M : a[i] = w[i]) /\ a[M + 1] = t
    <3> HIDE DEF w
    <3> QED BY <1>0, <2>2, AppendToSequence
  <2>4. b \in Seq(Int) /\ Len(b) = L + 1 /\ (\A i \in 1 .. L : b[i] = s[i]) /\ b[L + 1] = t
    BY <1>0, AppendToSequence
  <2> HIDE DEF w, a, b, L
  <2> DEFINE x == SubSeq(a, 2, M + 1)
             y == SubSeq(b, L + 1 - M + 1, L + 1)
  <2>5. Window(a) = x /\ Window(b) = y
    <3>1. M + 1 > M /\ L + 1 > M /\ (M + 1) - M + 1 = 2
      BY <1>0, <1>2
    <3>2. Len(a) > MaxContext /\ Len(a) - MaxContext + 1 = 2
      BY <2>3, <3>1
    <3>3. Len(b) > MaxContext /\ Len(b) - MaxContext + 1 = L + 1 - M + 1
      BY <1>0, <2>4, <3>1
    <3>4. Window(a) = SubSeq(a, Len(a) - MaxContext + 1, Len(a))
      BY <3>2 DEF Window
    <3>5. Window(b) = SubSeq(b, Len(b) - MaxContext + 1, Len(b))
      BY <3>3 DEF Window
    <3>6. Window(a) = x
      BY <2>3, <3>2, <3>4
    <3>7. Window(b) = y
      BY <2>4, <3>3, <3>5
    <3> QED BY <3>6, <3>7
  <2>6. x \in Seq(Int) /\ Len(x) = M /\ \A i \in 1 .. M : x[i] = a[i + 1]
    BY <1>0, <2>3
  <2>7. y \in Seq(Int) /\ Len(y) = M /\ \A i \in 1 .. M : y[i] = b[L + 1 - M + i]
    BY <1>0, <1>2, <2>4
  <2>8. ASSUME NEW i \in 1 .. M PROVE x[i] = y[i]
    <3>1. CASE i = M
      <4>1. i + 1 = M + 1 /\ L + 1 - M + i = L + 1
        BY <1>0, <3>1
      <4> QED BY <2>3, <2>4, <2>6, <2>7, <4>1
    <3>2. CASE i # M
      <4>1. i + 1 \in 1 .. M /\ L - M + (i + 1) = L + 1 - M + i /\ L + 1 - M + i \in 1 .. L
        BY <1>0, <1>2, <3>2
      <4>2. x[i] = s[L - M + (i + 1)]
        BY <2>2, <2>3, <2>6, <4>1
      <4>3. y[i] = s[L + 1 - M + i]
        BY <2>4, <2>7, <4>1
      <4> QED BY <4>1, <4>2, <4>3
    <3> QED BY <3>1, <3>2
  <2> HIDE DEF x, y
  <2>9. x = y
    BY <2>6, <2>7, <2>8
  <2> QED BY <2>1, <2>2, <2>5, <2>9 DEF a, b
<1> QED BY <1>0, <1>1, <1>2

-----------------------------------------------------------------------------
(* The strides. *)

StrideApart(d, e) == \A k \in Int : d # e + k * StepBy
StrideBehind(e, d) == \E k \in Nat \ {0} : d = e + k * StepBy

\* What the positions H that strides stand at are to what was scored and what is kept.
StridesSound(H, done, kept) ==
  /\ H \subseteq Nat
  /\ \A d, e \in H : d # e => StrideApart(d, e)
  /\ done \in Seq(Nat)
  /\ \A i, j \in 1 .. Len(done) : done[i] = done[j] => i = j
  /\ \A i \in 1 .. Len(done) : \E h \in H : StrideBehind(done[i], h)
  /\ \A h \in H : \A k \in Nat \ {0} :
       h - k * StepBy >= 0 => \E i \in 1 .. Len(done) : done[i] = h - k * StepBy
  /\ \A d \in kept : \E h \in H : h % NumRequests = d

\* Scoring the document that a stride stands at, and going on.
LEMMA StrideGoesOn ==
  ASSUME NEW H, NEW done, NEW kept, StridesSound(H, done, kept), NEW h \in H
  PROVE  StridesSound((H \ {h}) \cup {h + StepBy}, Append(done, h), kept \ {h % NumRequests})
<1> DEFINE S == StepBy
           G == (H \ {h}) \cup {h + S}
           more == Append(done, h)
           n == Len(done)
<1>0. S \in Nat \ {0} /\ H \subseteq Nat /\ h \in Nat /\ done \in Seq(Nat) /\ n \in Nat
  BY WriterConstants DEF StridesSound
<1>1. more \in Seq(Nat) /\ Len(more) = n + 1 /\ (\A i \in 1 .. n : more[i] = done[i]) /\ more[n + 1] = h
  BY <1>0, AppendToSequence
<1>2. /\ \A d, e \in H : d # e => StrideApart(d, e)
      /\ \A i, j \in 1 .. n : done[i] = done[j] => i = j
      /\ \A i \in 1 .. n : \E g \in H : StrideBehind(done[i], g)
      /\ \A g \in H : \A k \in Nat \ {0} :
           g - k * S >= 0 => \E i \in 1 .. n : done[i] = g - k * S
      /\ \A d \in kept : \E g \in H : g % NumRequests = d
  BY DEF StridesSound
<1>a. \A k, l \in Int : (k + l) * S = k * S + l * S /\ k * S \in Int
  BY <1>0
<1>b. 1 * S = S
  BY <1>0
<1> HIDE DEF S, more, n
<1>3. G \subseteq Nat
  BY <1>0
<1>4. ASSUME NEW e \in H, e # h PROVE StrideApart(h + S, e) /\ StrideApart(e, h + S)
  <2>0. e \in Nat /\ StrideApart(h, e) /\ StrideApart(e, h)
    BY <1>0, <1>2, <1>4
  <2>1. ASSUME NEW k \in Int, h + S = e + k * S PROVE FALSE
    <3>1. k - 1 \in Int /\ k = (k - 1) + 1
      OBVIOUS
    <3>2. k * S = (k - 1) * S + S
      BY <1>a, <1>b, <3>1
    <3> DEFINE u == (k - 1) * S
               v == k * S
    <3>3. u \in Int /\ v = u + S /\ h + S = e + v
      BY <1>a, <2>1, <3>1, <3>2
    <3> HIDE DEF u, v
    <3>4. h = e + u
      BY <1>0, <2>0, <3>3
    <3> QED BY <2>0, <3>1, <3>4 DEF StrideApart, u, S
  <2>2. ASSUME NEW k \in Int, e = (h + S) + k * S PROVE FALSE
    <3>1. k + 1 \in Int
      OBVIOUS
    <3>2. (k + 1) * S = k * S + S
      BY <1>a, <1>b
    <3> DEFINE u == (k + 1) * S
               v == k * S
    <3>3. v \in Int /\ u = v + S /\ e = (h + S) + v
      BY <1>a, <2>2, <3>1, <3>2
    <3> HIDE DEF u, v
    <3>4. e = h + u
      BY <1>0, <2>0, <3>3
    <3> QED BY <2>0, <3>1, <3>4 DEF StrideApart, u, S
  <2> QED BY <2>1, <2>2 DEF StrideApart, S
<1>5. \A d, e \in G : d # e => StrideApart(d, e)
  BY <1>2, <1>4
<1>6. ASSUME NEW i \in 1 .. n, done[i] = h PROVE FALSE
  <2>1. PICK g \in H : StrideBehind(h, g)
    BY <1>2, <1>6
  <2>2. PICK k \in Nat \ {0} : g = h + k * S
    BY <2>1 DEF StrideBehind, S
  <2>3. k * S > 0 /\ k * S \in Nat
    BY <1>0
  <2>4. g # h
    <3> DEFINE u == k * S
    <3>1. u > 0 /\ u \in Nat /\ g = h + u
      BY <2>2, <2>3
    <3> HIDE DEF u
    <3> QED BY <1>0, <3>1
  <2>5. StrideApart(g, h)
    BY <1>2, <2>4
  <2> QED BY <2>2, <2>5 DEF StrideApart, S
<1>7. ASSUME NEW i \in 1 .. n + 1, NEW j \in 1 .. n + 1, more[i] = more[j] PROVE i = j
  <2>1. \A k \in 1 .. n + 1 : k \in 1 .. n \/ k = n + 1
    BY <1>0
  <2> QED BY <1>1, <1>2, <1>6, <1>7, <2>1
<1>8. ASSUME NEW i \in 1 .. n + 1 PROVE \E g \in G : StrideBehind(more[i], g)
  <2>1. CASE i = n + 1
    <3>1. h + S = h + 1 * S
      BY <1>b
    <3>2. StrideBehind(h, h + S)
      BY <3>1 DEF StrideBehind, S
    <3> QED BY <1>1, <2>1, <3>2
  <2>2. CASE i # n + 1
    <3>1. i \in 1 .. n /\ more[i] = done[i]
      BY <1>0, <1>1, <2>2
    <3>2. PICK g \in H : StrideBehind(done[i], g)
      BY <1>2, <3>1
    <3>3. CASE g # h
      BY <3>1, <3>2, <3>3
    <3>4. CASE g = h
      <4>1. PICK k \in Nat \ {0} : h = done[i] + k * S
        BY <3>2, <3>4 DEF StrideBehind, S
      <4>2. done[i] \in Nat
        BY <1>0, <3>1 DEF n
      <4>3. (k + 1) * S = k * S + S /\ k * S \in Int /\ k + 1 \in Nat \ {0}
        <5>1. k \in Int /\ 1 \in Int /\ k + 1 \in Nat \ {0}
          OBVIOUS
        <5> QED BY <1>a, <1>b, <5>1
      <4> DEFINE u == k * S
                 v == (k + 1) * S
      <4>4. h = done[i] + u /\ v = u + S /\ u \in Int
        BY <4>1, <4>3
      <4> HIDE DEF u, v
      <4>5. h + S = done[i] + v
        BY <1>0, <4>2, <4>4
      <4>6. StrideBehind(done[i], h + S)
        BY <4>3, <4>5 DEF StrideBehind, v, S
      <4> QED BY <3>1, <4>6
    <3> QED BY <3>3, <3>4
  <2> QED BY <2>1, <2>2
<1>9. ASSUME NEW g \in G, NEW k \in Nat \ {0}, g - k * S >= 0
      PROVE  \E i \in 1 .. n + 1 : more[i] = g - k * S
  <2>1. \A i \in 1 .. n : i \in 1 .. n + 1
    BY <1>0
  <2>2. CASE g \in H
    <3>1. PICK i \in 1 .. n : done[i] = g - k * S
      BY <1>2, <1>9, <2>2
    <3> QED BY <1>1, <2>1, <3>1
  <2>3. CASE g = h + S
    <3>1. CASE k = 1
      <4>1. g - k * S = h
        BY <1>0, <1>b, <2>3, <3>1
      <4>2. n + 1 \in 1 .. n + 1
        BY <1>0
      <4> QED BY <1>1, <4>1, <4>2
    <3>2. CASE k # 1
      <4> DEFINE l == k - 1
      <4>1. l \in Nat \ {0} /\ k = l + 1
        BY <3>2
      <4>2. k * S = l * S + S /\ l * S \in Int
        <5> HIDE DEF l
        <5>1. l \in Int /\ 1 \in Int
          BY <4>1
        <5> QED BY <1>a, <1>b, <4>1, <5>1
      <4> DEFINE u == l * S
                 v == k * S
      <4>3. v = u + S /\ u \in Int
        BY <4>2
      <4>4. g - v = h - u /\ g - v >= 0
        <5> HIDE DEF u
        <5>1. g - v >= 0
          BY <1>9
        <5> HIDE DEF v
        <5> QED BY <1>0, <2>3, <4>3, <5>1
      <4>5. PICK i \in 1 .. n : done[i] = h - u
        <5>1. h - l * S >= 0
          BY <4>4
        <5> HIDE DEF l
        <5> QED BY <1>2, <4>1, <5>1
      <4>6. more[i] = g - k * S
        BY <1>1, <4>4, <4>5
      <4> QED BY <2>1, <4>6
    <3> QED BY <3>1, <3>2
  <2> QED BY <2>2, <2>3
<1>10. ASSUME NEW d \in kept \ {h % NumRequests} PROVE \E g \in G : g % NumRequests = d
  <2>1. PICK g \in H : g % NumRequests = d
    BY <1>2
  <2>2. g # h
    BY <1>10, <2>1
  <2> QED BY <2>1, <2>2
<1> HIDE DEF G
<1>11. StridesSound(G, more, kept \ {h % NumRequests})
  BY <1>1, <1>3, <1>5, <1>7, <1>8, <1>9, <1>10 DEF StridesSound, S
<1> QED BY <1>11 DEF G, more, S

-----------------------------------------------------------------------------
(* The invariant. *)

WriterRecords ==
  [at : {"away", "documents", "tokens"}, first : Nat, iterations : Nat, processed : Nat,
   generated : Seq(Nat), sequence : Seq(Int)]

\* The tokens of a text, none missing.
Numbered(s) == s \in Seq(Nat) /\ s = [i \in 1 .. Len(s) |-> i]

\* What a writer has in hand is the text of the document its stride stands at.
WriterSound(c) ==
  /\ c.at = "tokens" =>
       /\ c.iterations = c.processed /\ DocIndex(c) < NumRequests
       /\ Numbered(c.generated) /\ Len(c.generated) < MaxTokens
       /\ Window(c.sequence) = Window(Request \o c.generated)
  /\ c.at = "documents" =>
       c.iterations = c.processed \/ (called /\ c.iterations = c.processed + 1)
  /\ c.at # "tokens" => c.generated = <<>>

CacheSound ==
  /\ DOMAIN cache \subseteq 0 .. NumRequests - 1
  /\ \A d \in DOMAIN cache : Numbered(cache[d]) /\ Len(cache[d]) < MaxTokens

InCall == {w \in Writers : writer[w].at # "away"}
Standing(w) == NextPosition(writer[w])
StartsHeld == {starts[i] : i \in 1 .. Len(starts)}

\* The positions that the strides stand at.
StridesHeld == StartsHeld \cup {Standing(w) : w \in InCall}

\* No stride is in two hands.
HeldOnce ==
  /\ \A i, j \in 1 .. Len(starts) : starts[i] = starts[j] => i = j
  /\ \A w, v \in InCall : Standing(w) = Standing(v) => w = v
  /\ \A w \in InCall, i \in 1 .. Len(starts) : Standing(w) # starts[i]

WritersTyped ==
  /\ absences \in 0 .. MaxAbsences /\ called \in BOOLEAN
  /\ starts \in Seq(Nat)
  /\ writer \in [Writers -> WriterRecords]

GenerateIInv ==
  /\ WritersTyped
  /\ \A w \in Writers : WriterSound(writer[w])
  /\ CacheSound
  /\ HeldOnce
  /\ StridesSound(StridesHeld, scored, DOMAIN cache)

\* Where a call stands, and what document that is.
LEMMA Positions ==
  ASSUME NEW c \in WriterRecords
  PROVE  /\ Skip(c) \in 0 .. NumRequests - 1 /\ FastForward(c) \in Nat
         /\ c.processed * StepBy \in Nat /\ c.iterations * StepBy \in Nat
         /\ NextPosition(c) = c.first + c.processed * StepBy
         /\ FastForward(c) + DocIndex(c) = c.first + c.iterations * StepBy
         /\ NextPosition(c) \in Nat /\ DocIndex(c) \in Nat
<1> DEFINE n == NumRequests
           q == c.first \div n
           r == c.first % n
<1>0. n \in Nat \ {0} /\ StepBy \in Nat \ {0} /\ c.first \in Nat /\ c.processed \in Nat
      /\ c.iterations \in Nat
  BY WriterConstants DEF WriterRecords
<1>1. q \in Nat /\ r \in 0 .. n - 1 /\ c.first = n * q + r
  BY <1>0
<1>2. FastForward(c) = q * n /\ Skip(c) = c.first - q * n
  BY DEF FastForward, Skip
<1>3. \A a, b \in Nat : a * b \in Nat /\ a * b = b * a
  OBVIOUS
<1> DEFINE f == q * n
<1>4. f \in Nat /\ c.first = f + r
  <2> HIDE DEF q, r, n
  <2> QED BY <1>0, <1>1, <1>3
<1> DEFINE x == c.processed * StepBy
           y == c.iterations * StepBy
<1>5. x \in Nat /\ y \in Nat
  BY <1>0, <1>3
<1> HIDE DEF q, r
<1>6. FastForward(c) = f /\ Skip(c) = c.first - f /\ NextPosition(c) = f + Skip(c) + x
      /\ DocIndex(c) = Skip(c) + y
  BY <1>2 DEF NextPosition, DocIndex
<1> HIDE DEF f, x, y
<1>7. /\ Skip(c) \in 0 .. n - 1 /\ FastForward(c) \in Nat
      /\ NextPosition(c) = c.first + x
      /\ FastForward(c) + DocIndex(c) = c.first + y
      /\ NextPosition(c) \in Nat /\ DocIndex(c) \in Nat
  BY <1>0, <1>1, <1>4, <1>5, <1>6
<1> QED BY <1>5, <1>7 DEF x, y

\* The document in hand is the one that the stride stands at.
LEMMA DocumentInHand ==
  ASSUME NEW c \in WriterRecords, c.iterations = c.processed, DocIndex(c) < NumRequests
  PROVE  /\ NextPosition(c) = FastForward(c) + DocIndex(c)
         /\ NextPosition(c) % NumRequests = DocIndex(c)
<1>0. NumRequests \in Nat \ {0} /\ c.first \in Nat
  BY WriterConstants DEF WriterRecords
<1>1. NextPosition(c) = FastForward(c) + DocIndex(c) /\ DocIndex(c) \in Nat
  BY Positions
<1>2. c.first \div NumRequests \in Nat
  BY <1>0
<1>3. DocIndex(c) \in 0 .. NumRequests - 1
  BY <1>0, <1>1
<1>4. FastForward(c) + DocIndex(c) = (c.first \div NumRequests) * NumRequests + DocIndex(c)
  BY DEF FastForward
<1> DEFINE a == c.first \div NumRequests
           x == DocIndex(c)
<1>5. (a * NumRequests + x) % NumRequests = x
  <2> HIDE DEF a, x
  <2>1. a \in Nat /\ x \in 0 .. NumRequests - 1
    BY <1>2, <1>3 DEF a, x
  <2> QED BY <1>0, <2>1, RestOfMultiple
<1> QED BY <1>1, <1>4, <1>5

\* Nothing of the strides changes when only the texts do.
LEMMA StridesKept ==
  ASSUME WritersTyped, NEW w \in Writers, NEW c \in WriterRecords,
         writer' = [writer EXCEPT ![w] = c], starts' = starts,
         (c.at = "away") <=> (writer[w].at = "away"),
         c.first = writer[w].first, c.processed = writer[w].processed
  PROVE  StridesHeld' = StridesHeld /\ (HeldOnce => HeldOnce')
<1>1. \A v \in Writers : writer[v] \in WriterRecords /\ writer'[v] = IF v = w THEN c ELSE writer[v]
  BY DEF WritersTyped
<1>2. NextPosition(c) = NextPosition(writer[w])
  BY DEF NextPosition, FastForward, Skip
<1>3. InCall' = InCall
  BY <1>1 DEF InCall
<1>4. \A v \in InCall : Standing(v)' = Standing(v)
  BY <1>1, <1>2 DEF InCall, Standing, NextPosition, FastForward, Skip
<1>5. StartsHeld' = StartsHeld
  BY DEF StartsHeld
<1>6. StridesHeld' = StridesHeld
  BY <1>3, <1>4, <1>5 DEF StridesHeld
<1>7. HeldOnce => HeldOnce'
  BY <1>3, <1>4 DEF HeldOnce
<1> QED BY <1>6, <1>7

\* Before the first call every stride is at its first document.
LEMMA GenerateStarts == GenerateInit => GenerateIInv
<1> SUFFICES ASSUME GenerateInit PROVE GenerateIInv
  OBVIOUS
<1>0. StepBy \in Nat \ {0}
  BY WriterConstants
<1>1. starts \in Seq(Nat) /\ Len(starts) = StepBy /\ \A i \in 1 .. StepBy : starts[i] = i - 1
  BY <1>0 DEF GenerateInit
<1>2. Away \in WriterRecords /\ Away.at = "away" /\ Away.generated = <<>>
  BY DEF Away, WriterRecords
<1>3. writer \in [Writers -> WriterRecords] /\ \A w \in Writers : writer[w] = Away
  BY <1>2 DEF GenerateInit
<1>4. WritersTyped
  <2>1. absences \in 0 .. MaxAbsences
    BY WriterConstants DEF GenerateInit
  <2>2. called \in BOOLEAN
    BY DEF GenerateInit
  <2> QED BY <1>1, <1>3, <2>1, <2>2 DEF WritersTyped
<1>5. \A w \in Writers : WriterSound(writer[w])
  BY <1>2, <1>3 DEF WriterSound
<1>6. DOMAIN cache = {}
  BY DEF GenerateInit
<1>7. CacheSound
  BY <1>6 DEF CacheSound
<1>8. InCall = {}
  BY <1>2, <1>3 DEF InCall
<1>9. HeldOnce
  BY <1>0, <1>1, <1>8 DEF HeldOnce
<1>10. StridesHeld = 0 .. StepBy - 1
  <2>1. StridesHeld = {starts[i] : i \in 1 .. StepBy}
    BY <1>1, <1>8 DEF StridesHeld, StartsHeld
  <2>2. \A p \in 0 .. StepBy - 1 : p + 1 \in 1 .. StepBy /\ starts[p + 1] = p
    BY <1>0, <1>1
  <2>3. \A i \in 1 .. StepBy : starts[i] \in 0 .. StepBy - 1
    BY <1>0, <1>1
  <2> QED BY <2>1, <2>2, <2>3
<1>11. ASSUME NEW d \in 0 .. StepBy - 1, NEW e \in 0 .. StepBy - 1, d # e,
              NEW k \in Int, d = e + k * StepBy
       PROVE  FALSE
  <2> DEFINE S == StepBy
             u == k * S
  <2>1. u \in Int /\ d = e + u
    BY <1>0, <1>11
  <2>2. k = 0 \/ k >= 1 \/ k <= -1
    OBVIOUS
  <2>3. k = 0 => u = 0
    BY <1>0
  <2>4. k >= 1 => u >= S
    BY <1>0
  <2>5. k <= -1 => u <= -S
    <3> HAVE k <= -1
    <3> DEFINE l == -k
    <3>1. l \in Nat /\ l >= 1 /\ k = -l
      OBVIOUS
    <3>2. l * S >= S /\ l * S \in Nat
      <4> HIDE DEF l
      <4> QED BY <1>0, <3>1
    <3>3. k * S = -(l * S)
      BY <1>0
    <3> DEFINE v == l * S
    <3>4. u = -v /\ v >= S /\ v \in Nat
      BY <3>2, <3>3
    <3> HIDE DEF u, v
    <3> QED BY <1>0, <3>4
  <2> HIDE DEF u, S
  <2> QED BY <1>0, <1>11, <2>1, <2>2, <2>3, <2>4, <2>5 DEF S
<1>12. \A d, e \in StridesHeld : d # e => StrideApart(d, e)
  BY <1>10, <1>11 DEF StrideApart
<1>13. ASSUME NEW h \in StridesHeld, NEW k \in Nat \ {0}, h - k * StepBy >= 0 PROVE FALSE
  <2> DEFINE u == k * StepBy
  <2>1. u >= StepBy /\ u \in Nat
    BY <1>0
  <2>2. h - u >= 0 /\ h \in 0 .. StepBy - 1
    BY <1>10, <1>13
  <2> HIDE DEF u
  <2> QED BY <1>0, <2>1, <2>2
<1>14. scored \in Seq(Nat) /\ Len(scored) = 0 /\ 1 .. Len(scored) = {}
  BY DEF GenerateInit
<1>15. StridesHeld \subseteq Nat
  BY <1>0, <1>10
<1>16. StridesSound(StridesHeld, scored, DOMAIN cache)
  BY <1>6, <1>12, <1>13, <1>14, <1>15 DEF StridesSound
<1> QED BY <1>4, <1>5, <1>7, <1>9, <1>16 DEF GenerateIInv

\* A stride is taken up.
LEMMA CallBegins ==
  ASSUME GenerateIInv, NEW w \in Writers, BeginCall(w)
  PROVE  GenerateIInv'
<1>0. WritersTyped /\ HeldOnce /\ CacheSound /\ (\A v \in Writers : WriterSound(writer[v]))
      /\ StridesSound(StridesHeld, scored, DOMAIN cache)
  BY DEF GenerateIInv
<1> DEFINE n == Len(starts)
           p == starts[n]
           c == [Away EXCEPT !.at = "documents", !.first = p]
<1>1. starts \in Seq(Nat) /\ n \in Nat \ {0} /\ p \in Nat /\ writer[w].at = "away"
      /\ UNCHANGED <<absences, called, cache, scored>>
  BY <1>0 DEF BeginCall, WritersTyped
<1>2. starts' \in Seq(Nat) /\ Len(starts') = n - 1 /\ \A i \in 1 .. n - 1 : starts'[i] = starts[i]
  <2>1. starts' = SubSeq(starts, 1, n - 1)
    BY <1>1 DEF BeginCall, Front
  <2>2. n - 1 \in Nat /\ n - 1 <= n /\ \A i \in 1 .. n - 1 : i \in 1 .. n /\ 1 + i - 1 = i
    BY <1>1
  <2>3. Len(starts) = n
    OBVIOUS
  <2> HIDE DEF n
  <2> DEFINE m == n - 1
  <2>4. m \in Nat /\ m <= Len(starts) /\ starts' = SubSeq(starts, 1, m)
    BY <2>1, <2>2, <2>3
  <2> HIDE DEF m
  <2>5. starts' \in Seq(Nat) /\ Len(starts') = m /\ \A i \in 1 .. m : starts'[i] = starts[i]
    BY <1>1, <2>4
  <2> QED BY <2>5 DEF m
<1>3. writer' = [writer EXCEPT ![w] = c]
  BY <1>1 DEF BeginCall, Last
<1> HIDE DEF n, p
<1>4. c \in WriterRecords /\ c.at = "documents" /\ c.first = p /\ c.iterations = 0 /\ c.processed = 0
      /\ c.generated = <<>>
  <2>1. Away \in WriterRecords /\ Away.iterations = 0 /\ Away.processed = 0 /\ Away.generated = <<>>
    BY DEF Away, WriterRecords
  <2> QED BY <1>1, <2>1 DEF WriterRecords
<1> HIDE DEF c
<1>5. /\ writer' \in [Writers -> WriterRecords]
      /\ \A v \in Writers : writer[v] \in WriterRecords /\ writer'[v] = IF v = w THEN c ELSE writer[v]
  BY <1>0, <1>3, <1>4 DEF WritersTyped
<1>6. InCall' = InCall \cup {w} /\ w \notin InCall
  BY <1>1, <1>4, <1>5 DEF InCall
<1>7. /\ \A v \in InCall : v \in Writers /\ v # w /\ Standing(v)' = Standing(v)
      /\ Standing(w)' = p
  <2>1. NextPosition(c) = c.first + c.processed * StepBy
    BY <1>4, Positions
  <2>2. 0 * StepBy = 0
    BY WriterConstants
  <2>3. NextPosition(c) = p
    BY <1>1, <1>4, <2>1, <2>2
  <2>4. Standing(w)' = NextPosition(c)
    BY <1>5 DEF Standing, NextPosition, FastForward, Skip
  <2>5. \A v \in InCall : v \in Writers /\ v # w
    BY <1>6 DEF InCall
  <2>6. \A v \in InCall : Standing(v)' = Standing(v)
    BY <1>5, <2>5 DEF Standing, NextPosition, FastForward, Skip
  <2> QED BY <2>3, <2>4, <2>5, <2>6
<1>8. \A i \in 1 .. n : i \in 1 .. n - 1 \/ i = n
  BY <1>1
<1>9. n \in 1 .. n /\ \A i \in 1 .. n - 1 : i \in 1 .. n /\ i # n
  BY <1>1
<1>10. StartsHeld = StartsHeld' \cup {p} /\ StridesHeld' = StridesHeld
  <2>1. StartsHeld = {starts[i] : i \in 1 .. n} /\ StartsHeld' = {starts'[i] : i \in 1 .. n - 1}
    BY <1>2 DEF StartsHeld, n
  <2>2. StartsHeld = StartsHeld' \cup {p}
    BY <1>2, <1>8, <1>9, <2>1 DEF p
  <2>3. {Standing(v)' : v \in InCall'} = {Standing(v) : v \in InCall} \cup {p}
    BY <1>6, <1>7
  <2>4. StridesHeld' = StartsHeld' \cup {Standing(v)' : v \in InCall'}
    BY DEF StridesHeld
  <2> QED BY <2>2, <2>3, <2>4 DEF StridesHeld
<1>11. HeldOnce'
  <2>1. ASSUME NEW i \in 1 .. n - 1, NEW j \in 1 .. n - 1, starts'[i] = starts'[j] PROVE i = j
    BY <1>0, <1>2, <1>9, <2>1 DEF HeldOnce, n
  <2>2. ASSUME NEW v \in InCall', NEW u \in InCall', Standing(v)' = Standing(u)' PROVE v = u
    <3>1. \A x \in InCall : Standing(x) # p
      BY <1>0, <1>9 DEF HeldOnce, n, p
    <3> QED BY <1>0, <1>6, <1>7, <2>2, <3>1 DEF HeldOnce
  <2>3. ASSUME NEW v \in InCall', NEW i \in 1 .. n - 1, Standing(v)' = starts'[i] PROVE FALSE
    <3>1. CASE v = w
      <4>1. starts[n] = starts[i]
        BY <1>2, <1>7, <2>3, <3>1 DEF p
      <4> QED BY <1>0, <1>9, <4>1 DEF HeldOnce, n
    <3>2. CASE v \in InCall
      BY <1>0, <1>2, <1>7, <1>9, <2>3, <3>2 DEF HeldOnce, n
    <3> QED BY <1>6, <3>1, <3>2
  <2> QED BY <1>2, <2>1, <2>2, <2>3 DEF HeldOnce
<1>12. ASSUME NEW v \in Writers PROVE WriterSound(writer[v])'
  <2>1. CASE v = w
    BY <1>4, <1>5, <2>1 DEF WriterSound
  <2>2. CASE v # w
    BY <1>0, <1>1, <1>5, <2>2 DEF WriterSound, DocIndex, Skip, FastForward
  <2> QED BY <2>1, <2>2
<1>13. WritersTyped'
  BY <1>0, <1>1, <1>2, <1>5 DEF WritersTyped
<1>14. CacheSound'
  BY <1>0, <1>1 DEF CacheSound, Numbered
<1>15. StridesSound(StridesHeld, scored, DOMAIN cache)'
  <2>1. scored' = scored /\ DOMAIN cache' = DOMAIN cache
    BY <1>1
  <2> QED BY <1>0, <1>10, <2>1 DEF StridesSound, StrideApart, StrideBehind
<1> QED BY <1>11, <1>12, <1>13, <1>14, <1>15 DEF GenerateIInv

\* A stride is given back.
LEMMA CallEnds ==
  ASSUME GenerateIInv, NEW w \in Writers, EndCall(w)
  PROVE  GenerateIInv'
<1>0. WritersTyped /\ HeldOnce /\ CacheSound /\ (\A v \in Writers : WriterSound(writer[v]))
      /\ StridesSound(StridesHeld, scored, DOMAIN cache)
  BY DEF GenerateIInv
<1> DEFINE n == Len(starts)
           p == NextPosition(writer[w])
<1>1. /\ starts \in Seq(Nat) /\ n \in Nat /\ writer[w] \in WriterRecords
      /\ writer[w].at # "away" /\ writer' = [writer EXCEPT ![w] = Away]
      /\ starts' = <<p>> \o starts /\ UNCHANGED <<absences, called, cache, scored>>
  BY <1>0 DEF EndCall, WritersTyped
<1>2. p \in Nat /\ p = Standing(w)
  BY <1>1, Positions DEF Standing
<1> HIDE DEF p
<1>3. /\ starts' \in Seq(Nat) /\ Len(starts') = n + 1 /\ starts'[1] = p
      /\ \A i \in 1 .. n : starts'[i + 1] = starts[i]
  BY <1>1, <1>2
<1> HIDE DEF n
<1>4. Away \in WriterRecords /\ Away.at = "away" /\ Away.generated = <<>>
  BY DEF Away, WriterRecords
<1>5. /\ writer' \in [Writers -> WriterRecords]
      /\ \A v \in Writers : writer'[v] = IF v = w THEN Away ELSE writer[v]
  BY <1>0, <1>1, <1>4 DEF WritersTyped
<1>6. InCall' = InCall \ {w} /\ w \in InCall
  BY <1>1, <1>4, <1>5 DEF InCall
<1>7. \A v \in InCall' : v \in InCall /\ v # w /\ Standing(v)' = Standing(v)
  BY <1>5, <1>6 DEF InCall, Standing, NextPosition, FastForward, Skip
<1>8. \A i \in 1 .. n + 1 : i = 1 \/ (i - 1 \in 1 .. n /\ i = (i - 1) + 1)
  BY <1>1
<1>9. 1 \in 1 .. n + 1 /\ \A i \in 1 .. n : i + 1 \in 1 .. n + 1
  BY <1>1
<1>10. StridesHeld' = StridesHeld
  <2>1. StartsHeld = {starts[i] : i \in 1 .. n} /\ StartsHeld' = {starts'[i] : i \in 1 .. n + 1}
    BY <1>3 DEF StartsHeld, n
  <2>2. StartsHeld' = StartsHeld \cup {p}
    <3>1. ASSUME NEW i \in 1 .. n + 1 PROVE starts'[i] \in StartsHeld \cup {p}
      <4>1. CASE i = 1
        BY <1>3, <4>1
      <4>2. CASE i # 1
        <5> DEFINE j == i - 1
        <5>1. j \in 1 .. n /\ i = j + 1
          BY <1>8, <4>2
        <5> HIDE DEF j
        <5>2. starts'[i] = starts[j] /\ starts[j] \in StartsHeld
          BY <1>3, <2>1, <5>1
        <5> QED BY <5>2
      <4> QED BY <4>1, <4>2
    <3>2. \A x \in StartsHeld : x \in StartsHeld'
      BY <1>3, <1>9, <2>1
    <3>3. p \in StartsHeld'
      BY <1>3, <1>9, <2>1
    <3> QED BY <2>1, <3>1, <3>2, <3>3
  <2>3. {Standing(v)' : v \in InCall'} \cup {p} = {Standing(v) : v \in InCall}
    BY <1>2, <1>6, <1>7
  <2>4. StridesHeld' = StartsHeld' \cup {Standing(v)' : v \in InCall'}
    BY DEF StridesHeld
  <2> QED BY <2>2, <2>3, <2>4 DEF StridesHeld
<1>11. HeldOnce'
  <2>0. \A i \in 1 .. n : starts[i] # p
    BY <1>0, <1>2, <1>6 DEF HeldOnce, n
  <2>1. ASSUME NEW i \in 1 .. n + 1, NEW j \in 1 .. n + 1, starts'[i] = starts'[j] PROVE i = j
    <3>1. \A k \in 1 .. n : starts'[k + 1] = starts[k] /\ starts[k] # p
      BY <1>3, <2>0
    <3>2. CASE i = 1 /\ j = 1
      BY <3>2
    <3>3. CASE i = 1 /\ j # 1
      <4>1. starts'[j] # p
        BY <1>8, <3>1, <3>3
      <4> QED BY <1>3, <2>1, <3>3, <4>1
    <3>4. CASE i # 1 /\ j = 1
      <4>1. starts'[i] # p
        BY <1>8, <3>1, <3>4
      <4> QED BY <1>3, <2>1, <3>4, <4>1
    <3>5. CASE i # 1 /\ j # 1
      <4>1. i - 1 \in 1 .. n /\ j - 1 \in 1 .. n /\ i = (i - 1) + 1 /\ j = (j - 1) + 1
        BY <1>8, <3>5
      <4> DEFINE k == i - 1
                 l == j - 1
      <4>2. k \in 1 .. n /\ l \in 1 .. n /\ i = k + 1 /\ j = l + 1
        BY <4>1
      <4> HIDE DEF k, l
      <4>3. starts[k] = starts[l]
        BY <1>3, <2>1, <4>2
      <4>4. k = l
        BY <1>0, <4>2, <4>3 DEF HeldOnce, n
      <4> QED BY <4>2, <4>4
    <3> QED BY <3>2, <3>3, <3>4, <3>5
  <2>2. ASSUME NEW v \in InCall', NEW u \in InCall', Standing(v)' = Standing(u)' PROVE v = u
    BY <1>0, <1>7, <2>2 DEF HeldOnce
  <2>3. ASSUME NEW v \in InCall', NEW i \in 1 .. n + 1, Standing(v)' = starts'[i] PROVE FALSE
    <3>1. v \in InCall /\ v # w /\ Standing(v)' = Standing(v)
      BY <1>7
    <3>2. CASE i = 1
      <4>1. Standing(v) = Standing(w)
        BY <1>2, <1>3, <2>3, <3>1, <3>2
      <4> QED BY <1>0, <1>6, <3>1, <4>1 DEF HeldOnce
    <3>3. CASE i # 1
      <4> DEFINE k == i - 1
      <4>1. k \in 1 .. n /\ i = k + 1
        BY <1>8, <3>3
      <4> HIDE DEF k
      <4>2. Standing(v) = starts[k]
        BY <1>3, <2>3, <3>1, <4>1
      <4> QED BY <1>0, <3>1, <4>1, <4>2 DEF HeldOnce, n
    <3> QED BY <3>2, <3>3
  <2> QED BY <1>3, <2>1, <2>2, <2>3 DEF HeldOnce
<1>12. ASSUME NEW v \in Writers PROVE WriterSound(writer[v])'
  <2>1. CASE v = w
    BY <1>4, <1>5, <2>1 DEF WriterSound
  <2>2. CASE v # w
    BY <1>0, <1>1, <1>5, <2>2 DEF WriterSound, DocIndex, Skip, FastForward
  <2> QED BY <2>1, <2>2
<1>13. WritersTyped'
  BY <1>0, <1>1, <1>3, <1>5 DEF WritersTyped
<1>14. CacheSound'
  BY <1>0, <1>1 DEF CacheSound, Numbered
<1>15. StridesSound(StridesHeld, scored, DOMAIN cache)'
  <2>1. scored' = scored /\ DOMAIN cache' = DOMAIN cache
    BY <1>1
  <2> QED BY <1>0, <1>10, <2>1 DEF StridesSound, StrideApart, StrideBehind
<1> QED BY <1>11, <1>12, <1>13, <1>14, <1>15 DEF GenerateIInv

\* What the other writers have in hand stays as it is.
LEMMA OthersSound ==
  ASSUME GenerateIInv, NEW w \in Writers, NEW c \in WriterRecords,
         writer' = [writer EXCEPT ![w] = c], UNCHANGED <<absences, called, starts>>,
         WriterSound(c)
  PROVE  WritersTyped' /\ \A v \in Writers : WriterSound(writer[v])'
<1>1. /\ writer' \in [Writers -> WriterRecords]
      /\ \A v \in Writers : writer'[v] = IF v = w THEN c ELSE writer[v]
  BY DEF GenerateIInv, WritersTyped
<1>2. WritersTyped'
  BY <1>1 DEF GenerateIInv, WritersTyped
<1>3. ASSUME NEW v \in Writers PROVE WriterSound(writer[v])'
  BY <1>1 DEF GenerateIInv, WriterSound, DocIndex, Skip, FastForward
<1> QED BY <1>2, <1>3

\* A document is begun, or taken up again.
LEMMA DocumentBegins ==
  ASSUME GenerateIInv, NEW w \in Writers, BeginDocument(w)
  PROVE  GenerateIInv'
<1>0. WritersTyped /\ HeldOnce /\ CacheSound /\ (\A v \in Writers : WriterSound(writer[v]))
      /\ StridesSound(StridesHeld, scored, DOMAIN cache)
  BY DEF GenerateIInv
<1> DEFINE b == writer[w]
           d == DocIndex(b)
           g == Resumed(d).generated
           c == [b EXCEPT !.at = "tokens", !.generated = g, !.sequence = Resumed(d).sequence]
<1>1. /\ b \in WriterRecords /\ b.at = "documents" /\ ~LoopEnds(b)
      /\ writer' = [writer EXCEPT ![w] = c] /\ UNCHANGED <<absences, called, starts, cache, scored>>
  BY <1>0 DEF BeginDocument, WritersTyped
<1>2. Resumed(d).sequence = Request \o g /\ g = IF d \in DOMAIN cache THEN cache[d] ELSE <<>>
  BY DEF Resumed
<1>3. writer' = [writer EXCEPT ![w] = [b EXCEPT !.at = "tokens", !.generated = g, !.sequence = Request \o g]]
  BY <1>1, <1>2
<1>4. Numbered(g) /\ Len(g) < MaxTokens
  <2>1. CASE d \in DOMAIN cache
    BY <1>0, <1>2, <2>1 DEF CacheSound
  <2>2. CASE d \notin DOMAIN cache
    <3>1. g = <<>>
      BY <1>2, <2>2
    <3>2. Numbered(<<>>) /\ Len(<<>>) = 0
      BY DEF Numbered
    <3> QED BY <3>1, <3>2, WriterConstants
  <2> QED BY <2>1, <2>2
<1>5. ~called /\ d < NumRequests
  <2>1. d \in Nat
    BY <1>1, Positions
  <2> HIDE DEF d
  <2>2. ~called /\ ~(d >= NumRequests)
    BY <1>1 DEF LoopEnds, d
  <2> QED BY <2>1, <2>2, WriterConstants
<1>6. b.iterations = b.processed
  BY <1>0, <1>1, <1>5 DEF WriterSound
<1> DEFINE e == [b EXCEPT !.at = "tokens", !.generated = g, !.sequence = Request \o g]
<1> HIDE DEF g, d, b
<1>7. Request \in Seq(Int)
  BY WriterConstants DEF Request
<1>8. g \in Seq(Nat) /\ g \in Seq(Int)
  BY <1>4 DEF Numbered
<1>9. Request \o g \in Seq(Int)
  BY <1>7, <1>8
<1> DEFINE t == Request \o g
<1>10. /\ e \in WriterRecords /\ e.at = "tokens" /\ e.generated = g /\ e.sequence = t
       /\ e.first = b.first /\ e.iterations = b.iterations /\ e.processed = b.processed
  <2>1. t \in Seq(Int)
    BY <1>9
  <2> HIDE DEF t
  <2>2. e = [b EXCEPT !.at = "tokens", !.generated = g, !.sequence = t]
    BY DEF t
  <2> QED BY <1>1, <1>8, <2>1, <2>2 DEF WriterRecords
<1> HIDE DEF e, t
<1>11. DocIndex(e) = d
  BY <1>10 DEF DocIndex, Skip, FastForward, d
<1>12. WriterSound(e)
  BY <1>4, <1>5, <1>6, <1>10, <1>11 DEF WriterSound, t
<1>13. writer' = [writer EXCEPT ![w] = e]
  BY <1>3 DEF e
<1>14. WritersTyped' /\ \A v \in Writers : WriterSound(writer[v])'
  BY <1>1, <1>10, <1>12, <1>13, OthersSound
<1>15. StridesHeld' = StridesHeld /\ HeldOnce'
  <2>1. (e.at = "away") <=> (writer[w].at = "away")
    BY <1>1, <1>10 DEF b
  <2>2. e.first = writer[w].first /\ e.processed = writer[w].processed
    BY <1>10 DEF b
  <2> QED BY <1>0, <1>1, <1>10, <1>13, <2>1, <2>2, StridesKept
<1>16. CacheSound'
  BY <1>0, <1>1 DEF CacheSound, Numbered
<1>17. StridesSound(StridesHeld, scored, DOMAIN cache)'
  <2>1. scored' = scored /\ DOMAIN cache' = DOMAIN cache
    BY <1>1
  <2> QED BY <1>0, <1>15, <2>1 DEF StridesSound, StrideApart, StrideBehind
<1> QED BY <1>14, <1>15, <1>16, <1>17 DEF GenerateIInv

\* A token more is the next one, and the model reads the same as with all of the text.
LEMMA TokenWritten ==
  ASSUME NEW c \in WriterRecords, WriterSound(c), c.at = "tokens"
  PROVE  LET e == WithToken(c)
         IN  /\ e \in WriterRecords /\ e.at = "tokens" /\ e.first = c.first
             /\ e.iterations = c.iterations /\ e.processed = c.processed
             /\ DocIndex(e) = DocIndex(c) /\ FastForward(e) = FastForward(c)
             /\ Numbered(e.generated) /\ Len(e.generated) \in Nat
             /\ Window(e.sequence) = Window(Request \o e.generated)
<1> DEFINE g == c.generated
           n == Len(g)
           t == n + 1
           h == Append(g, t)
           q == c.sequence
           s == Append(Window(q), t)
           r == Request \o g
<1>1. g \in Seq(Nat) /\ n \in Nat /\ t \in Nat /\ q \in Seq(Int) /\ g = [i \in 1 .. n |-> i]
      /\ Window(q) = Window(r)
  BY DEF WriterRecords, WriterSound, Numbered
<1>2. WithToken(c) = [c EXCEPT !.generated = h, !.sequence = s]
  BY DEF WithToken, WriterRecords
<1>3. Request \in Seq(Int)
  BY WriterConstants DEF Request
<1> HIDE DEF q
<1>4. g \in Seq(Int) /\ t \in Int
  BY <1>1
<1>5. r \in Seq(Int)
  <2> HIDE DEF g
  <2> QED BY <1>3, <1>4
<1>6. h \in Seq(Nat) /\ Len(h) = n + 1 /\ (\A i \in 1 .. n : h[i] = g[i]) /\ h[n + 1] = t
      /\ DOMAIN h = 1 .. n + 1
  <2> HIDE DEF g
  <2>1. h \in Seq(Nat) /\ Len(h) = n + 1 /\ (\A i \in 1 .. n : h[i] = g[i]) /\ h[n + 1] = t
    BY <1>1, AppendToSequence
  <2>2. DOMAIN h = 1 .. n + 1
    <3> HIDE DEF h
    <3> QED BY <2>1
  <2> QED BY <2>1, <2>2
<1>7. Numbered(h)
  <2>1. \A i \in 1 .. n : g[i] = i
    BY <1>1
  <2>2. \A i \in 1 .. n + 1 : i \in 1 .. n \/ i = n + 1
    BY <1>1
  <2>3. \A i \in 1 .. n + 1 : h[i] = i
    <3> HIDE DEF h, g, n
    <3> QED BY <1>6, <2>1, <2>2 DEF t
  <2> HIDE DEF h, n
  <2>4. h = [i \in 1 .. n + 1 |-> i]
    BY <1>6, <2>3
  <2> QED BY <1>6, <2>4 DEF Numbered
<1>8. Window(q) \in Seq(Int) /\ s \in Seq(Int)
  <2>1. Window(q) \in Seq(Int)
    BY <1>1, <1>4, WindowForgets
  <2> DEFINE w == Window(q)
  <2>2. w \in Seq(Int) /\ s = Append(w, t)
    BY <2>1
  <2> HIDE DEF w, t
  <2>3. Append(w, t) \in Seq(Int)
    BY <1>4, <2>2
  <2> QED BY <2>1, <2>2, <2>3
<1>9. Window(s) = Window(Append(r, t))
  <2> HIDE DEF r, t
  <2>1. s = Append(Window(r), t)
    BY <1>1
  <2> QED BY <1>4, <1>5, <2>1, WindowForgets
<1>10. Append(r, t) = Request \o h
  <2> HIDE DEF g, t
  <2>1. Append(r, t) = r \o <<t>>
    <3> HIDE DEF r
    <3> QED BY <1>4, <1>5, AppendIsConcat
  <2>2. h = g \o <<t>>
    BY <1>4, AppendIsConcat
  <2>3. <<t>> \in Seq(Int)
    BY <1>4
  <2>4. (Request \o g) \o <<t>> = Request \o (g \o <<t>>)
    BY <1>3, <1>4, <2>3, ConcatAssociative
  <2> QED BY <2>1, <2>2, <2>4
<1>11. Window(s) = Window(Request \o h)
  BY <1>9, <1>10
<1> DEFINE e == WithToken(c)
<1> HIDE DEF h, s, g, n, t, r
<1>12. /\ e \in WriterRecords /\ e.at = "tokens" /\ e.first = c.first
       /\ e.iterations = c.iterations /\ e.processed = c.processed
       /\ e.generated = h /\ e.sequence = s
  BY <1>2, <1>6, <1>8 DEF WriterRecords
<1> HIDE DEF e
<1>13. DocIndex(e) = DocIndex(c) /\ FastForward(e) = FastForward(c)
  BY <1>12 DEF DocIndex, Skip, FastForward
<1>14. Len(e.generated) \in Nat
  BY <1>1, <1>6, <1>12
<1> QED BY <1>7, <1>11, <1>12, <1>13, <1>14 DEF e

\* A text that is not finished: it grows, and nothing else changes.
LEMMA TextGrows ==
  ASSUME GenerateIInv, NEW w \in Writers, writer[w].at = "tokens",
         ~AtLimit(WithToken(writer[w])),
         writer' = [writer EXCEPT ![w] = WithToken(writer[w])],
         UNCHANGED <<absences, called, starts, cache, scored>>
  PROVE  GenerateIInv'
<1>0. WritersTyped /\ HeldOnce /\ CacheSound /\ writer[w] \in WriterRecords /\ WriterSound(writer[w])
      /\ StridesSound(StridesHeld, scored, DOMAIN cache)
  BY DEF GenerateIInv, WritersTyped
<1> DEFINE e == WithToken(writer[w])
<1>1. /\ e \in WriterRecords /\ e.at = "tokens" /\ e.first = writer[w].first
      /\ e.iterations = writer[w].iterations /\ e.processed = writer[w].processed
      /\ DocIndex(e) = DocIndex(writer[w])
      /\ Numbered(e.generated) /\ Len(e.generated) \in Nat
      /\ Window(e.sequence) = Window(Request \o e.generated)
  BY <1>0, TokenWritten
<1>2. ~(Len(e.generated) >= MaxTokens) /\ writer' = [writer EXCEPT ![w] = e]
  BY DEF AtLimit
<1> HIDE DEF e
<1>3. Len(e.generated) < MaxTokens
  BY <1>1, <1>2, WriterConstants
<1>4. WriterSound(e)
  BY <1>0, <1>1, <1>3 DEF WriterSound
<1>5. WritersTyped' /\ \A v \in Writers : WriterSound(writer[v])'
  BY <1>1, <1>2, <1>4, OthersSound
<1>6. StridesHeld' = StridesHeld /\ HeldOnce'
  <2>1. (e.at = "away") <=> (writer[w].at = "away")
    BY <1>1
  <2> QED BY <1>0, <1>1, <1>2, <2>1, StridesKept
<1>7. CacheSound'
  BY <1>0 DEF CacheSound, Numbered
<1>8. StridesSound(StridesHeld, scored, DOMAIN cache)'
  <2>1. scored' = scored /\ DOMAIN cache' = DOMAIN cache
    OBVIOUS
  <2> QED BY <1>0, <1>6, <2>1 DEF StridesSound, StrideApart, StrideBehind
<1> QED BY <1>5, <1>6, <1>7, <1>8 DEF GenerateIInv

\* The strides of the next state are sound when those it is known to hold are.
LEMMA StridesNext ==
  ASSUME NEW H, NEW done, NEW kept, StridesSound(H, done, kept),
         StridesHeld' = H, scored' = done, DOMAIN cache' = kept
  PROVE  StridesSound(StridesHeld, scored, DOMAIN cache)'
BY DEF StridesSound, StrideApart, StrideBehind

\* A text that is finished is scored and forgotten, and its stride goes on.
LEMMA TextEnds ==
  ASSUME GenerateIInv, NEW w \in Writers, writer[w].at = "tokens",
         NEW c, c = WithToken(writer[w]),
         writer' = [writer EXCEPT ![w] =
                    [c EXCEPT !.at = "documents", !.generated = <<>>, !.sequence = <<>>,
                              !.iterations = @ + 1, !.processed = @ + 1]],
         cache' = Uncached(DocIndex(c)),
         scored' = Append(scored, FastForward(c) + DocIndex(c)),
         UNCHANGED <<absences, called, starts>>
  PROVE  GenerateIInv'
<1>0. /\ WritersTyped /\ HeldOnce /\ CacheSound /\ writer[w] \in WriterRecords
      /\ WriterSound(writer[w]) /\ StridesSound(StridesHeld, scored, DOMAIN cache)
      /\ \A v \in Writers : writer[v] \in WriterRecords
  BY DEF GenerateIInv, WritersTyped
<1> DEFINE b == writer[w]
           h == NextPosition(b)
           i == b.iterations + 1
           p == b.processed + 1
           e == [c EXCEPT !.at = "documents", !.generated = <<>>, !.sequence = <<>>,
                          !.iterations = i, !.processed = p]
<1>1. /\ c \in WriterRecords /\ c.first = b.first
      /\ c.iterations = b.iterations /\ c.processed = b.processed
      /\ DocIndex(c) = DocIndex(b) /\ FastForward(c) = FastForward(b)
  BY <1>0, TokenWritten
<1>2. b.iterations = b.processed /\ DocIndex(b) < NumRequests /\ b.processed \in Nat /\ b.first \in Nat
  BY <1>0 DEF WriterSound, WriterRecords
<1>3. h = FastForward(b) + DocIndex(b) /\ h % NumRequests = DocIndex(b)
  BY <1>0, <1>2, DocumentInHand
<1>4. writer' = [writer EXCEPT ![w] = e]
  BY <1>1
<1>5. i \in Nat /\ p \in Nat /\ i = p
  BY <1>2
<1> HIDE DEF i, p, b
<1>6. /\ e \in WriterRecords /\ e.at = "documents" /\ e.generated = <<>>
      /\ e.first = b.first /\ e.iterations = i /\ e.processed = p
  <2>1. <<>> \in Seq(Nat) /\ <<>> \in Seq(Int)
    OBVIOUS
  <2> DEFINE none == <<>>
  <2>2. none \in Seq(Nat) /\ none \in Seq(Int)
    BY <2>1
  <2>3. e = [c EXCEPT !.at = "documents", !.generated = none, !.sequence = none,
                      !.iterations = i, !.processed = p]
    OBVIOUS
  <2>4. c \in WriterRecords
    BY <1>1
  <2> HIDE DEF none, e
  <2>5. /\ e \in WriterRecords /\ e.at = "documents" /\ e.generated = none
        /\ e.first = c.first /\ e.iterations = i /\ e.processed = p
    BY <1>5, <2>2, <2>3, <2>4 DEF WriterRecords
  <2> QED BY <1>1, <2>5 DEF none
<1> HIDE DEF e
<1>7. WriterSound(e)
  BY <1>5, <1>6 DEF WriterSound
<1>8. WritersTyped' /\ \A v \in Writers : WriterSound(writer[v])'
  BY <1>4, <1>6, <1>7, OthersSound
<1>9. cache' = [d \in DOMAIN cache \ {DocIndex(b)} |-> cache[d]]
  BY <1>1 DEF Uncached, Restrict
<1>10. CacheSound'
  BY <1>0, <1>9 DEF CacheSound, Numbered
<1>11. \A v \in Writers : writer'[v] = IF v = w THEN e ELSE writer[v]
  BY <1>0, <1>4 DEF WritersTyped
<1>12. InCall' = InCall /\ w \in InCall
  BY <1>6, <1>11 DEF InCall
<1>13. NextPosition(e) = h + StepBy /\ h \in Nat
  <2>1. NextPosition(e) = e.first + e.processed * StepBy
    BY <1>6, Positions
  <2>2. h = b.first + b.processed * StepBy /\ h \in Nat /\ b.processed * StepBy \in Nat
    BY <1>0, Positions DEF b
  <2>3. p * StepBy = b.processed * StepBy + StepBy
    BY <1>2, WriterConstants DEF p
  <2> DEFINE x == b.processed * StepBy
             y == p * StepBy
  <2>4. NextPosition(e) = b.first + y /\ y = x + StepBy /\ h = b.first + x /\ x \in Nat
    BY <1>6, <2>1, <2>2, <2>3
  <2> HIDE DEF x, y, h
  <2> QED BY SMTT(30), <1>2, <2>2, <2>4, WriterConstants
<1>14. Standing(w) = h /\ Standing(w)' = h + StepBy
  <2>1. Standing(w)' = NextPosition(e)
    BY <1>11 DEF Standing, NextPosition, FastForward, Skip
  <2> QED BY <1>13, <2>1 DEF Standing, b
<1>15. \A v \in InCall : v # w => Standing(v)' = Standing(v)
  BY <1>11 DEF InCall, Standing, NextPosition, FastForward, Skip
<1> HIDE DEF h
<1>16. h \in StridesHeld /\ \A v \in InCall : v # w => Standing(v) # h
  BY <1>0, <1>12, <1>14 DEF StridesHeld, HeldOnce
<1>17. \A k \in 1 .. Len(starts) : starts[k] # h
  BY <1>0, <1>12, <1>14 DEF HeldOnce
<1>18. StridesHeld' = (StridesHeld \ {h}) \cup {h + StepBy}
  <2>1. StartsHeld' = StartsHeld /\ h \notin StartsHeld
    BY <1>17 DEF StartsHeld
  <2>2. StridesHeld' = StartsHeld' \cup {Standing(v)' : v \in InCall'}
    BY DEF StridesHeld
  <2>3. {Standing(v)' : v \in InCall'} = ({Standing(v) : v \in InCall} \ {h}) \cup {h + StepBy}
    BY <1>12, <1>14, <1>15, <1>16
  <2> QED BY <2>1, <2>2, <2>3 DEF StridesHeld
<1>19. StridesSound((StridesHeld \ {h}) \cup {h + StepBy}, Append(scored, h),
                    DOMAIN cache \ {h % NumRequests})
  BY <1>0, <1>16, StrideGoesOn
<1>20. StridesSound(StridesHeld, scored, DOMAIN cache)'
  <2>1. scored' = Append(scored, h)
    BY <1>1, <1>3
  <2>2. DOMAIN cache' = DOMAIN cache \ {h % NumRequests}
    BY <1>3, <1>9
  <2> QED BY <1>18, <1>19, <2>1, <2>2, StridesNext
<1>21. \A x \in StridesHeld : x # h => x # h + StepBy
  <2> SUFFICES ASSUME NEW x \in StridesHeld, x # h, x = h + StepBy PROVE FALSE
    OBVIOUS
  <2>1. StrideApart(x, h)
    BY <1>0, <1>16 DEF StridesSound
  <2>2. 1 * StepBy = StepBy
    BY WriterConstants
  <2> QED BY <2>1, <2>2 DEF StrideApart
<1>22. HeldOnce'
  <2>1. \A k \in 1 .. Len(starts) : starts[k] # h + StepBy
    BY <1>17, <1>21 DEF StridesHeld, StartsHeld
  <2>2. \A v \in InCall : v # w => Standing(v) # h + StepBy
    BY <1>16, <1>21 DEF StridesHeld
  <2>3. \A k, l \in 1 .. Len(starts) : starts[k] = starts[l] => k = l
    BY <1>0 DEF HeldOnce
  <2>4. ASSUME NEW v \in InCall, NEW u \in InCall, Standing(v)' = Standing(u)' PROVE v = u
    BY <1>0, <1>14, <1>15, <2>2, <2>4 DEF HeldOnce
  <2>5. ASSUME NEW v \in InCall, NEW k \in 1 .. Len(starts) PROVE Standing(v)' # starts[k]
    BY <1>0, <1>14, <1>15, <2>1 DEF HeldOnce
  <2> QED BY <1>12, <2>3, <2>4, <2>5 DEF HeldOnce
<1> QED BY <1>8, <1>10, <1>20, <1>22 DEF GenerateIInv

\* A text that is interrupted is kept for its stride.
LEMMA TextKept ==
  ASSUME GenerateIInv, NEW w \in Writers, SaveTokens(w)
  PROVE  GenerateIInv'
<1>0. /\ WritersTyped /\ HeldOnce /\ CacheSound /\ writer[w] \in WriterRecords
      /\ WriterSound(writer[w]) /\ StridesSound(StridesHeld, scored, DOMAIN cache)
  BY DEF GenerateIInv, WritersTyped
<1> DEFINE b == writer[w]
           i == b.iterations + 1
           x == DocIndex(b)
           e == [b EXCEPT !.at = "documents", !.generated = <<>>, !.sequence = <<>>,
                          !.iterations = i]
<1>1. /\ b.at = "tokens" /\ called /\ writer' = [writer EXCEPT ![w] = e]
      /\ cache' = [d \in DOMAIN cache \cup {x} |-> IF d = x THEN b.generated ELSE cache[d]]
      /\ UNCHANGED <<absences, called, starts, scored>>
  BY <1>0 DEF SaveTokens, WriterRecords
<1>2. /\ b.iterations = b.processed /\ x < NumRequests /\ b.processed \in Nat
      /\ Numbered(b.generated) /\ Len(b.generated) < MaxTokens
  BY <1>0, <1>1 DEF WriterSound, WriterRecords
<1>3. NextPosition(b) % NumRequests = x /\ x \in Nat
  BY <1>0, <1>2, DocumentInHand, Positions
<1>4. i \in Nat /\ i = b.processed + 1
  BY <1>2
<1> HIDE DEF i, b, x
<1>5. /\ e \in WriterRecords /\ e.at = "documents" /\ e.generated = <<>>
      /\ e.first = b.first /\ e.iterations = i /\ e.processed = b.processed
  <2>1. <<>> \in Seq(Nat) /\ <<>> \in Seq(Int)
    OBVIOUS
  <2>2. b \in WriterRecords
    BY <1>0 DEF b
  <2>3. b.processed \in Nat
    BY <2>2 DEF WriterRecords
  <2> DEFINE none == <<>>
  <2>4. none \in Seq(Nat) /\ none \in Seq(Int)
    BY <2>1
  <2>5. e = [b EXCEPT !.at = "documents", !.generated = none, !.sequence = none,
                      !.iterations = i, !.processed = b.processed]
    BY <2>2 DEF WriterRecords
  <2> HIDE DEF none, e
  <2>6. /\ e \in WriterRecords /\ e.at = "documents" /\ e.generated = none
        /\ e.first = b.first /\ e.iterations = i /\ e.processed = b.processed
    BY <1>4, <2>2, <2>3, <2>4, <2>5 DEF WriterRecords
  <2> QED BY <2>6 DEF none
<1> HIDE DEF e
<1>6. WriterSound(e)
  BY <1>1, <1>4, <1>5 DEF WriterSound
<1>7. WritersTyped' /\ \A v \in Writers : WriterSound(writer[v])'
  BY <1>1, <1>5, <1>6, OthersSound
<1>8. StridesHeld' = StridesHeld /\ HeldOnce'
  <2>1. (e.at = "away") <=> (writer[w].at = "away")
    BY <1>1, <1>5 DEF b
  <2>2. e.first = writer[w].first /\ e.processed = writer[w].processed
    BY <1>5 DEF b
  <2> QED BY <1>0, <1>1, <1>5, <2>1, <2>2, StridesKept
<1>9. x \in 0 .. NumRequests - 1
  BY <1>2, <1>3, WriterConstants
<1>10. CacheSound'
  BY <1>0, <1>1, <1>2, <1>9 DEF CacheSound, Numbered
<1>11. NextPosition(b) \in StridesHeld
  BY <1>1 DEF StridesHeld, InCall, Standing, b
<1>12. StridesSound(StridesHeld, scored, DOMAIN cache)'
  <2>1. scored' = scored /\ DOMAIN cache' = DOMAIN cache \cup {x}
    BY <1>1
  <2>2. \A d \in DOMAIN cache \cup {x} : \E h \in StridesHeld : h % NumRequests = d
    BY <1>0, <1>3, <1>11 DEF StridesSound
  <2> QED BY <1>0, <1>8, <2>1, <2>2 DEF StridesSound, StrideApart, StrideBehind
<1> QED BY <1>7, <1>8, <1>10, <1>12 DEF GenerateIInv

\* A step that changes only whether the trainers are called away.
LEMMA CallsOnly ==
  ASSUME GenerateIInv, UNCHANGED <<starts, writer, cache, scored>>,
         absences' \in 0 .. MaxAbsences, called' \in BOOLEAN,
         \A w \in Writers : called /\ ~called' => writer[w].at = "away"
  PROVE  GenerateIInv'
<1>1. WritersTyped' /\ CacheSound'
  BY DEF GenerateIInv, WritersTyped, CacheSound, Numbered
<1>2. \A w \in Writers : WriterSound(writer[w])'
  BY DEF GenerateIInv, WriterSound, DocIndex, Skip, FastForward
<1>3. InCall' = InCall /\ StartsHeld' = StartsHeld /\ \A w \in InCall : Standing(w)' = Standing(w)
  BY DEF InCall, StartsHeld, Standing, NextPosition, FastForward, Skip
<1>4. StridesHeld' = StridesHeld
  BY <1>3 DEF StridesHeld
<1>5. HeldOnce'
  BY <1>3 DEF GenerateIInv, HeldOnce
<1>6. StridesSound(StridesHeld, scored, DOMAIN cache)'
  BY <1>4 DEF GenerateIInv, StridesSound, StrideApart, StrideBehind
<1> QED BY <1>1, <1>2, <1>5, <1>6 DEF GenerateIInv

\* Every step of the writers keeps the invariant.
LEMMA GenerateStep == GenerateIInv /\ [GenerateNext]_generateVars => GenerateIInv'
<1> SUFFICES ASSUME GenerateIInv, [GenerateNext]_generateVars PROVE GenerateIInv'
  OBVIOUS
<1>1. ASSUME NEW w \in Writers, WriterNext(w) PROVE GenerateIInv'
  <2>1. CASE BeginCall(w)
    BY <2>1, CallBegins
  <2>2. CASE BeginDocument(w)
    BY <2>2, DocumentBegins
  <2>3. CASE WriteToken(w)
    <3> DEFINE c == WithToken(writer[w])
    <3>1. writer[w].at = "tokens" /\ UNCHANGED <<absences, called, starts>>
      BY <2>3 DEF WriteToken
    <3>2. CASE /\ ~AtLimit(c)
               /\ writer' = [writer EXCEPT ![w] = c]
               /\ UNCHANGED <<cache, scored>>
      BY <3>1, <3>2, TextGrows
    <3>3. CASE /\ writer' = [writer EXCEPT ![w] =
                    [c EXCEPT !.at = "documents", !.generated = <<>>, !.sequence = <<>>,
                              !.iterations = @ + 1, !.processed = @ + 1]]
               /\ cache' = Uncached(DocIndex(c))
               /\ scored' = Append(scored, FastForward(c) + DocIndex(c))
      <4> HIDE DEF c
      <4>1. c = WithToken(writer[w])
        BY DEF c
      <4> QED BY <3>1, <3>3, <4>1, TextEnds
    <3> QED BY <2>3, <3>2, <3>3 DEF WriteToken
  <2>4. CASE SaveTokens(w)
    BY <2>4, TextKept
  <2>5. CASE EndCall(w)
    BY <2>5, CallEnds
  <2> QED BY <1>1, <2>1, <2>2, <2>3, <2>4, <2>5 DEF WriterNext
<1>2. CASE CallAway
  <2>1. absences' \in 0 .. MaxAbsences
    BY <1>2, WriterConstants DEF CallAway, GenerateIInv, WritersTyped
  <2>2. called' \in BOOLEAN /\ ~called /\ UNCHANGED <<starts, writer, cache, scored>>
    BY <1>2 DEF CallAway
  <2> QED BY <2>1, <2>2, CallsOnly
<1>3. CASE ComeBack
  <2>1. absences' \in 0 .. MaxAbsences
    BY <1>3 DEF ComeBack, GenerateIInv, WritersTyped
  <2>2. called' \in BOOLEAN /\ UNCHANGED <<starts, writer, cache, scored>>
        /\ \A w \in Writers : writer[w].at = "away"
    BY <1>3 DEF ComeBack
  <2> QED BY <2>1, <2>2, CallsOnly
<1>4. CASE UNCHANGED generateVars
  <2>1. absences' \in 0 .. MaxAbsences
    BY <1>4 DEF generateVars, GenerateIInv, WritersTyped
  <2>2. called' \in BOOLEAN /\ called' = called /\ UNCHANGED <<starts, writer, cache, scored>>
    BY <1>4 DEF generateVars, GenerateIInv, WritersTyped
  <2> QED BY <2>1, <2>2, CallsOnly
<1> QED BY <1>1, <1>2, <1>3, <1>4 DEF GenerateNext

\* The invariant gives what the run checks.
LEMMA GenerateImplied == GenerateIInv => GenerateInv
<1> SUFFICES ASSUME GenerateIInv PROVE GenerateInv
  OBVIOUS
<1>0. /\ WritersTyped /\ CacheSound /\ (\A v \in Writers : WriterSound(writer[v]))
      /\ StridesSound(StridesHeld, scored, DOMAIN cache)
  BY DEF GenerateIInv
<1>1. GenerateTypeOK
  <2>1. ASSUME NEW w \in Writers
        PROVE  /\ writer[w].at \in {"away", "documents", "tokens"}
               /\ Len(writer[w].generated) <= MaxTokens
    <3>1. writer[w] \in WriterRecords /\ WriterSound(writer[w])
      BY <1>0 DEF WritersTyped
    <3>2. writer[w].at \in {"away", "documents", "tokens"} /\ writer[w].generated \in Seq(Nat)
      BY <3>1 DEF WriterRecords
    <3>3. CASE writer[w].at = "tokens"
      <4>1. Len(writer[w].generated) < MaxTokens /\ Len(writer[w].generated) \in Nat
        BY <3>1, <3>2, <3>3 DEF WriterSound
      <4> QED BY <3>2, <4>1, WriterConstants
    <3>4. CASE writer[w].at # "tokens"
      <4>1. Len(writer[w].generated) = 0
        BY <3>1, <3>4 DEF WriterSound
      <4> QED BY <3>2, <4>1, WriterConstants
    <3> QED BY <3>3, <3>4
  <2>2. scored \in Seq(Nat)
    BY <1>0 DEF StridesSound
  <2> QED BY <1>0, <2>1, <2>2 DEF GenerateTypeOK, WritersTyped, CacheSound
<1>2. ReadsWholeText
  BY <1>0 DEF ReadsWholeText, WriterSound, Numbered
<1>3. ScoredOnce
  <2>0. /\ scored \in Seq(Nat) /\ DOMAIN scored = 1 .. Len(scored)
        /\ Range(scored) = {scored[i] : i \in 1 .. Len(scored)}
    BY <1>0 DEF StridesSound, Range
  <2>1. IsInjective(scored)
    BY <1>0, <2>0 DEF StridesSound, IsInjective
  <2>2. ASSUME NEW p \in Range(scored), p >= StepBy PROVE p - StepBy \in Range(scored)
    <3>1. PICK i \in 1 .. Len(scored) : p = scored[i]
      BY <2>0
    <3>2. p \in Nat
      BY <2>0, <3>1
    <3>3. PICK h \in StridesHeld : StrideBehind(p, h)
      BY <1>0, <3>1 DEF StridesSound
    <3>4. PICK k \in Nat \ {0} : h = p + k * StepBy
      BY <3>3 DEF StrideBehind
    <3>5. (k + 1) * StepBy = k * StepBy + StepBy /\ k * StepBy \in Nat
      BY WriterConstants
    <3> DEFINE u == k * StepBy
               v == (k + 1) * StepBy
    <3>6. v = u + StepBy /\ u \in Nat /\ h = p + u
      BY <3>4, <3>5
    <3> HIDE DEF u, v
    <3>7. h - v = p - StepBy /\ h - v >= 0
      BY <2>2, <3>2, <3>6, WriterConstants
    <3>8. k + 1 \in Nat \ {0}
      OBVIOUS
    <3>9. PICK j \in 1 .. Len(scored) : scored[j] = h - v
      <4> DEFINE l == k + 1
      <4>1. l \in Nat \ {0} /\ v = l * StepBy
        BY <3>8 DEF v
      <4> HIDE DEF l
      <4> QED BY <1>0, <3>7, <4>1 DEF StridesSound
    <3> QED BY <2>0, <3>7, <3>9
  <2> QED BY <2>1, <2>2 DEF ScoredOnce
<1>4. KeptForSomebody
  <2> SUFFICES ASSUME NEW d \in DOMAIN cache
               PROVE  \/ \E i \in DOMAIN starts : starts[i] % NumRequests = d
                      \/ \E w \in Writers : /\ writer[w].at # "away"
                                            /\ \/ DocIndex(writer[w]) = d
                                               \/ NextPosition(writer[w]) % NumRequests = d
    BY DEF KeptForSomebody
  <2>1. PICK h \in StridesHeld : h % NumRequests = d
    BY <1>0 DEF StridesSound
  <2>2. DOMAIN starts = 1 .. Len(starts)
    BY <1>0 DEF WritersTyped
  <2>3. CASE h \in StartsHeld
    BY <2>1, <2>2, <2>3 DEF StartsHeld
  <2>4. CASE h \in {Standing(w) : w \in InCall}
    BY <2>1, <2>4 DEF Standing, InCall
  <2> QED BY <2>3, <2>4 DEF StridesHeld
<1> QED BY <1>1, <1>2, <1>3, <1>4 DEF GenerateInv

\* However often and whenever the trainers are called away, for every number of
\* trainers, documents and tokens: the model reads the end of the whole text, every
\* document is scored once and none is left out, and nothing is kept of a text that is
\* finished (run_generate_until of shared/eval/src/harness.rs).
THEOREM GenerateSafety == GenerateSpec => []GenerateInv
<1>1. GenerateInit => GenerateIInv
  BY GenerateStarts
<1>2. GenerateIInv /\ [GenerateNext]_generateVars => GenerateIInv'
  BY GenerateStep
<1>3. GenerateIInv => GenerateInv
  BY GenerateImplied
<1> QED BY <1>1, <1>2, <1>3, PTL DEF GenerateSpec
=============================================================================
