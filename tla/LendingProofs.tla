---------------------------- MODULE LendingProofs ---------------------------
(***************************************************************************)
(* What a share of the lending contract is worth never falls, for any      *)
(* amounts, assets, accounts and order of the calls.  The inductive        *)
(* invariant PoolsSound says besides the types that a pool without shares  *)
(* has no deposits, that a pool counts at least the shares in hands and    *)
(* those the first deposit leaves to nobody, and that a loan is of a pool  *)
(* that has shares: without the last two a withdrawal, or the interest and *)
(* the payments of loans, could leave deposits that nobody owns.           *)
(***************************************************************************)
EXTENDS LendingContract, IterationLemmas

-----------------------------------------------------------------------------
(* Lending: what a share is worth. *)

(* Rounding down never gives more than the exact quotient.                 *)
LEMMA QuotientBelow ==
  ASSUME NEW a \in Nat, NEW b \in Nat, NEW d \in Nat \ {0}
  PROVE  (a * b) \div d \in Nat /\ d * ((a * b) \div d) <= a * b
<1> DEFINE product == a * b
<1>1. product \in Nat
  OBVIOUS
<1> HIDE DEF product
<1>2. product \div d \in Nat /\ d * (product \div d) <= product
  BY <1>1
<1> QED BY <1>2 DEF product

(* What basis points take of an amount.                                    *)
LEMMA PointsBelow ==
  ASSUME NEW a \in Nat, NEW bps \in Nat
  PROVE  BasisPoints(a, bps) \in Nat /\ (bps <= 10000 => BasisPoints(a, bps) <= a)
<1>1. BasisPoints(a, bps) \in Nat /\ 10000 * BasisPoints(a, bps) <= a * bps
  BY QuotientBelow DEF BasisPoints
<1>2. bps <= 10000 => a * bps <= a * 10000
  OBVIOUS
<1> QED BY <1>1, <1>2

(* The two ways the totals of a pool may move without hurting a share:     *)
(* deposits that grow by g while shares are minted that they cover, and    *)
(* shares burned for no more than their part.                              *)
Grows(before, after) ==
  \E g \in Nat, s \in Nat :
    /\ after.total_deposits = before.total_deposits + g
    /\ after.total_shares = before.total_shares + s
    /\ before.total_deposits * s <= g * before.total_shares

Shrinks(before, after) ==
  \E paid \in Nat, n \in Nat :
    /\ after.total_deposits = before.total_deposits - paid
    /\ after.total_shares = before.total_shares - n
    /\ before.total_shares * paid <= n * before.total_deposits

(* A share is worth at least as much after as before. *)
NotCheaper(before, after) ==
  after.total_deposits * before.total_shares >= before.total_deposits * after.total_shares

(* The first leaves a share worth at least what it was. *)
LEMMA GrowthKeepsPrice ==
  ASSUME NEW before \in PoolState, NEW after, Grows(before, after)
  PROVE  NotCheaper(before, after)
<1>1. PICK g \in Nat, s \in Nat :
         /\ after.total_deposits = before.total_deposits + g
         /\ after.total_shares = before.total_shares + s
         /\ before.total_deposits * s <= g * before.total_shares
  BY DEF Grows
<1> DEFINE td == before.total_deposits  ts == before.total_shares
<1>2. td \in Nat /\ ts \in Nat
  BY DEF PoolState
<1> HIDE DEF td, ts
<1>3. (td + g) * ts = td * ts + g * ts /\ td * (ts + s) = td * ts + td * s
  BY <1>2
<1>4. td * s <= g * ts => (td + g) * ts >= td * (ts + s)
  <2> DEFINE p == td * ts  q == g * ts  r == td * s
  <2>1. p \in Nat /\ q \in Nat /\ r \in Nat
    BY <1>2
  <2> HIDE DEF p, q, r
  <2>2. r <= q => p + q >= p + r
    BY <2>1
  <2> QED BY <1>3, <2>2 DEF p, q, r
<1> QED BY <1>1, <1>4 DEF NotCheaper, td, ts

(* So does the second. *)
LEMMA ShrinkingKeepsPrice ==
  ASSUME NEW before \in PoolState, NEW after, Shrinks(before, after)
  PROVE  NotCheaper(before, after)
<1>1. PICK paid \in Nat, n \in Nat :
         /\ after.total_deposits = before.total_deposits - paid
         /\ after.total_shares = before.total_shares - n
         /\ before.total_shares * paid <= n * before.total_deposits
  BY DEF Shrinks
<1> DEFINE td == before.total_deposits  ts == before.total_shares
<1>2. td \in Nat /\ ts \in Nat
  BY DEF PoolState
<1> HIDE DEF td, ts
<1>3. (td - paid) * ts = td * ts - ts * paid /\ td * (ts - n) = td * ts - n * td
  BY <1>2
<1>4. ts * paid <= n * td => (td - paid) * ts >= td * (ts - n)
  <2> DEFINE p == td * ts  q == ts * paid  r == n * td
  <2>1. p \in Nat /\ q \in Nat /\ r \in Nat
    BY <1>2
  <2> HIDE DEF p, q, r
  <2>2. q <= r => p - q >= p - r
    BY <2>1
  <2> QED BY <1>3, <2>2 DEF p, q, r
<1> QED BY <1>1, <1>4 DEF NotCheaper, td, ts

(* A pool of which one of the other fields changes, or whose deposits grow *)
(* without new shares.                                                     *)
LEMMA GrowthAlone ==
  ASSUME NEW before \in PoolState, NEW after, NEW g \in Nat,
         after.total_deposits = before.total_deposits + g,
         after.total_shares = before.total_shares
  PROVE  NotCheaper(before, after)
<1>1. /\ before.total_shares \in Nat /\ before.total_deposits \in Nat
      /\ g * before.total_shares \in Nat
  BY DEF PoolState
<1>2. before.total_deposits * 0 <= g * before.total_shares
  BY <1>1
<1>3. after.total_shares = before.total_shares + 0
  BY <1>1
<1> QED BY <1>2, <1>3, GrowthKeepsPrice DEF Grows

(* What a call keeps of the pools it does not write and of the one it does. *)
Priced == \A a \in DOMAIN pools : NotCheaper(pools[a], pools'[a])

(* A pool without shares has no deposits: nobody would own them. *)
Funded(pool) == pool.total_shares = 0 => pool.total_deposits = 0

(* A pool that has had a deposit, in what pools hold. *)
Served(a, table) == a \in DOMAIN table /\ table[a].total_shares # 0

InUse(a) == pools[a].total_shares # 0

PoolsTyped ==
  /\ IsMap(pools, Tokens, PoolState)
  /\ \A a \in DOMAIN pools : Funded(pools[a])
  /\ assets \in Seq(Tokens) /\ \A a \in DOMAIN pools : InSeq(assets, a)

(* The shares of one asset, by owner. *)
SharesIn(a) == [key \in {k \in DOMAIN shares : k[2] = a} |-> shares[key]]

(* The shares of the first deposit that nobody has. *)
Unheld(pool) == IF pool.total_shares = 0 THEN 0 ELSE MINIMUM_LIQUIDITY

(* A pool counts at least the shares in hands and those nobody has. *)
SharesCounted ==
  /\ IsMap(shares, Account \X Tokens, Nat) /\ IsFiniteSet(DOMAIN shares)
  /\ \A key \in DOMAIN shares : key[2] \in DOMAIN pools
  /\ \A a \in DOMAIN pools : Total(SharesIn(a)) + Unheld(pools[a]) <= pools[a].total_shares

LoansTyped ==
  /\ {clock, flash_fee, next_loan_id} \subseteq Nat
  /\ IsMap(loans, Account, LoanRecord)
  /\ \A b \in DOMAIN loans : Served(loans[b].asset, pools)
  /\ IsMap(loan_by_id, Nat, LoanRecord)
  /\ \A id \in DOMAIN loan_by_id : Served(loan_by_id[id].asset, pools)

StillInUse == \A a : Served(a, pools) => Served(a, pools')

Kept == Priced /\ PoolsTyped' /\ SharesCounted' /\ StillInUse

(* What a pool is. *)
LEMMA PoolFields ==
  ASSUME PoolsTyped, NEW a \in DOMAIN pools
  PROVE  /\ a \in Tokens /\ pools[a] \in PoolState
         /\ pools[a].total_deposits \in Nat /\ pools[a].total_shares \in Nat
         /\ pools[a].total_borrowed \in Nat /\ Funded(pools[a])
BY DEF PoolsTyped, IsMap, PoolState

(* The pools when one of them is written. *)
LEMMA OnePoolSet ==
  ASSUME PoolsTyped, NEW a \in DOMAIN pools, NEW pool \in PoolState, SetPool(a, pool),
         NotCheaper(pools[a], pool), Funded(pool), UNCHANGED assets
  PROVE  /\ Priced /\ PoolsTyped'
         /\ DOMAIN pools' = DOMAIN pools /\ pools'[a] = pool
         /\ \A t \in DOMAIN pools : t # a => pools'[t] = pools[t]
<1>1. /\ DOMAIN pools' = DOMAIN pools /\ pools'[a] = pool
      /\ \A t \in DOMAIN pools : t # a => pools'[t] = pools[t]
      /\ pools' = [k \in DOMAIN pools' |-> pools'[k]]
  BY DEF SetPool, Put
<1>2. \A t \in DOMAIN pools : pools[t] \in PoolState
  BY PoolFields
<1>3. ASSUME NEW t \in DOMAIN pools, t # a PROVE NotCheaper(pools[t], pools'[t])
  <2>1. pools'[t].total_deposits = pools[t].total_deposits + 0
    BY <1>1, <1>3, PoolFields
  <2>2. pools'[t].total_shares = pools[t].total_shares
    BY <1>1, <1>3
  <2> QED BY <1>2, <2>1, <2>2, GrowthAlone
<1>4. PoolsTyped'
  BY <1>1, <1>2 DEF PoolsTyped, IsMap
<1> QED BY <1>1, <1>3, <1>4 DEF Priced

(* A pool is written whose shares stay and whose deposits do not fall.     *)
LEMMA RestatedKeeps ==
  ASSUME PoolsTyped, SharesCounted, NEW a \in DOMAIN pools, NEW pool \in PoolState,
         SetPool(a, pool), pool.total_shares = pools[a].total_shares,
         pool.total_deposits >= pools[a].total_deposits, Funded(pool),
         UNCHANGED <<assets, shares>>
  PROVE  Kept
<1> DEFINE g == pool.total_deposits - pools[a].total_deposits
<1>1. pools[a].total_deposits \in Nat /\ pool.total_deposits \in Nat
  BY PoolFields DEF PoolState
<1>2. g \in Nat /\ pool.total_deposits = pools[a].total_deposits + g
  BY <1>1
<1>3. NotCheaper(pools[a], pool)
  BY <1>2, PoolFields, GrowthAlone
<1>4. /\ Priced /\ PoolsTyped' /\ DOMAIN pools' = DOMAIN pools
      /\ \A t \in DOMAIN pools : pools'[t].total_shares = pools[t].total_shares
  BY <1>3, OnePoolSet
<1>5. \A t : SharesIn(t)' = SharesIn(t)
  BY DEF SharesIn
<1>6. SharesCounted'
  BY <1>4, <1>5 DEF SharesCounted, Unheld
<1> QED BY <1>4, <1>6 DEF Kept, StillInUse, Served, InUse

(* No pool is written. *)
LEMMA StillKeeps ==
  ASSUME PoolsTyped, SharesCounted, UNCHANGED <<pools, assets, shares>>
  PROVE  Kept
<1>1. ASSUME NEW a \in DOMAIN pools PROVE NotCheaper(pools[a], pools'[a])
  <2>1. pools'[a].total_deposits = pools[a].total_deposits + 0
    BY <1>1, PoolFields
  <2> QED BY <1>1, <2>1, PoolFields, GrowthAlone
<1>2. PoolsTyped'
  BY DEF PoolsTyped
<1>3. SharesCounted'
  BY DEF SharesCounted, SharesIn
<1> QED BY <1>1, <1>2, <1>3 DEF Kept, Priced, StillInUse, Served, InUse

(* The shares of one account in one asset. *)
LEMMA SharesTable ==
  ASSUME SharesCounted, NEW a
  PROVE  /\ IntMap(SharesIn(a)) /\ IsFiniteSet(DOMAIN SharesIn(a))
         /\ \A key \in DOMAIN SharesIn(a) : SharesIn(a)[key] \in Nat
         /\ \A u : SharesOf(u, a) = Stored(SharesIn(a), <<u, a>>, 0) /\ SharesOf(u, a) \in Nat
<1>1. /\ DOMAIN SharesIn(a) = {k \in DOMAIN shares : k[2] = a}
      /\ \A key \in DOMAIN SharesIn(a) : SharesIn(a)[key] = shares[key]
  BY DEF SharesIn
<1>2. \A key \in DOMAIN shares : shares[key] \in Nat
  BY DEF SharesCounted, IsMap
<1>3. IsFiniteSet(DOMAIN SharesIn(a))
  BY <1>1, FS_Subset DEF SharesCounted
<1>4. ASSUME NEW u
      PROVE  SharesOf(u, a) = Stored(SharesIn(a), <<u, a>>, 0) /\ SharesOf(u, a) \in Nat
  <2>1. <<u, a>> \in DOMAIN shares <=> <<u, a>> \in DOMAIN SharesIn(a)
    BY <1>1
  <2> QED BY <1>1, <1>2, <2>1 DEF SharesOf, Stored
<1> QED BY <1>1, <1>2, <1>3, <1>4 DEF IntMap

(* An account gets or gives shares, and the pool counts at least as many.  *)
LEMMA MovedShares ==
  ASSUME PoolsTyped, SharesCounted, NEW a \in DOMAIN pools, NEW pool \in PoolState,
         NEW u \in Account, NEW n \in Nat,
         SetPool(a, pool), NotCheaper(pools[a], pool), Funded(pool),
         shares' = Put(shares, <<u, a>>, n),
         n - SharesOf(u, a) + Unheld(pool) - Unheld(pools[a])
           <= pool.total_shares - pools[a].total_shares,
         InUse(a) => pool.total_shares # 0, UNCHANGED assets
  PROVE  Kept
<1>1. /\ Priced /\ PoolsTyped' /\ DOMAIN pools' = DOMAIN pools /\ pools'[a] = pool
      /\ \A t \in DOMAIN pools : t # a => pools'[t] = pools[t]
  BY OnePoolSet
<1> DEFINE key == <<u, a>>
<1>2. a \in Tokens /\ key \in Account \X Tokens
  BY PoolFields
<1>3. /\ DOMAIN shares' = DOMAIN shares \cup {key} /\ shares'[key] = n
      /\ \A k \in DOMAIN shares : k # key => shares'[k] = shares[k]
      /\ shares' = [k \in DOMAIN shares' |-> shares'[k]]
  BY DEF Put
<1>4. IsMap(shares', Account \X Tokens, Nat)
  BY <1>2, <1>3 DEF SharesCounted, IsMap
<1>5. IsFiniteSet(DOMAIN shares')
  BY <1>3, FS_AddElement DEF SharesCounted
<1>6. \A k \in DOMAIN shares' : k[2] \in DOMAIN pools'
  BY <1>1, <1>3 DEF SharesCounted
<1>7. ASSUME NEW t \in DOMAIN pools, t # a
      PROVE  Total(SharesIn(t)') + Unheld(pools'[t]) <= pools'[t].total_shares
  <2>1. {k \in DOMAIN shares' : k[2] = t} = {k \in DOMAIN shares : k[2] = t}
    BY <1>3, <1>7
  <2>2. \A k \in {j \in DOMAIN shares : j[2] = t} : shares'[k] = shares[k]
    BY <1>3, <1>7
  <2>3. SharesIn(t)' = SharesIn(t)
    BY <2>1, <2>2 DEF SharesIn
  <2> QED BY <1>1, <1>7, <2>3 DEF SharesCounted
<1>8. Total(SharesIn(a)') + Unheld(pool) <= pool.total_shares
  <2> DEFINE e == SharesIn(a)'
  <2>1. /\ DOMAIN e = {k \in DOMAIN shares' : k[2] = a}
        /\ \A k \in DOMAIN e : e[k] = shares'[k]
    BY DEF SharesIn
  <2>2. /\ DOMAIN SharesIn(a) = {k \in DOMAIN shares : k[2] = a}
        /\ \A k \in DOMAIN SharesIn(a) : SharesIn(a)[k] = shares[k]
    BY DEF SharesIn
  <2>3. IntMap(e)
    <3>1. IsFiniteSet(DOMAIN e)
      BY <1>5, <2>1, FS_Subset
    <3>2. \A k \in DOMAIN e : e[k] \in Int
      BY <1>4, <2>1 DEF IsMap
    <3> QED BY <3>1, <3>2 DEF IntMap
  <2>4. key \in DOMAIN e /\ e[key] = n
    BY <1>3, <2>1
  <2>5. /\ DOMAIN SharesIn(a) \ {key} = DOMAIN e \ {key}
        /\ \A k \in DOMAIN SharesIn(a) \ {key} : e[k] = SharesIn(a)[k]
    BY <1>3, <2>1, <2>2
  <2> HIDE DEF e
  <2>6. /\ Total(SharesIn(a)) \in Int /\ Total(e) \in Int
        /\ Total(e) - Stored(e, key, 0) = Total(SharesIn(a)) - Stored(SharesIn(a), key, 0)
    BY <2>3, <2>5, SharesTable, TotalChanges
  <2>7. Total(e) - n = Total(SharesIn(a)) - SharesOf(u, a) /\ SharesOf(u, a) \in Nat
    BY <2>4, <2>6, SharesTable DEF Stored
  <2>8. Total(SharesIn(a)) + Unheld(pools[a]) <= pools[a].total_shares
    BY DEF SharesCounted
  <2>9. pools[a].total_shares \in Nat /\ pool.total_shares \in Nat
    BY PoolFields DEF PoolState
  <2>10. Unheld(pools[a]) \in Nat /\ Unheld(pool) \in Nat
    BY DEF Unheld, MINIMUM_LIQUIDITY
  <2> QED BY <2>6, <2>7, <2>8, <2>9, <2>10 DEF e
<1>9. SharesCounted'
  BY <1>1, <1>4, <1>5, <1>6, <1>7, <1>8 DEF SharesCounted
<1> QED BY <1>1, <1>9 DEF Kept, StillInUse, Served, InUse

(* Nobody holds more than there is. *)
LEMMA HeldIsCounted ==
  ASSUME PoolsTyped, SharesCounted, NEW a \in DOMAIN pools, NEW u
  PROVE  SharesOf(u, a) \in Nat /\ SharesOf(u, a) + Unheld(pools[a]) <= pools[a].total_shares
<1>1. Total(SharesIn(a)) \in Nat
  BY SharesTable, TotalOfNats
<1>2. Stored(SharesIn(a), <<u, a>>, 0) <= Total(SharesIn(a))
  BY <1>1, SharesTable, TotalOfNats DEF Stored
<1>3. /\ Total(SharesIn(a)) + Unheld(pools[a]) <= pools[a].total_shares
      /\ pools[a].total_shares \in Nat /\ Unheld(pools[a]) \in Nat
  BY PoolFields DEF SharesCounted, Unheld, MINIMUM_LIQUIDITY
<1>4. SharesOf(u, a) = Stored(SharesIn(a), <<u, a>>, 0) /\ SharesOf(u, a) \in Nat
  BY SharesTable
<1> QED BY <1>1, <1>2, <1>3, <1>4

(* A pool with other totals is a pool. *)
WithTotals(pool, d, s) == [pool EXCEPT !.total_deposits = d, !.total_shares = s]

(* It has those totals. *)
LEMMA TotalsSet ==
  ASSUME NEW pool \in PoolState, NEW d \in Nat, NEW s \in Nat
  PROVE  /\ WithTotals(pool, d, s) \in PoolState
         /\ WithTotals(pool, d, s).total_deposits = d
         /\ WithTotals(pool, d, s).total_shares = s
<1> DEFINE next == WithTotals(pool, d, s)
           part == [pool EXCEPT !.total_deposits = d]
<1>1. part \in PoolState
  BY DEF PoolState
<1>2. next = [part EXCEPT !.total_shares = s]
  BY DEF WithTotals
<1>3. next \in PoolState
  <2> HIDE DEF part, next
  <2> QED BY <1>1, <1>2 DEF PoolState
<1> QED BY <1>3 DEF PoolState, WithTotals

(* What a deposit and a withdrawal make of a pool. *)
MintedFor(pool, amount) == SharesForDeposit(pool, amount) - LockedShares(pool)

AfterDeposit(pool, amount) ==
  WithTotals(pool, pool.total_deposits + amount,
             pool.total_shares + LockedShares(pool) + MintedFor(pool, amount))

AfterWithdrawal(pool, n) ==
  WithTotals(pool, pool.total_deposits - AssetsForShares(pool, n), pool.total_shares - n)

(* When they are made. *)
MayDeposit(pool, amount) ==
  Funded(pool) /\ amount \in Nat \ {0} /\ MintedFor(pool, amount) > 0

MayWithdraw(pool, n) ==
  /\ n \in Nat \ {0} /\ n + Unheld(pool) <= pool.total_shares
  /\ AssetsForShares(pool, n) <= AvailableLiquidity(pool)

(* A deposit mints no more than it covers. *)
LEMMA DepositTotals ==
  ASSUME NEW pool \in PoolState, NEW amount, MayDeposit(pool, amount),
         NEW minted, minted = MintedFor(pool, amount),
         NEW next, next = AfterDeposit(pool, amount)
  PROVE  /\ minted \in Nat /\ next \in PoolState /\ Funded(next) /\ NotCheaper(pool, next)
         /\ next.total_shares # 0
         /\ next.total_shares - pool.total_shares = minted + Unheld(next) - Unheld(pool)
<1> DEFINE td == pool.total_deposits
           ts == pool.total_shares
           s == SharesForDeposit(pool, amount)
           locked == LockedShares(pool)
<1>1. /\ td \in Nat /\ ts \in Nat /\ (ts = 0 => td = 0)
      /\ amount \in Nat \ {0} /\ minted > 0
  BY DEF PoolState, Funded, MayDeposit
<1>2. /\ locked \in Nat /\ (ts = 0 => locked = MINIMUM_LIQUIDITY)
      /\ (ts # 0 => locked = 0) /\ MINIMUM_LIQUIDITY \in Nat
  BY DEF LockedShares, MINIMUM_LIQUIDITY
<1>3. s \in Nat /\ td * s <= amount * ts
  <2>1. CASE td = 0
    <3>1. s = amount
      BY <2>1 DEF SharesForDeposit
    <3>2. td * s = 0 /\ amount * ts \in Nat
      BY <1>1, <2>1, <3>1
    <3> QED BY <1>1, <3>1, <3>2
  <2>2. CASE td # 0
    <3>1. s = (amount * ts) \div td /\ td \in Nat \ {0}
      BY <1>1, <2>2 DEF SharesForDeposit
    <3>2. (amount * ts) \div td \in Nat /\ td * ((amount * ts) \div td) <= amount * ts
      BY <1>1, <3>1, QuotientBelow
    <3> QED BY <3>1, <3>2
  <2> QED BY <2>1, <2>2
<1>4. next = WithTotals(pool, td + amount, ts + locked + minted) /\ minted = s - locked
  BY DEF AfterDeposit, MintedFor
<1> HIDE DEF td, ts, s, locked
<1>5. minted \in Nat /\ ts + locked + minted = ts + s /\ s # 0
  BY <1>1, <1>2, <1>3, <1>4
<1>6. /\ next \in PoolState
      /\ next.total_deposits = td + amount /\ next.total_shares = ts + s
  <2>1. td + amount \in Nat /\ ts + s \in Nat
    BY <1>1, <1>3
  <2>2. next = WithTotals(pool, td + amount, ts + s)
    BY <1>4, <1>5
  <2> DEFINE d == td + amount
             n == ts + s
  <2>3. d \in Nat /\ n \in Nat /\ next = WithTotals(pool, d, n)
    BY <2>1, <2>2
  <2> HIDE DEF d, n
  <2>4. next \in PoolState /\ next.total_deposits = d /\ next.total_shares = n
    BY <2>3, TotalsSet
  <2> QED BY <2>4 DEF d, n
<1>7. NotCheaper(pool, next)
  <2>1. Grows(pool, next)
    BY <1>1, <1>3, <1>6 DEF Grows, td, ts
  <2> QED BY <2>1, GrowthKeepsPrice
<1>8. Funded(next) /\ next.total_shares # 0
  BY <1>1, <1>3, <1>5, <1>6 DEF Funded
<1>9. Unheld(next) = MINIMUM_LIQUIDITY /\ MINIMUM_LIQUIDITY - Unheld(pool) = locked
      /\ Unheld(pool) \in Nat
  BY <1>2, <1>8 DEF Unheld, MINIMUM_LIQUIDITY, ts
<1>10. next.total_shares - ts = minted + Unheld(next) - Unheld(pool)
  BY <1>1, <1>2, <1>3, <1>5, <1>6, <1>9
<1> QED BY <1>5, <1>6, <1>7, <1>8, <1>10 DEF ts

(* A deposit does not make the other shares cheaper.                       *)
LEMMA DepositKeeps ==
  ASSUME PoolsTyped, SharesCounted, NEW u \in Account, NEW a, NEW amount \in Nat,
         PoolDeposit(u, a, amount)
  PROVE  Kept
<1> DEFINE pool == pools[a]
           minted == MintedFor(pool, amount)
           next == AfterDeposit(pool, amount)
           held == SharesOf(u, a) + minted
<1>1. /\ a \in DOMAIN pools /\ pool \in PoolState
      /\ Funded(pool) /\ pool.total_shares \in Nat
  BY PoolFields DEF PoolDeposit, Running, Supported
<1>2. /\ MayDeposit(pool, amount) /\ SetPool(a, next) /\ UNCHANGED assets
      /\ shares' = Put(shares, <<u, a>>, held)
  BY <1>1 DEF PoolDeposit, lendingAdminVars, MayDeposit, AfterDeposit, MintedFor, WithTotals
<1>3. /\ minted \in Nat /\ next \in PoolState /\ Funded(next) /\ NotCheaper(pool, next)
      /\ next.total_shares # 0
      /\ next.total_shares - pool.total_shares = minted + Unheld(next) - Unheld(pool)
  BY <1>1, <1>2, DepositTotals
<1>4. SharesOf(u, a) \in Nat /\ Unheld(next) \in Nat /\ Unheld(pool) \in Nat
  BY <1>1, HeldIsCounted DEF Unheld, MINIMUM_LIQUIDITY
<1>5. held \in Nat /\ held - SharesOf(u, a) = minted
  <2> HIDE DEF minted
  <2> QED BY <1>3, <1>4
<1> HIDE DEF next, held, minted
<1>6. held - SharesOf(u, a) + Unheld(next) - Unheld(pool) <= next.total_shares - pool.total_shares
  <2> HIDE DEF pool
  <2>1. next.total_shares \in Nat
    BY <1>3 DEF PoolState
  <2> QED BY <1>1, <1>3, <1>4, <1>5, <2>1
<1> QED BY <1>1, <1>2, <1>3, <1>5, <1>6, MovedShares

(* A withdrawal takes no more than the part of its shares.                 *)
LEMMA WithdrawalTotals ==
  ASSUME NEW pool \in PoolState, NEW n, MayWithdraw(pool, n),
         NEW next, next = AfterWithdrawal(pool, n)
  PROVE  /\ next \in PoolState /\ Funded(next) /\ NotCheaper(pool, next)
         /\ next.total_shares # 0
         /\ next.total_shares = pool.total_shares - n /\ Unheld(next) = Unheld(pool)
<1> DEFINE td == pool.total_deposits
           ts == pool.total_shares
           paid == AssetsForShares(pool, n)
<1>1. /\ td \in Nat /\ ts \in Nat /\ pool.total_borrowed \in Nat
      /\ n \in Nat \ {0} /\ paid <= AvailableLiquidity(pool)
  BY DEF PoolState, MayWithdraw
<1>2. next = WithTotals(pool, td - paid, ts - n) /\ n + Unheld(pool) <= ts
  BY DEF AfterWithdrawal, MayWithdraw
<1>3. ts # 0 /\ ts - n \in Nat \ {0}
  BY <1>1, <1>2 DEF Unheld, MINIMUM_LIQUIDITY
<1>4. paid \in Nat /\ ts * paid <= n * td
  <2>1. paid = (n * td) \div ts
    BY <1>3 DEF AssetsForShares
  <2>2. (n * td) \div ts \in Nat /\ ts * ((n * td) \div ts) <= n * td
    BY <1>1, <1>3, QuotientBelow
  <2> QED BY <2>1, <2>2
<1>5. td - paid \in Nat
  BY <1>1, <1>4 DEF AvailableLiquidity, SaturatingSub
<1> HIDE DEF td, ts, paid
<1>6. /\ next \in PoolState
      /\ next.total_deposits = td - paid /\ next.total_shares = ts - n
  <2> DEFINE d == td - paid
             m == ts - n
  <2>1. d \in Nat /\ m \in Nat /\ next = WithTotals(pool, d, m)
    BY <1>2, <1>3, <1>5
  <2> HIDE DEF d, m
  <2>2. next \in PoolState /\ next.total_deposits = d /\ next.total_shares = m
    BY <2>1, TotalsSet
  <2> QED BY <2>2 DEF d, m
<1>7. NotCheaper(pool, next)
  <2>1. Shrinks(pool, next)
    BY <1>1, <1>4, <1>6 DEF Shrinks, td, ts
  <2> QED BY <2>1, ShrinkingKeepsPrice
<1>8. Funded(next) /\ next.total_shares # 0 /\ Unheld(next) = Unheld(pool)
  BY <1>3, <1>6 DEF Funded, Unheld, ts
<1> QED BY <1>6, <1>7, <1>8 DEF ts

(* Nor does a withdrawal, and the locked shares stay behind.               *)
LEMMA WithdrawalKeeps ==
  ASSUME PoolsTyped, SharesCounted, NEW u \in Account, NEW a, NEW n \in Nat,
         PoolWithdraw(u, a, n)
  PROVE  Kept
<1> DEFINE pool == pools[a]
           paid == AssetsForShares(pool, n)
           next == AfterWithdrawal(pool, n)
           held == SharesOf(u, a) - n
<1>1. a \in DOMAIN pools /\ pool \in PoolState /\ pool.total_shares \in Nat
  BY PoolFields DEF PoolWithdraw, Running, Supported
<1>2. /\ n \in Nat \ {0} /\ n <= SharesOf(u, a) /\ SetPool(a, next) /\ UNCHANGED assets
      /\ paid <= AvailableLiquidity(pool)
      /\ shares' = Put(shares, <<u, a>>, held)
  BY DEF PoolWithdraw, lendingAdminVars, AfterWithdrawal, WithTotals
<1>3. SharesOf(u, a) \in Nat /\ SharesOf(u, a) + Unheld(pool) <= pool.total_shares
  BY <1>1, HeldIsCounted
<1>4. Unheld(pool) \in Nat
  BY DEF Unheld, MINIMUM_LIQUIDITY
<1>5. n + Unheld(pool) <= pool.total_shares /\ held \in Nat /\ held - SharesOf(u, a) = -n
  <2> HIDE DEF pool
  <2> QED BY <1>1, <1>2, <1>3, <1>4
<1>8. MayWithdraw(pool, n)
  BY <1>2, <1>5 DEF MayWithdraw
<1>6. /\ next \in PoolState /\ Funded(next) /\ NotCheaper(pool, next)
      /\ next.total_shares # 0
      /\ next.total_shares = pool.total_shares - n /\ Unheld(next) = Unheld(pool)
  BY <1>1, <1>8, WithdrawalTotals
<1> HIDE DEF next, held
<1>7. held - SharesOf(u, a) + Unheld(next) - Unheld(pool) <= next.total_shares - pool.total_shares
  <2> HIDE DEF pool
  <2> QED BY <1>1, <1>3, <1>4, <1>5, <1>6
<1> QED BY <1>1, <1>2, <1>5, <1>6, <1>7, MovedShares

-----------------------------------------------------------------------------
(* Lending: amounts and loans. *)

(* Edits of a pool that leave its shares alone. *)
WithDebt(pool, b, d, y, r) ==
  [pool EXCEPT !.total_borrowed = b, !.total_deposits = d, !.retained_yield = y,
               !.bad_debt_reserve = r]

(* Four amounts. *)
Amounts(b, d, y, r) == b \in Nat /\ d \in Nat /\ y \in Nat /\ r \in Nat

(* Such an edit makes a pool. *)
LEMMA DebtSet ==
  ASSUME NEW pool \in PoolState, NEW b, NEW d, NEW y, NEW r, Amounts(b, d, y, r)
  PROVE  /\ WithDebt(pool, b, d, y, r) \in PoolState
         /\ WithDebt(pool, b, d, y, r).total_borrowed = b
         /\ WithDebt(pool, b, d, y, r).total_deposits = d
         /\ WithDebt(pool, b, d, y, r).total_shares = pool.total_shares
<1> DEFINE p1 == [pool EXCEPT !.total_borrowed = b]
           p2 == [p1 EXCEPT !.total_deposits = d]
           p3 == [p2 EXCEPT !.retained_yield = y]
           p4 == [p3 EXCEPT !.bad_debt_reserve = r]
<1>0. b \in Nat /\ d \in Nat /\ y \in Nat /\ r \in Nat
  BY DEF Amounts
<1>1. WithDebt(pool, b, d, y, r) = p4
  BY DEF WithDebt
<1>2. p1 \in PoolState /\ p1.total_borrowed = b /\ p1.total_shares = pool.total_shares
  BY <1>0 DEF PoolState
<1> HIDE DEF p1
<1>3. /\ p2 \in PoolState /\ p2.total_borrowed = p1.total_borrowed
      /\ p2.total_deposits = d /\ p2.total_shares = p1.total_shares
  BY <1>0, <1>2 DEF PoolState
<1> HIDE DEF p2
<1>4. /\ p3 \in PoolState /\ p3.total_borrowed = p2.total_borrowed
      /\ p3.total_deposits = p2.total_deposits
      /\ p3.total_shares = p2.total_shares
  BY <1>0, <1>3 DEF PoolState
<1> HIDE DEF p3
<1>5. /\ p4 \in PoolState /\ p4.total_borrowed = p3.total_borrowed
      /\ p4.total_deposits = p3.total_deposits
      /\ p4.total_shares = p3.total_shares
  BY <1>0, <1>4 DEF PoolState
<1> HIDE DEF p4
<1> QED BY <1>1, <1>2, <1>3, <1>4, <1>5

(* What a loan has cost by now. *)
LEMMA LoanAmounts ==
  ASSUME clock \in Nat, NEW loan \in LoanRecord
  PROVE  /\ loan.principal \in Nat /\ OutstandingBalance(loan) \in Nat
         /\ OutstandingBalance(loan) - loan.principal \in Nat
<1> DEFINE days == SaturatingSub(clock, loan.borrow_time)
           product == loan.principal * loan.interest_rate_bps * days
<1>1. /\ loan.principal \in Nat /\ loan.interest_rate_bps \in Nat
      /\ loan.borrow_time \in Nat
  BY DEF LoanRecord
<1>2. days \in Nat
  BY <1>1 DEF SaturatingSub
<1> HIDE DEF days
<1>3. product \in Nat
  BY <1>1, <1>2
<1>4. 10000 * DAYS_IN_YEAR \in Nat \ {0}
  BY DEF DAYS_IN_YEAR
<1> HIDE DEF product
<1>5. product \div (10000 * DAYS_IN_YEAR) \in Nat
  BY <1>3, <1>4
<1>6. OutstandingBalance(loan) = loan.principal + product \div (10000 * DAYS_IN_YEAR)
  BY DEF OutstandingBalance, CalculateInterest, days, product
<1> QED BY <1>1, <1>5, <1>6

(* The late fee is an amount. *)
LEMMA LateFeeTyped ==
  ASSUME clock \in Nat, PoolsTyped, NEW loan \in LoanRecord, loan.asset \in DOMAIN pools
  PROVE  CalculateLateFee(loan) \in Nat
<1>1. /\ loan.principal \in Nat /\ loan.due_date \in Nat
      /\ pools[loan.asset].late_fee_rate_bps \in Nat /\ pools[loan.asset].grace_period \in Nat
  BY PoolFields DEF LoanRecord, PoolState
<1>2. BasisPoints(loan.principal, pools[loan.asset].late_fee_rate_bps) \in Nat
  <2> DEFINE owed == loan.principal
             bps == pools[loan.asset].late_fee_rate_bps
  <2>1. owed \in Nat /\ bps \in Nat
    BY <1>1
  <2> HIDE DEF owed, bps
  <2>2. BasisPoints(owed, bps) \in Nat
    BY <2>1, PointsBelow
  <2> QED BY <2>2 DEF owed, bps
<1>3. SaturatingSub(clock, GraceEnd(loan)) \in Nat
  BY <1>1 DEF GraceEnd, SaturatingSub
<1> QED BY <1>2, <1>3 DEF CalculateLateFee

(* So is the rate of a pool. *)
LEMMA RateTyped ==
  ASSUME NEW pool \in PoolState
  PROVE  CurrentRate(pool) \in Nat
<1> DEFINE use == Utilization(pool.total_borrowed, pool.total_deposits)
<1>1. pool.total_borrowed \in Nat /\ pool.total_deposits \in Nat
  BY DEF PoolState
<1>2. use \in Nat
  <2>1. CASE pool.total_deposits = 0
    BY <2>1 DEF Utilization
  <2>2. CASE pool.total_deposits # 0
    <3>1. pool.total_deposits \in Nat \ {0}
      BY <1>1, <2>2
    <3>2. \A x, d : x \in Nat /\ d \in Nat \ {0} => x \div d \in Nat
      OBVIOUS
    <3>3. (pool.total_borrowed * 10000) \div pool.total_deposits \in Nat
      BY <1>1, <3>1, <3>2
    <3> QED BY <2>2, <3>3 DEF Utilization
  <2> QED BY <2>1, <2>2
<1> HIDE DEF use
<1>3. RateAtZero \in Nat /\ RateMultiplier \in Nat
  BY LendingAssumption
<1>4. (use * RateMultiplier) \div 10000 \in Nat
  BY <1>2, <1>3, QuotientBelow
<1>5. CurrentRate(pool) = RateAtZero + (use * RateMultiplier) \div 10000
  BY DEF CurrentRate, DynamicRate, use
<1> QED BY <1>3, <1>4, <1>5

(* Calls that leave the loans alone. *)
LEMMA LoansStill ==
  ASSUME LoansTyped, UNCHANGED <<loans, loan_by_id, next_loan_id>>, StillInUse,
         clock' \in Nat, flash_fee' \in Nat
  PROVE  LoansTyped'
<1>1. next_loan_id' \in Nat
  BY DEF LoansTyped
<1>2. \A b \in DOMAIN loans : Served(loans[b].asset, pools')
  BY DEF LoansTyped, StillInUse
<1>3. \A id \in DOMAIN loan_by_id : Served(loan_by_id[id].asset, pools')
  BY DEF LoansTyped, StillInUse
<1> QED BY <1>1, <1>2, <1>3 DEF LoansTyped

(* New loans take the place of closed ones. *)
LEMMA LoansReplaced ==
  ASSUME LoansTyped, StillInUse, UNCHANGED <<clock, flash_fee>>,
         NEW borrower \in Account, NEW closed, NEW made, NEW n \in Nat \ {0},
         DOMAIN made = 1..n, Len(made) = n,
         \A i \in 1..n :
           /\ made[i] \in LoanRecord /\ made[i].loan_id = next_loan_id + i - 1
           /\ Served(made[i].asset, pools'),
         Opened(borrower, made), Replace(borrower, closed, made)
  PROVE  LoansTyped'
<1>1. next_loan_id \in Nat /\ clock \in Nat /\ flash_fee \in Nat
  BY DEF LoansTyped
<1>2. next_loan_id' \in Nat
  BY <1>1 DEF Opened
<1>3. IsMap(loans', Account, LoanRecord)
  <2>1. loans' = Put(loans, borrower, made[n]) /\ made[n] \in LoanRecord
    BY DEF Opened
  <2> QED BY <2>1 DEF Put, LoansTyped, IsMap
<1>4. \A b \in DOMAIN loans' : Served(loans'[b].asset, pools')
  <2>1. loans' = Put(loans, borrower, made[n]) /\ n \in 1..n
    BY DEF Opened
  <2> QED BY <2>1 DEF Put, LoansTyped, StillInUse
<1>5. ASSUME NEW id \in DOMAIN ById(made)
      PROVE  /\ id \in Nat /\ ById(made)[id] \in LoanRecord
             /\ Served(ById(made)[id].asset, pools')
  <2>1. PICK i \in 1..n : id = made[i].loan_id
    BY <1>5 DEF ById
  <2>2. id = next_loan_id + i - 1 /\ id - next_loan_id + 1 = i /\ id \in Nat
    BY <1>1, <2>1
  <2>3. ById(made)[id] = made[i]
    BY <1>5, <2>2 DEF ById
  <2> QED BY <2>2, <2>3
<1>6. /\ DOMAIN loan_by_id' = (DOMAIN loan_by_id \ closed) \cup DOMAIN ById(made)
      /\ \A id \in DOMAIN loan_by_id' :
           loan_by_id'[id] = IF id \in DOMAIN ById(made) THEN ById(made)[id] ELSE loan_by_id[id]
      /\ loan_by_id' = [id \in DOMAIN loan_by_id' |-> loan_by_id'[id]]
  BY DEF Replace
<1>7. IsMap(loan_by_id', Nat, LoanRecord)
  BY <1>5, <1>6 DEF LoansTyped, IsMap
<1>8. \A id \in DOMAIN loan_by_id' : Served(loan_by_id'[id].asset, pools')
  BY <1>5, <1>6 DEF LoansTyped, StillInUse
<1> QED BY <1>1, <1>2, <1>3, <1>4, <1>7, <1>8 DEF LoansTyped

-----------------------------------------------------------------------------
(* Lending: the calls. *)

PoolsSound == PoolsTyped /\ SharesCounted /\ LoansTyped

StepKeeps == Priced /\ PoolsSound'

(* What depositors do.                                                     *)
LEMMA SharesStep ==
  ASSUME PoolsSound, ShareNext, UNCHANGED clock
  PROVE  StepKeeps
<1>1. PICK a \in Tokens, u \in Account :
        \/ \E amount \in PoolAmount : PoolDeposit(u, a, amount)
        \/ \E n \in ShareAmount : PoolWithdraw(u, a, n)
  BY DEF ShareNext
<1>2. PoolAmount \subseteq Nat /\ ShareAmount \subseteq Nat
  BY LendingArguments
<1>3. Kept
  BY <1>1, <1>2, DepositKeeps, WithdrawalKeeps DEF PoolsSound
<1>4. UNCHANGED <<loans, loan_by_id, next_loan_id, flash_fee>>
  BY <1>1 DEF PoolDeposit, PoolWithdraw, loanVars, lendingAdminVars
<1>5. LoansTyped'
  BY <1>3, <1>4, LoansStill DEF PoolsSound, Kept, LoansTyped
<1> QED BY <1>3, <1>5 DEF Kept, PoolsSound, StepKeeps

(* An edit of a pool that keeps its shares and takes no deposits.          *)
LEMMA EditKept ==
  ASSUME PoolsTyped, SharesCounted, UNCHANGED <<assets, shares>>,
         NEW a \in DOMAIN pools, NEW pool \in PoolState, SetPool(a, pool),
         pool.total_shares = pools[a].total_shares,
         \/ pool.total_deposits = pools[a].total_deposits
         \/ pool.total_deposits >= pools[a].total_deposits /\ Served(a, pools)
  PROVE  Kept
<1>1. /\ Funded(pools[a]) /\ pools[a].total_deposits \in Nat
  BY PoolFields
<1>2. Funded(pool) /\ pool.total_deposits >= pools[a].total_deposits
  BY <1>1 DEF Funded, Served
<1> QED BY <1>2, RestatedKeeps

(* Such an edit beside the loans. *)
LEMMA EditKeeps ==
  ASSUME PoolsSound, UNCHANGED <<clock, loans, loan_by_id, next_loan_id, assets, shares>>,
         flash_fee' \in Nat, NEW a \in DOMAIN pools, NEW pool \in PoolState, SetPool(a, pool),
         pool.total_shares = pools[a].total_shares,
         \/ pool.total_deposits = pools[a].total_deposits
         \/ pool.total_deposits >= pools[a].total_deposits /\ Served(a, pools)
  PROVE  StepKeeps
<1>1. Kept
  BY EditKept DEF PoolsSound
<1>2. LoansTyped'
  BY <1>1, LoansStill DEF PoolsSound, Kept, LoansTyped
<1> QED BY <1>1, <1>2 DEF Kept, PoolsSound, StepKeeps

(* A call that writes neither pools nor loans.                             *)
LEMMA OtherKeeps ==
  ASSUME PoolsSound, clock' \in Nat, flash_fee' \in Nat,
         UNCHANGED <<loans, loan_by_id, next_loan_id, pools, assets, shares>>
  PROVE  StepKeeps
<1>1. Kept
  BY StillKeeps DEF PoolsSound
<1>2. LoansTyped'
  BY <1>1, LoansStill DEF PoolsSound, Kept
<1> QED BY <1>1, <1>2 DEF Kept, PoolsSound, StepKeeps

(* What is not lent is there only when there are deposits. *)
LEMMA LiquidPool ==
  ASSUME PoolsTyped, NEW a \in DOMAIN pools, NEW amount \in Nat \ {0},
         amount <= AvailableLiquidity(pools[a])
  PROVE  pools[a].total_deposits # 0 /\ Served(a, pools)
<1> DEFINE td == pools[a].total_deposits
           tb == pools[a].total_borrowed
<1>1. td \in Nat /\ tb \in Nat /\ Funded(pools[a])
  BY PoolFields
<1>2. amount <= SaturatingSub(td, tb)
  BY DEF AvailableLiquidity
<1>3. td # 0
  <2> HIDE DEF td, tb
  <2> QED BY <1>1, <1>2 DEF SaturatingSub
<1> QED BY <1>1, <1>3 DEF Funded, Served

(* What is taken from yield and reserves, and lent for one call.           *)
LEMMA YieldStep ==
  ASSUME PoolsSound, YieldNext, UNCHANGED clock
  PROVE  StepKeeps
<1>1. PICK a \in Tokens, u \in Account :
        \/ \E amount \in PriorityAmount : WithdrawPriority(u, a, amount)
        \/ \E amount \in ReserveAmount, to \in Account : PayReserves(u, a, amount, to)
        \/ \E amount \in FlashAmount, returned \in FlashReturn :
             FlashLoan(u, a, amount, returned)
  BY DEF YieldNext
<1>2. PriorityAmount \cup ReserveAmount \cup FlashAmount \subseteq Nat
  BY LendingArguments
<1>3. flash_fee \in Nat
  BY DEF PoolsSound, LoansTyped
<1>4. ASSUME a \in DOMAIN pools
      PROVE  pools[a] \in PoolState /\ \A f \in {"retained_yield", "bad_debt_reserve",
               "total_deposits", "total_shares"} : pools[a][f] \in Nat
  BY <1>4, PoolFields DEF PoolsSound, PoolState
<1>5. ASSUME NEW amount \in PriorityAmount, WithdrawPriority(u, a, amount) PROVE StepKeeps
  <2> DEFINE v == pools[a].retained_yield - amount
             pool == [pools[a] EXCEPT !.retained_yield = v]
  <2>1. /\ a \in DOMAIN pools /\ amount <= pools[a].retained_yield /\ SetPool(a, pool)
        /\ UNCHANGED <<lendingAdminVars, loanVars, shares>>
    BY <1>5 DEF WithdrawPriority, Supported
  <2>2. v \in Nat
    BY <1>2, <1>4, <2>1
  <2>3. /\ pool \in PoolState
        /\ pool.total_shares = pools[a].total_shares
        /\ pool.total_deposits = pools[a].total_deposits
    <3>1. pools[a] \in PoolState
      BY <1>4, <2>1
    <3> DEFINE old == pools[a]
    <3> HIDE DEF v, old
    <3>2. [old EXCEPT !.retained_yield = v] \in PoolState
      BY <2>2, <3>1 DEF PoolState, old
    <3> QED BY <3>1, <3>2 DEF PoolState, old
  <2> HIDE DEF pool
  <2> QED BY <1>3, <2>1, <2>3, EditKeeps DEF lendingAdminVars, loanVars
<1>6. ASSUME NEW amount \in ReserveAmount, NEW to, PayReserves(u, a, amount, to) PROVE StepKeeps
  <2> DEFINE v == pools[a].bad_debt_reserve - amount
             pool == [pools[a] EXCEPT !.bad_debt_reserve = v]
  <2>1. /\ a \in DOMAIN pools /\ amount <= pools[a].bad_debt_reserve /\ SetPool(a, pool)
        /\ UNCHANGED <<lendingAdminVars, loanVars, shares>>
    BY <1>6 DEF PayReserves, Supported
  <2>2. v \in Nat
    BY <1>2, <1>4, <2>1
  <2>3. /\ pool \in PoolState
        /\ pool.total_shares = pools[a].total_shares
        /\ pool.total_deposits = pools[a].total_deposits
    <3>1. pools[a] \in PoolState
      BY <1>4, <2>1
    <3> DEFINE old == pools[a]
    <3> HIDE DEF v, old
    <3>2. [old EXCEPT !.bad_debt_reserve = v] \in PoolState
      BY <2>2, <3>1 DEF PoolState, old
    <3> QED BY <3>1, <3>2 DEF PoolState, old
  <2> HIDE DEF pool
  <2> QED BY <1>3, <2>1, <2>3, EditKeeps DEF lendingAdminVars, loanVars
<1>7. ASSUME NEW amount \in FlashAmount, NEW returned, FlashLoan(u, a, amount, returned)
      PROVE  StepKeeps
  <2> DEFINE fee == BasisPoints(amount, flash_fee)
             v == pools[a].total_deposits + fee
             pool == [pools[a] EXCEPT !.total_deposits = v]
  <2>1. /\ a \in DOMAIN pools /\ SetPool(a, pool)
        /\ amount > 0 /\ amount <= AvailableLiquidity(pools[a])
        /\ UNCHANGED <<lendingAdminVars, loanVars, shares>>
    BY <1>7 DEF FlashLoan, Running, Supported
  <2>2. fee \in Nat
    BY <1>2, <1>3, PointsBelow
  <2>3. v \in Nat /\ v >= pools[a].total_deposits
    <3> HIDE DEF fee
    <3> QED BY <1>4, <2>1, <2>2
  <2>4. /\ pool \in PoolState
        /\ pool.total_shares = pools[a].total_shares /\ pool.total_deposits = v
    <3>1. pools[a] \in PoolState
      BY <1>4, <2>1
    <3> DEFINE old == pools[a]
    <3> HIDE DEF v, old
    <3>2. [old EXCEPT !.total_deposits = v] \in PoolState
      BY <2>3, <3>1 DEF PoolState, old
    <3> QED BY <3>1, <3>2 DEF PoolState, old
  <2>5. Served(a, pools)
    BY <1>2, <2>1, LiquidPool DEF PoolsSound
  <2> HIDE DEF pool, v
  <2> QED BY <1>3, <2>1, <2>3, <2>4, <2>5, EditKeeps DEF lendingAdminVars, loanVars
<1> QED BY <1>1, <1>5, <1>6, <1>7

(* The terms of a loan made from another one. *)
LEMMA TermsTyped ==
  ASSUME clock \in Nat, PoolsTyped, NEW loan \in LoanRecord, loan.asset \in DOMAIN pools,
         NEW id, NEW principal, NEW collateral, NEW days, Amounts(id, principal, collateral, days),
         NEW made, made = NewTerms(loan, id, principal, collateral, days)
  PROVE  made \in LoanRecord /\ made.loan_id = id /\ made.asset = loan.asset
<1> DEFINE due == clock + days
           rate == CurrentRate(pools[loan.asset])
           l1 == [loan EXCEPT !.loan_id = id]
           l2 == [l1 EXCEPT !.principal = principal]
           l3 == [l2 EXCEPT !.collateral_amount = collateral]
           l4 == [l3 EXCEPT !.borrow_time = clock]
           l5 == [l4 EXCEPT !.due_date = due]
           l6 == [l5 EXCEPT !.interest_rate_bps = rate]
<1>0. id \in Nat /\ principal \in Nat /\ collateral \in Nat /\ days \in Nat
  BY DEF Amounts
<1>1. made = l6
  BY DEF NewTerms
<1>2. due \in Nat /\ rate \in Nat
  BY <1>0, RateTyped, PoolFields
<1> HIDE DEF due, rate
<1>3. l1 \in LoanRecord /\ l1.loan_id = id /\ l1.asset = loan.asset
  BY <1>0 DEF LoanRecord
<1> HIDE DEF l1
<1>4. l2 \in LoanRecord /\ l2.loan_id = l1.loan_id /\ l2.asset = l1.asset
  BY <1>0, <1>3 DEF LoanRecord
<1> HIDE DEF l2
<1>5. l3 \in LoanRecord /\ l3.loan_id = l2.loan_id /\ l3.asset = l2.asset
  BY <1>0, <1>4 DEF LoanRecord
<1> HIDE DEF l3
<1>6. l4 \in LoanRecord /\ l4.loan_id = l3.loan_id /\ l4.asset = l3.asset
  BY <1>0, <1>5 DEF LoanRecord
<1> HIDE DEF l4
<1>7. l5 \in LoanRecord /\ l5.loan_id = l4.loan_id /\ l5.asset = l4.asset
  BY <1>2, <1>6 DEF LoanRecord
<1> HIDE DEF l5
<1>8. l6 \in LoanRecord /\ l6.loan_id = l5.loan_id /\ l6.asset = l5.asset
  BY <1>2, <1>7 DEF LoanRecord
<1> HIDE DEF l6
<1> QED BY <1>1, <1>3, <1>4, <1>5, <1>6, <1>7, <1>8

(* One loan in the place of others. *)
LEMMA OneLoan ==
  ASSUME PoolsSound, Kept, UNCHANGED <<clock, flash_fee>>,
         NEW borrower \in Account, NEW closed, NEW loan \in LoanRecord,
         loan.loan_id = next_loan_id, Served(loan.asset, pools),
         Opened(borrower, <<loan>>), Replace(borrower, closed, <<loan>>)
  PROVE  StepKeeps
<1> DEFINE made == <<loan>>
<1>1. DOMAIN made = 1..1 /\ Len(made) = 1 /\ made[1] = loan
  OBVIOUS
<1>2. next_loan_id \in Nat /\ next_loan_id + 1 - 1 = next_loan_id
  BY DEF PoolsSound, LoansTyped
<1>3. Served(loan.asset, pools')
  BY DEF Kept, StillInUse
<1>4. Opened(borrower, made) /\ Replace(borrower, closed, made)
  OBVIOUS
<1> HIDE DEF made
<1>5. \A i \in 1..1 :
        /\ made[i] \in LoanRecord /\ made[i].loan_id = next_loan_id + i - 1
        /\ Served(made[i].asset, pools')
  BY <1>1, <1>2, <1>3
<1>6. LoansTyped /\ StillInUse
  BY DEF PoolsSound, Kept
<1>7. LoansTyped'
  <2> DEFINE n == 1
  <2>1. /\ n \in Nat \ {0} /\ DOMAIN made = 1..n /\ Len(made) = n
        /\ \A i \in 1..n :
             /\ made[i] \in LoanRecord /\ made[i].loan_id = next_loan_id + i - 1
             /\ Served(made[i].asset, pools')
    BY <1>1, <1>5
  <2> HIDE DEF n
  <2> QED BY <1>4, <1>6, <2>1, LoansReplaced
<1> QED BY <1>7 DEF Kept, PoolsSound, StepKeeps

(* A loan leaves deposits and shares as they are.                          *)
LEMMA BorrowStep ==
  ASSUME PoolsSound, NEW u \in Account, NEW a \in Tokens, NEW request \in LoanRequest,
         NEW t \in CollateralToken, NEW days \in LoanDays,
         Borrow(u, a, request.amount, t, request.collateral, days), UNCHANGED clock
  PROVE  StepKeeps
<1> DEFINE amount == request.amount
           b == pools[a].total_borrowed + amount
           pool == [pools[a] EXCEPT !.total_borrowed = b]
           rate == CurrentRate(pool)
           loan == [loan_id |-> next_loan_id, borrower |-> u, asset |-> a,
                    principal |-> amount, collateral_amount |-> request.collateral,
                    collateral_token |-> t, borrow_time |-> clock,
                    due_date |-> clock + days, interest_rate_bps |-> rate]
<1>1. /\ amount \in Nat /\ request.collateral \in Nat /\ t \in Tokens /\ days \in Nat
  BY LendingArguments
<1>2. clock \in Nat /\ next_loan_id \in Nat
  BY DEF PoolsSound, LoansTyped
<1>3. /\ a \in DOMAIN pools /\ amount > 0 /\ amount <= AvailableLiquidity(pools[a])
      /\ SetPool(a, pool) /\ Opened(u, <<loan>>) /\ Replace(u, {}, <<loan>>)
      /\ UNCHANGED <<lendingAdminVars, shares>>
  BY DEF Borrow, Running, Supported
<1>4. pools[a] \in PoolState /\ pools[a].total_borrowed \in Nat
  BY <1>3, PoolFields DEF PoolsSound
<1>5. b \in Nat
  BY <1>1, <1>4
<1>6. /\ pool \in PoolState /\ pool.total_shares = pools[a].total_shares
      /\ pool.total_deposits = pools[a].total_deposits
  <2> DEFINE old == pools[a]
  <2> HIDE DEF b, old
  <2>1. [old EXCEPT !.total_borrowed = b] \in PoolState
    BY <1>4, <1>5 DEF PoolState, old
  <2> QED BY <1>4, <2>1 DEF PoolState, old
<1>7. Served(a, pools)
  BY <1>1, <1>3, LiquidPool DEF PoolsSound
<1> HIDE DEF pool
<1>8. rate \in Nat
  BY <1>6, RateTyped
<1>9. Kept
  BY <1>3, <1>6, EditKept DEF PoolsSound, lendingAdminVars
<1>10. clock + days \in Nat
  BY <1>1, <1>2
<1>11. loan \in LoanRecord /\ loan.loan_id = next_loan_id /\ loan.asset = a
  <2> DEFINE due == clock + days
  <2> HIDE DEF rate, due, amount
  <2> QED BY <1>1, <1>2, <1>8, <1>10 DEF LoanRecord, due
<1> HIDE DEF loan
<1> QED BY <1>3, <1>7, <1>9, <1>11, OneLoan DEF lendingAdminVars

(* The primary loan of a borrower. *)
LEMMA PrimaryTyped ==
  ASSUME PoolsSound, NEW u, HasLoan(u)
  PROVE  /\ u \in Account /\ Primary(u) \in LoanRecord /\ Served(Primary(u).asset, pools)
         /\ Primary(u).principal \in Nat /\ Primary(u).collateral_amount \in Nat
BY DEF PoolsSound, LoansTyped, IsMap, HasLoan, Primary, LoanRecord

(* Without new loans the records of the closed one are gone. *)
LEMMA LoanClosed ==
  ASSUME LoansTyped, StillInUse, UNCHANGED <<clock, flash_fee, next_loan_id>>,
         NEW u, NEW closed, loans' = Drop(loans, u), Replace(u, closed, << >>)
  PROVE  LoansTyped'
<1>1. DOMAIN ById(<< >>) = {}
  BY DEF ById
<1>2. /\ DOMAIN loan_by_id' = DOMAIN loan_by_id \ closed
      /\ \A id \in DOMAIN loan_by_id' : loan_by_id'[id] = loan_by_id[id]
      /\ loan_by_id' = [id \in DOMAIN loan_by_id' |-> loan_by_id'[id]]
  BY <1>1 DEF Replace
<1>3. /\ DOMAIN loans' = DOMAIN loans \ {u} /\ \A b \in DOMAIN loans' : loans'[b] = loans[b]
      /\ loans' = [b \in DOMAIN loans' |-> loans'[b]]
  BY DEF Drop
<1>4. IsMap(loans', Account, LoanRecord) /\ IsMap(loan_by_id', Nat, LoanRecord)
  BY <1>2, <1>3 DEF LoansTyped, IsMap
<1>5. /\ \A b \in DOMAIN loans' : Served(loans'[b].asset, pools')
      /\ \A id \in DOMAIN loan_by_id' : Served(loan_by_id'[id].asset, pools')
  BY <1>2, <1>3 DEF LoansTyped, StillInUse
<1> QED BY <1>4, <1>5 DEF LoansTyped

(* The pool after a loan is paid back. *)
Repaid(loan) ==
  PoolAfterRepay(pools[loan.asset], loan, OutstandingBalance(loan) - loan.principal,
                 CalculateLateFee(loan))

(* A loan paid back brings its interest to the deposits.                   *)
LEMMA RepaidPool ==
  ASSUME PoolsSound, NEW u, HasLoan(u), NEW loan, loan = Primary(u),
         pools[loan.asset].total_borrowed >= loan.principal, NEW pool, pool = Repaid(loan)
  PROVE  /\ pool \in PoolState /\ loan.principal \in Nat
         /\ pool.total_borrowed = pools[loan.asset].total_borrowed - loan.principal
         /\ pool.total_borrowed \in Nat
         /\ pool.total_deposits \in Nat /\ pool.total_deposits >= pools[loan.asset].total_deposits
         /\ pool.total_shares = pools[loan.asset].total_shares
<1> DEFINE a == loan.asset
           interest == OutstandingBalance(loan) - loan.principal
           fee == CalculateLateFee(loan)
           old == pools[a]
           b == old.total_borrowed - loan.principal
           d == old.total_deposits + (interest - ProtocolShare(interest))
           y == old.retained_yield + (ProtocolShare(interest) - ReserveShare(interest)) + fee
           r == old.bad_debt_reserve + ReserveShare(interest)
<1>1. old.total_borrowed >= loan.principal /\ pool = PoolAfterRepay(old, loan, interest, fee)
  BY DEF Repaid
<1>2. loan \in LoanRecord /\ Served(a, pools) /\ loan.principal \in Nat
  BY <1>1, PrimaryTyped
<1>3. clock \in Nat /\ PoolsTyped /\ a \in DOMAIN pools
  BY <1>2 DEF PoolsSound, LoansTyped, Served
<1>4. interest \in Nat /\ fee \in Nat
  BY <1>2, <1>3, LoanAmounts, LateFeeTyped
<1>5. old \in PoolState
  BY <1>3, PoolFields
<1>6. /\ old.total_borrowed \in Nat /\ old.total_deposits \in Nat
      /\ old.retained_yield \in Nat /\ old.bad_debt_reserve \in Nat
  <2> HIDE DEF old
  <2> QED BY <1>5 DEF PoolState
<1> HIDE DEF interest, fee
<1>7. pool = WithDebt(old, b, d, y, r)
  <2> HIDE DEF old
  <2> QED BY <1>1, <1>5 DEF PoolAfterRepay, WithDebt, PoolState
<1> HIDE DEF old
<1>8. /\ ProtocolShare(interest) \in Nat /\ ProtocolShare(interest) <= interest
  BY <1>4, PointsBelow DEF ProtocolShare, PROTOCOL_INTEREST_BPS
<1>9. /\ ReserveShare(interest) \in Nat /\ ReserveShare(interest) <= ProtocolShare(interest)
  BY <1>8, PointsBelow DEF ReserveShare, BAD_DEBT_RESERVE_BPS
<1>10. /\ b \in Nat /\ d \in Nat /\ y \in Nat /\ r \in Nat /\ d >= old.total_deposits
  <2>1. b \in Nat
    BY <1>1, <1>2, <1>6
  <2>2. d \in Nat /\ d >= old.total_deposits
    BY <1>4, <1>6, <1>8
  <2>3. y \in Nat /\ r \in Nat
    BY <1>4, <1>6, <1>8, <1>9
  <2> QED BY <2>1, <2>2, <2>3
<1>11. b = old.total_borrowed - loan.principal
  OBVIOUS
<1> HIDE DEF b, d, y, r
<1>12. Amounts(b, d, y, r)
  BY <1>10 DEF Amounts
<1>13. /\ pool \in PoolState /\ pool.total_borrowed = b /\ pool.total_deposits = d
       /\ pool.total_shares = old.total_shares
  BY <1>5, <1>7, <1>12, DebtSet
<1> QED BY <1>2, <1>10, <1>11, <1>13 DEF old

(* Paying a loan back keeps the books. *)
LEMMA RepayStep ==
  ASSUME PoolsSound, NEW u, Repay(u), UNCHANGED clock
  PROVE  StepKeeps
<1> DEFINE loan == Primary(u)
           a == loan.asset
           old == pools[a]
           pool == Repaid(loan)
<1>1. /\ HasLoan(u) /\ old.total_borrowed >= loan.principal /\ SetPool(a, pool)
      /\ loans' = Drop(loans, u) /\ Replace(u, {loan.loan_id}, << >>)
      /\ UNCHANGED <<lendingAdminVars, next_loan_id, shares>>
  BY DEF Repay, Repaid
<1>2. Served(a, pools) /\ PoolsTyped /\ a \in DOMAIN pools
  BY <1>1, PrimaryTyped DEF PoolsSound, Served
<1> HIDE DEF loan, pool
<1>3. /\ pool \in PoolState /\ pool.total_deposits >= old.total_deposits
      /\ pool.total_shares = old.total_shares
  BY <1>1, RepaidPool DEF loan, pool
<1> HIDE DEF a, old
<1>4. Kept
  BY <1>1, <1>2, <1>3, EditKept DEF PoolsSound, lendingAdminVars, old
<1>5. LoansTyped'
  BY <1>1, <1>4, LoanClosed DEF PoolsSound, Kept, lendingAdminVars
<1> QED BY <1>4, <1>5 DEF Kept, PoolsSound, StepKeeps

(* A liquidation brings its payment to them.                               *)
LEMMA LiquidationStep ==
  ASSUME PoolsSound, LiquidateNext, UNCHANGED clock
  PROVE  StepKeeps
<1>1. PICK u \in Account, liquidator \in Account, amount \in LiquidationAmount :
        LendingLiquidate(liquidator, u, amount)
  BY DEF LiquidateNext
<1> DEFINE loan == Primary(u)
           a == loan.asset
           old == pools[a]
           b == SaturatingSub(old.total_borrowed, amount)
           d == old.total_deposits + amount
           pool == [old EXCEPT !.total_borrowed = b, !.total_deposits = d]
<1>2. /\ HasLoan(u) /\ SetPool(a, pool) /\ UNCHANGED <<lendingAdminVars, loanVars, shares>>
  BY <1>1 DEF LendingLiquidate
<1>3. Served(a, pools) /\ a \in DOMAIN pools /\ amount \in Nat
  BY <1>2, PrimaryTyped, LendingArguments DEF Served
<1>4. old \in PoolState
  BY <1>3, PoolFields DEF PoolsSound
<1>5. /\ old.total_borrowed \in Nat /\ old.total_deposits \in Nat
      /\ old.retained_yield \in Nat /\ old.bad_debt_reserve \in Nat
  <2> HIDE DEF old
  <2> QED BY <1>4 DEF PoolState
<1>7. b \in Nat /\ d \in Nat /\ d >= old.total_deposits
  <2> HIDE DEF old
  <2> QED BY <1>3, <1>5 DEF SaturatingSub
<1>8. /\ pool \in PoolState /\ pool.total_deposits = d
      /\ pool.total_shares = old.total_shares
  <2> DEFINE part == [old EXCEPT !.total_borrowed = b]
  <2> HIDE DEF old, b, d
  <2>1. part \in PoolState /\ part.total_shares = old.total_shares
    BY <1>4, <1>7 DEF PoolState
  <2>2. pool = [part EXCEPT !.total_deposits = d]
    OBVIOUS
  <2> HIDE DEF part, pool
  <2>3. pool \in PoolState /\ pool.total_deposits = d
        /\ pool.total_shares = part.total_shares
    BY <1>7, <2>1, <2>2 DEF PoolState
  <2> QED BY <2>1, <2>3
<1> HIDE DEF pool, old, loan, b, d
<1>9. flash_fee' \in Nat
  BY <1>2 DEF lendingAdminVars, PoolsSound, LoansTyped
<1> QED BY <1>2, <1>3, <1>7, <1>8, <1>9, EditKeeps DEF lendingAdminVars, loanVars, old

(* A fee that is paid with a new loan is yield of the pool.                *)
LEMMA FeeKept ==
  ASSUME PoolsSound, NEW u, NEW a \in DOMAIN pools, NEW fee \in Nat, PayFee(u, a, fee),
         UNCHANGED <<assets, shares>>
  PROVE  Kept
<1> DEFINE old == pools[a]
           v == old.retained_yield + fee
           pool == [old EXCEPT !.retained_yield = v]
<1>1. old \in PoolState
  BY PoolFields DEF PoolsSound
<1>2. SetPool(a, pool)
  BY DEF PayFee
<1>3. v \in Nat
  <2> HIDE DEF old
  <2> QED BY <1>1 DEF PoolState
<1>4. /\ pool \in PoolState /\ pool.total_shares = old.total_shares
      /\ pool.total_deposits = old.total_deposits
  <2> HIDE DEF v, old
  <2> QED BY <1>1, <1>3 DEF PoolState
<1> HIDE DEF pool
<1> QED BY <1>2, <1>4, EditKept DEF PoolsSound

(* The fee of a refinancing is an amount. *)
LEMMA FeeTyped ==
  ASSUME NEW amount \in Nat
  PROVE  BasisPoints(amount, REFINANCING_FEE_BPS) \in Nat
BY PointsBelow DEF REFINANCING_FEE_BPS

(* A loan refinanced is one loan on new terms.                             *)
LEMMA RefinanceStep ==
  ASSUME PoolsSound, NEW u \in Account, NEW days \in Nat, RefinanceLoan(u, days), UNCHANGED clock
  PROVE  StepKeeps
<1> DEFINE loan == Primary(u)
           outstanding == OutstandingBalance(loan)
           fee == BasisPoints(outstanding, REFINANCING_FEE_BPS)
           owed == outstanding + fee
           new == NewTerms(loan, next_loan_id, owed, loan.collateral_amount, days)
<1>1. /\ HasLoan(u) /\ PayFee(u, loan.asset, fee)
      /\ Opened(u, <<new>>) /\ Replace(u, {loan.loan_id}, <<new>>)
      /\ UNCHANGED <<lendingAdminVars, shares>>
  BY DEF RefinanceLoan
<1>2. /\ loan \in LoanRecord /\ Served(loan.asset, pools) /\ loan.asset \in DOMAIN pools
      /\ loan.collateral_amount \in Nat
  BY <1>1, PrimaryTyped DEF Served
<1>3. clock \in Nat /\ next_loan_id \in Nat /\ PoolsTyped
  BY DEF PoolsSound, LoansTyped
<1>4. outstanding \in Nat
  BY <1>2, <1>3, LoanAmounts
<1>5. fee \in Nat
  BY <1>4, FeeTyped
<1>6. owed \in Nat
  BY <1>4, <1>5
<1> HIDE DEF fee, owed
<1>7. new \in LoanRecord /\ new.loan_id = next_loan_id /\ new.asset = loan.asset
  <2> HIDE DEF loan
  <2>1. Amounts(next_loan_id, owed, loan.collateral_amount, days)
    BY <1>2, <1>3, <1>6 DEF Amounts
  <2> QED BY <1>2, <1>3, <2>1, TermsTyped
<1>8. Kept
  BY <1>1, <1>2, <1>5, FeeKept DEF lendingAdminVars
<1> HIDE DEF loan, new
<1> QED BY <1>1, <1>2, <1>7, <1>8, OneLoan DEF lendingAdminVars

(* Loans consolidated are one loan.                                        *)
LEMMA ConsolidateStep ==
  ASSUME PoolsSound, NEW u \in Account, NEW ids \in Seq(Nat), NEW days \in Nat,
         ConsolidateLoans(u, ids, days), UNCHANGED clock
  PROVE  StepKeeps
<1> DEFINE first == loan_by_id[ids[1]]
           debts == [i \in DOMAIN ids |-> OutstandingBalance(loan_by_id[ids[i]])]
           pledges == [i \in DOMAIN ids |-> loan_by_id[ids[i]].collateral_amount]
           outstanding == Total(debts)
           collateral == Total(pledges)
           fee == BasisPoints(outstanding, REFINANCING_FEE_BPS)
           closed == {ids[i] : i \in DOMAIN ids}
           owed == outstanding + fee
           new == NewTerms(first, next_loan_id, owed, collateral, days)
<1>1. /\ 1 <= Len(ids) /\ \A i \in DOMAIN ids : ids[i] \in DOMAIN loan_by_id
      /\ PayFee(u, first.asset, fee)
      /\ Opened(u, <<new>>) /\ Replace(u, closed, <<new>>)
      /\ UNCHANGED <<lendingAdminVars, shares>>
  BY DEF ConsolidateLoans
<1>2. clock \in Nat /\ next_loan_id \in Nat /\ PoolsTyped
  BY DEF PoolsSound, LoansTyped
<1>3. /\ \A i \in DOMAIN ids : loan_by_id[ids[i]] \in LoanRecord
      /\ \A i \in DOMAIN ids : Served(loan_by_id[ids[i]].asset, pools)
  BY <1>1 DEF PoolsSound, LoansTyped, IsMap
<1>4. IsFiniteSet(DOMAIN ids) /\ 1 \in DOMAIN ids
  <2>1. DOMAIN ids = 1..Len(ids) /\ Len(ids) \in Nat
    OBVIOUS
  <2> QED BY <1>1, <2>1, FS_Interval
<1>5. /\ first \in LoanRecord /\ Served(first.asset, pools) /\ first.asset \in DOMAIN pools
  BY <1>3, <1>4 DEF Served
<1>6. outstanding \in Nat
  <2>1. \A i \in DOMAIN debts : debts[i] \in Nat
    BY <1>2, <1>3, LoanAmounts
  <2>2. DOMAIN debts = DOMAIN ids
    OBVIOUS
  <2> HIDE DEF debts
  <2> QED BY <1>4, <2>1, <2>2, TotalOfNats
<1>7. collateral \in Nat
  <2>1. \A i \in DOMAIN pledges : pledges[i] \in Nat
    BY <1>3 DEF LoanRecord
  <2>2. DOMAIN pledges = DOMAIN ids
    OBVIOUS
  <2> HIDE DEF pledges
  <2> QED BY <1>4, <2>1, <2>2, TotalOfNats
<1> HIDE DEF outstanding, collateral
<1>8. fee \in Nat
  BY <1>6, FeeTyped
<1>9. owed \in Nat
  BY <1>6, <1>8
<1> HIDE DEF fee, owed
<1>10. new \in LoanRecord /\ new.loan_id = next_loan_id /\ new.asset = first.asset
  <2> HIDE DEF first
  <2>1. Amounts(next_loan_id, owed, collateral, days)
    BY <1>2, <1>7, <1>9 DEF Amounts
  <2> QED BY <1>2, <1>5, <2>1, TermsTyped
<1>11. Kept
  BY <1>1, <1>5, <1>8, FeeKept DEF lendingAdminVars
<1> HIDE DEF first, new, closed
<1> QED BY <1>1, <1>5, <1>10, <1>11, OneLoan DEF lendingAdminVars

(* The collateral of a part is an amount. *)
LEMMA PartTyped ==
  ASSUME NEW loan \in LoanRecord, NEW part \in Nat, NEW outstanding \in Nat
  PROVE  SplitCollateral(loan, part, outstanding) \in Nat
<1>1. loan.collateral_amount \in Nat
  BY DEF LoanRecord
<1>2. CASE outstanding = 0
  BY <1>2 DEF SplitCollateral
<1>3. CASE outstanding # 0
  <2> DEFINE ratio == (part * 10000) \div outstanding
             pledge == loan.collateral_amount
  <2>1. ratio \in Nat
    BY <1>3, QuotientBelow
  <2>2. pledge \in Nat
    BY <1>1
  <2> HIDE DEF ratio, pledge
  <2>3. BasisPoints(pledge, ratio) \in Nat
    BY <2>1, <2>2, PointsBelow
  <2> QED BY <1>3, <2>3 DEF SplitCollateral, ratio, pledge
<1> QED BY <1>2, <1>3

(* A loan split is one loan for each part.                                 *)
LEMMA SplitStep ==
  ASSUME PoolsSound, NEW u \in Account, NEW parts \in Seq(Nat), NEW days \in Nat,
         SplitLoan(u, parts, days), UNCHANGED clock
  PROVE  StepKeeps
<1> DEFINE loan == Primary(u)
           outstanding == OutstandingBalance(loan)
           fee == BasisPoints(outstanding, REFINANCING_FEE_BPS)
           terms(i) == NewTerms(loan, next_loan_id + i - 1, parts[i],
                                SplitCollateral(loan, parts[i], outstanding), days)
           made == [i \in DOMAIN parts |-> terms(i)]
           n == Len(parts)
           closed == {loan.loan_id}
<1>1. /\ 1 <= n /\ HasLoan(u) /\ PayFee(u, loan.asset, fee)
      /\ Opened(u, made) /\ Replace(u, closed, made)
      /\ UNCHANGED <<lendingAdminVars, shares>>
  BY DEF SplitLoan
<1>2. loan \in LoanRecord /\ Served(loan.asset, pools) /\ loan.asset \in DOMAIN pools
  BY <1>1, PrimaryTyped DEF Served
<1>3. clock \in Nat /\ next_loan_id \in Nat /\ PoolsTyped
  BY DEF PoolsSound, LoansTyped
<1>4. outstanding \in Nat
  BY <1>2, <1>3, LoanAmounts
<1>5. fee \in Nat
  BY <1>4, FeeTyped
<1>6. n \in Nat \ {0} /\ DOMAIN parts = 1..n /\ \A i \in 1..n : parts[i] \in Nat
  BY <1>1
<1>7. DOMAIN made = 1..n /\ Len(made) = n
  <2> HIDE DEF terms, n
  <2> QED BY <1>6
<1> HIDE DEF outstanding, fee, n, loan
<1>8. ASSUME NEW i \in 1..n
      PROVE  /\ made[i] \in LoanRecord /\ made[i].loan_id = next_loan_id + i - 1
             /\ made[i].asset = loan.asset
  <2> DEFINE id == next_loan_id + i - 1
             part == parts[i]
             pledge == SplitCollateral(loan, part, outstanding)
  <2>1. made[i] = NewTerms(loan, id, part, pledge, days)
    BY <1>6
  <2>2. id \in Nat
    BY <1>3, <1>6
  <2>3. part \in Nat
    BY <1>6
  <2> HIDE DEF part
  <2>4. pledge \in Nat
    BY <1>2, <1>4, <2>3, PartTyped
  <2> HIDE DEF id, pledge, made
  <2>5. Amounts(id, part, pledge, days)
    BY <2>2, <2>3, <2>4 DEF Amounts
  <2>6. made[i] \in LoanRecord /\ made[i].loan_id = id /\ made[i].asset = loan.asset
    BY <1>2, <1>3, <2>1, <2>5, TermsTyped
  <2> QED BY <2>6 DEF id
<1>9. Kept
  BY <1>1, <1>2, <1>5, FeeKept DEF lendingAdminVars
<1> HIDE DEF made, closed
<1>10. Served(loan.asset, pools') /\ LoansTyped /\ StillInUse
  BY <1>2, <1>9 DEF Kept, StillInUse, PoolsSound
<1>11. \A i \in 1..n :
         /\ made[i] \in LoanRecord /\ made[i].loan_id = next_loan_id + i - 1
         /\ Served(made[i].asset, pools')
  BY <1>8, <1>10
<1>12. LoansTyped'
  BY <1>1, <1>6, <1>7, <1>10, <1>11, LoansReplaced DEF lendingAdminVars
<1> QED BY <1>9, <1>12 DEF Kept, PoolsSound, StepKeeps

(* What borrowers do with open loans.                                      *)
LEMMA RefinancingStep ==
  ASSUME PoolsSound, RefinanceNext, UNCHANGED clock
  PROVE  StepKeeps
<1>1. PICK u \in Account, days \in LoanDays :
        \/ RefinanceLoan(u, days)
        \/ \E ids \in LoanIds : ConsolidateLoans(u, ids, days)
        \/ \E parts \in SplitParts : SplitLoan(u, parts, days)
  BY DEF RefinanceNext
<1>2. days \in Nat
  BY LendingArguments
<1>3. ASSUME NEW ids \in LoanIds, ConsolidateLoans(u, ids, days) PROVE StepKeeps
  BY <1>2, <1>3, ConsolidateStep, LendingArguments
<1>4. ASSUME NEW parts \in SplitParts, SplitLoan(u, parts, days) PROVE StepKeeps
  BY <1>2, <1>4, SplitStep, LendingArguments
<1> QED BY <1>1, <1>2, <1>3, <1>4, RefinanceStep

(* Staking, the NFTs and the settings that concern neither pools nor loans. *)
LEMMA StakingStep ==
  ASSUME PoolsSound, StakingNext, UNCHANGED clock
  PROVE  StepKeeps
<1>1. UNCHANGED <<loans, loan_by_id, next_loan_id, pools, assets, shares, flash_fee>>
  <2>1. PICK a \in Tokens :
          \/ \E u \in Account :
               \/ \E n \in ShareAmount : StakeLpTokens(u, a, n) \/ UnstakeLpTokens(u, a, n)
               \/ ClaimRewards(u, a)
               \/ \E rate \in RewardRate : SetRewardRate(u, a, rate)
          \/ GetPendingRewards(a)
    BY DEF StakingNext
  <2>2. UNCHANGED <<lendingAdminVars, loanVars, poolVars>>
    BY <2>1 DEF StakeLpTokens, UnstakeLpTokens, ClaimRewards, SetRewardRate, GetPendingRewards
  <2> QED BY <2>2 DEF lendingAdminVars, loanVars, poolVars
<1>2. clock' \in Nat /\ flash_fee' \in Nat
  BY <1>1 DEF PoolsSound, LoansTyped
<1> QED BY <1>1, <1>2, OtherKeeps

(* The NFTs change neither.                                                *)
LEMMA NftStep ==
  ASSUME PoolsSound, NftNext, UNCHANGED clock
  PROVE  StepKeeps
<1>1. UNCHANGED <<loans, loan_by_id, next_loan_id, pools, assets, shares, flash_fee>>
  BY DEF NftNext, lendingAdminVars, poolVars
<1>2. clock' \in Nat /\ flash_fee' \in Nat
  BY <1>1 DEF PoolsSound, LoansTyped
<1> QED BY <1>1, <1>2, OtherKeeps

(* A new pool is of an asset that had none.                                *)
LEMMA NewPoolStep ==
  ASSUME PoolsSound, NEW u, NEW a \in Tokens, AddAssetPool(u, a), UNCHANGED clock
  PROVE  StepKeeps
<1>1. /\ ~InSeq(assets, a) /\ assets' = Append(assets, a) /\ pools' = Put(pools, a, NewPool)
      /\ UNCHANGED <<flash_fee, loanVars, shares>>
  BY DEF AddAssetPool
<1>2. a \notin DOMAIN pools
  BY <1>1 DEF PoolsSound, PoolsTyped
<1>3. /\ DOMAIN pools' = DOMAIN pools \cup {a} /\ pools'[a] = NewPool
      /\ \A t \in DOMAIN pools : pools'[t] = pools[t]
      /\ pools' = [t \in DOMAIN pools' |-> pools'[t]]
  BY <1>1, <1>2 DEF Put
<1>4. /\ NewPool \in PoolState /\ Funded(NewPool)
      /\ NewPool.total_shares = 0
  BY DEF NewPool, PoolState, ReserveFactor, Funded, DEFAULT_GRACE_PERIOD, DEFAULT_LATE_FEE_RATE_BPS
<1>5. Priced
  <2>1. ASSUME NEW t \in DOMAIN pools PROVE NotCheaper(pools[t], pools'[t])
    <3>1. pools'[t].total_deposits = pools[t].total_deposits + 0
      BY <1>3, PoolFields DEF PoolsSound
    <3>2. pools[t] \in PoolState /\ pools'[t].total_shares = pools[t].total_shares
      BY <1>3, PoolFields DEF PoolsSound
    <3> QED BY <3>1, <3>2, GrowthAlone
  <2> QED BY <2>1 DEF Priced
<1>6. assets' \in Seq(Tokens) /\ \A t \in DOMAIN pools' : InSeq(assets', t)
  <2>1. assets \in Seq(Tokens) /\ \A t \in DOMAIN pools : InSeq(assets, t)
    BY DEF PoolsSound, PoolsTyped
  <2>2. Inserted(assets, a, assets')
    BY <1>1, <2>1, AppendedRow DEF IsSeq
  <2>3. \A t \in Tokens : InSeq(assets, t) \/ t = a => InSeq(assets', t)
    BY <2>2 DEF Inserted, InSeq
  <2>4. DOMAIN pools \subseteq Tokens
    BY DEF PoolsSound, PoolsTyped, IsMap
  <2>5. assets' \in Seq(Tokens)
    BY <1>1, <2>1
  <2> QED BY <1>3, <2>1, <2>3, <2>4, <2>5
<1>7. PoolsTyped'
  <2>1. \A t \in DOMAIN pools' : t \in Tokens /\ pools'[t] \in PoolState /\ Funded(pools'[t])
    BY <1>3, <1>4, PoolFields DEF PoolsSound
  <2> QED BY <1>3, <1>6, <2>1 DEF PoolsTyped, IsMap
<1>8. \A t : SharesIn(t)' = SharesIn(t)
  BY <1>1 DEF SharesIn
<1>9. Total(SharesIn(a)) + Unheld(NewPool) <= NewPool.total_shares
  <2>1. DOMAIN SharesIn(a) = {}
    BY <1>2 DEF PoolsSound, SharesCounted, SharesIn
  <2> QED BY <1>4, <2>1, TotalOfNothing DEF Unheld
<1>10. SharesCounted'
  BY <1>1, <1>3, <1>8, <1>9 DEF PoolsSound, SharesCounted
<1>11. LoansTyped'
  <2>1. StillInUse
    BY <1>3 DEF StillInUse, Served
  <2>2. UNCHANGED <<loans, loan_by_id, next_loan_id>> /\ clock' \in Nat /\ flash_fee' \in Nat
    BY <1>1 DEF loanVars, PoolsSound, LoansTyped
  <2> QED BY <2>1, <2>2, LoansStill DEF PoolsSound
<1> QED BY <1>5, <1>7, <1>10, <1>11 DEF StepKeeps, PoolsSound

(* The pause, the grace period and the late fee of a pool.                 *)
LEMMA PoolFieldStep ==
  ASSUME PoolsSound, NEW u, NEW a, NEW s \in PoolSetting,
         SetPoolField(u, a, s.field, s.value), UNCHANGED clock
  PROVE  StepKeeps
<1> DEFINE old == pools[a]
           v == s.value
           pool == [old EXCEPT ![s.field] = v]
<1>1. /\ a \in DOMAIN pools /\ pools' = [pools EXCEPT ![a][s.field] = v]
      /\ UNCHANGED <<lendingAdminVars, loanVars, shares>>
  BY DEF SetPoolField, Supported
<1>2. old \in PoolState
  BY <1>1, PoolFields DEF PoolsSound
<1>3. /\ pool \in PoolState /\ pool.total_shares = old.total_shares
      /\ pool.total_deposits = old.total_deposits
  <2> HIDE DEF old
  <2>1. CASE s.field = "is_paused" /\ v \in BOOLEAN
    <3>1. pool = [old EXCEPT !.is_paused = v]
      BY <2>1
    <3> HIDE DEF v, pool
    <3> QED BY <1>2, <2>1, <3>1 DEF PoolState
  <2>2. CASE s.field = "grace_period" /\ v \in Nat
    <3>1. pool = [old EXCEPT !.grace_period = v]
      BY <2>2
    <3> HIDE DEF v, pool
    <3> QED BY <1>2, <2>2, <3>1 DEF PoolState
  <2>3. CASE s.field = "late_fee_rate_bps" /\ v \in Nat
    <3>1. pool = [old EXCEPT !.late_fee_rate_bps = v]
      BY <2>3
    <3> HIDE DEF v, pool
    <3> QED BY <1>2, <2>3, <3>1 DEF PoolState
  <2> QED BY <2>1, <2>2, <2>3, LendingArguments
<1>4. SetPool(a, pool)
  <2>1. pools = [t \in DOMAIN pools |-> pools[t]]
    BY DEF PoolsSound, PoolsTyped, IsMap
  <2>2. pools' = [pools EXCEPT ![a] = pool]
    BY <1>1
  <2>3. DOMAIN pools \cup {a} = DOMAIN pools
    BY <1>1
  <2> HIDE DEF pool
  <2> QED BY <2>1, <2>2, <2>3 DEF SetPool, Put
<1> HIDE DEF pool
<1>5. flash_fee' \in Nat
  BY <1>1 DEF lendingAdminVars, PoolsSound, LoansTyped
<1> QED BY <1>1, <1>3, <1>4, <1>5, EditKeeps DEF lendingAdminVars, loanVars

(* What the admin sets and adds.                                           *)
LEMMA SettingsStep ==
  ASSUME PoolsSound, AdminNext, UNCHANGED clock
  PROVE  StepKeeps
<1>1. PICK u \in Account :
        \/ \E a \in NewAsset : AddAssetPool(u, a)
        \/ \E account \in Account, role \in RoleGrant, granted \in BOOLEAN :
             SetLendingRole(u, account, role, granted)
        \/ \E value \in BOOLEAN : SetLendingPaused(u, value)
        \/ \E a \in Tokens, s \in PoolSetting : SetPoolField(u, a, s.field, s.value)
        \/ SetNftToken(u)
        \/ \E t \in CollateralToken, listed \in BOOLEAN : SetCollateral(u, t, listed)
  BY DEF AdminNext
<1>2. ASSUME UNCHANGED <<loanVars, poolVars, assets, flash_fee>> PROVE StepKeeps
  <2>1. clock' \in Nat /\ flash_fee' \in Nat
    BY <1>2 DEF PoolsSound, LoansTyped
  <2> QED BY <1>2, <2>1, OtherKeeps DEF loanVars, poolVars
<1>3. ASSUME NEW a \in NewAsset, AddAssetPool(u, a) PROVE StepKeeps
  BY <1>3, NewPoolStep, LendingArguments
<1>4. ASSUME NEW a \in Tokens, NEW s \in PoolSetting, SetPoolField(u, a, s.field, s.value)
      PROVE  StepKeeps
  BY <1>4, PoolFieldStep
<1>5. ASSUME NEW account, NEW role, NEW granted, SetLendingRole(u, account, role, granted)
      PROVE  StepKeeps
  BY <1>2, <1>5 DEF SetLendingRole
<1>6. ASSUME NEW value, SetLendingPaused(u, value) PROVE StepKeeps
  BY <1>2, <1>6 DEF SetLendingPaused
<1>7. ASSUME SetNftToken(u) PROVE StepKeeps
  BY <1>2, <1>7 DEF SetNftToken
<1>8. ASSUME NEW t, NEW listed, SetCollateral(u, t, listed) PROVE StepKeeps
  BY <1>2, <1>8 DEF SetCollateral
<1> QED BY <1>1, <1>3, <1>4, <1>5, <1>6, <1>7, <1>8

(* A reserve factor is a share of the whole. *)
LEMMA FactorInRange ==
  ASSUME NEW bps, bps \in Nat, bps <= 10000
  PROVE  bps \in ReserveFactor
BY DEF ReserveFactor

(* The reserve factor of a pool. *)
LEMMA FactorStep ==
  ASSUME PoolsSound, NEW u, NEW a, NEW bps \in Nat, SetReserveFactor(u, a, bps), UNCHANGED clock
  PROVE  StepKeeps
<1> DEFINE old == pools[a]
           pool == [old EXCEPT !.reserve_factor_bps = bps]
<1>1. /\ a \in DOMAIN pools /\ bps \in ReserveFactor /\ SetPool(a, pool)
      /\ UNCHANGED <<lendingAdminVars, loanVars, shares>>
  <2>1. bps <= 10000
    BY DEF SetReserveFactor
  <2>2. bps \in ReserveFactor
    BY <2>1, FactorInRange
  <2> QED BY <2>2 DEF SetReserveFactor, Supported
<1>2. old \in PoolState
  BY <1>1, PoolFields DEF PoolsSound
<1>3. /\ pool \in PoolState /\ pool.total_shares = old.total_shares
      /\ pool.total_deposits = old.total_deposits
  <2> HIDE DEF old
  <2> QED BY <1>1, <1>2 DEF PoolState
<1> HIDE DEF pool
<1>4. flash_fee' \in Nat
  BY <1>1 DEF lendingAdminVars, PoolsSound, LoansTyped
<1> QED BY <1>1, <1>3, <1>4, EditKeeps DEF lendingAdminVars, loanVars

(* The fees, the rates and the insurance fund.                             *)
LEMMA FeesStep ==
  ASSUME PoolsSound, FeeNext, UNCHANGED clock
  PROVE  StepKeeps
<1>1. PICK u \in Account :
        \/ \E bps \in FeeBps :
             \/ SetFlashLoanFee(u, bps) \/ SetInsurancePremiumRate(u, bps)
             \/ \E a \in Tokens : SetReserveFactor(u, a, bps)
        \/ \E amount \in InsuranceAmount :
             DepositToInsuranceFund(u, amount) \/ WithdrawFromInsuranceFund(u, amount)
        \/ \E model \in CurveModel : SetRateModel(u, model)
  BY DEF FeeNext
<1>2. FeeBps \subseteq Nat
  BY LendingArguments
<1>3. ASSUME UNCHANGED <<loanVars, poolVars, assets>>, flash_fee' \in Nat PROVE StepKeeps
  <2>1. clock' \in Nat
    BY DEF PoolsSound, LoansTyped
  <2> QED BY <1>3, <2>1, OtherKeeps DEF loanVars, poolVars
<1>4. flash_fee \in Nat
  BY DEF PoolsSound, LoansTyped
<1>5. ASSUME NEW bps \in FeeBps, SetFlashLoanFee(u, bps) PROVE StepKeeps
  BY <1>2, <1>3, <1>5 DEF SetFlashLoanFee
<1>6. ASSUME NEW bps \in FeeBps, SetInsurancePremiumRate(u, bps) PROVE StepKeeps
  BY <1>3, <1>4, <1>6 DEF SetInsurancePremiumRate
<1>7. ASSUME NEW bps \in FeeBps, NEW a \in Tokens, SetReserveFactor(u, a, bps) PROVE StepKeeps
  BY <1>2, <1>7, FactorStep
<1>8. ASSUME NEW amount,
             DepositToInsuranceFund(u, amount) \/ WithdrawFromInsuranceFund(u, amount)
      PROVE  StepKeeps
  BY <1>3, <1>4, <1>8 DEF DepositToInsuranceFund, WithdrawFromInsuranceFund, lendingAdminVars
<1>9. ASSUME NEW model, SetRateModel(u, model) PROVE StepKeeps
  BY <1>3, <1>4, <1>9 DEF SetRateModel
<1> QED BY <1>1, <1>5, <1>6, <1>7, <1>8, <1>9

(* A loan from borrow to repay.                                            *)
LEMMA BorrowingStep ==
  ASSUME PoolsSound, BorrowNext, UNCHANGED clock
  PROVE  StepKeeps
BY BorrowStep, RepayStep DEF BorrowNext

(* A step of the contract keeps the books sound and no share loses worth.  *)
LEMMA LendingStep ==
  ASSUME PoolsSound, [LendingNext]_<<clock, lendingVars>>
  PROVE  StepKeeps
<1>1. CASE UNCHANGED lendingVars /\ clock' \in Nat
  <2>1. UNCHANGED <<loans, loan_by_id, next_loan_id, pools, assets, shares, flash_fee>>
    BY <1>1 DEF lendingVars, lendingAdminVars, loanVars, poolVars
  <2>2. flash_fee' \in Nat
    BY <2>1 DEF PoolsSound, LoansTyped
  <2> QED BY <1>1, <2>1, <2>2, OtherKeeps
<1>2. clock \in Nat
  BY DEF PoolsSound, LoansTyped
<1>3. CASE UNCHANGED <<clock, lendingVars>>
  BY <1>1, <1>2, <1>3
<1>4. ASSUME NEW days \in Steps, Tick(days), UNCHANGED lendingVars PROVE StepKeeps
  <2>1. clock' \in Nat
    BY <1>2, <1>4, ClockAssumption DEF Tick
  <2> QED BY <1>1, <1>4, <2>1
<1>5. ASSUME \/ ShareNext \/ YieldNext \/ BorrowNext \/ LiquidateNext \/ RefinanceNext
             \/ StakingNext \/ NftNext \/ AdminNext \/ FeeNext,
             UNCHANGED clock
      PROVE  StepKeeps
  BY <1>5, SharesStep, YieldStep, BorrowingStep, LiquidationStep, RefinancingStep,
     StakingStep, NftStep, SettingsStep, FeesStep
<1> QED BY <1>3, <1>4, <1>5 DEF LendingNext

(* The contract starts with one pool without shares, and no loan.          *)
LEMMA LendingStarts == LendingStart => PoolsSound
<1> SUFFICES ASSUME LendingStart PROVE PoolsSound
  OBVIOUS
<1>1. LendingInit
  BY DEF LendingStart
<1>2. /\ NewPool \in PoolState /\ Funded(NewPool) /\ NewPool.total_shares = 0
  BY DEF NewPool, PoolState, ReserveFactor, Funded, DEFAULT_GRACE_PERIOD, DEFAULT_LATE_FEE_RATE_BPS
<1>3. /\ DOMAIN pools = {MainToken} /\ pools[MainToken] = NewPool
      /\ pools = [t \in DOMAIN pools |-> pools[t]] /\ MainToken \in Tokens
  BY <1>1, LendingAssumption DEF LendingInit, Put, EmptyMap
<1>4. PoolsTyped
  <2>1. assets \in Seq(Tokens) /\ InSeq(assets, MainToken)
    BY <1>1, <1>3 DEF LendingInit, InSeq
  <2> QED BY <1>2, <1>3, <2>1 DEF PoolsTyped, IsMap
<1>5. DOMAIN shares = {} /\ shares = [k \in DOMAIN shares |-> shares[k]]
  BY <1>1 DEF LendingInit, EmptyMap
<1>6. DOMAIN SharesIn(MainToken) = {}
  BY <1>5 DEF SharesIn
<1>7. Total(SharesIn(MainToken)) = 0
  BY <1>6, TotalOfNothing
<1>8. IsFiniteSet(DOMAIN shares)
  BY <1>5, FS_EmptySet
<1>9. SharesCounted
  BY <1>2, <1>3, <1>5, <1>7, <1>8 DEF SharesCounted, IsMap, Unheld
<1>10. LoansTyped
  BY <1>1 DEF LendingInit, LoansTyped, IsMap, EmptyMap, DEFAULT_FLASH_FEE_BPS
<1> QED BY <1>4, <1>9, <1>10 DEF PoolsSound

(* A pool that loses no worth per share is one whose shares lose none.     *)
LEMMA PricedMeans ==
  ASSUME Priced
  PROVE  \A asset \in DOMAIN pools :
           pools'[asset].total_deposits * pools[asset].total_shares
             >= pools[asset].total_deposits * pools'[asset].total_shares
BY DEF Priced, NotCheaper

(* A share is never worth less than before, whatever is deposited,         *)
(* withdrawn, lent, paid back, liquidated or refinanced, in any order and  *)
(* for any amounts.                                                        *)
THEOREM SharePriceStays == LendingSpec => SharePriceNeverFalls
<1>1. LendingStart => PoolsSound
  BY LendingStarts
<1>2. PoolsSound /\ [LendingNext]_<<clock, lendingVars>>
        => /\ PoolsSound'
           /\ \A asset \in DOMAIN pools :
                pools'[asset].total_deposits * pools[asset].total_shares
                  >= pools[asset].total_deposits * pools'[asset].total_shares
  BY LendingStep, PricedMeans DEF StepKeeps
<1> QED BY <1>1, <1>2, PTL DEF LendingSpec, SharePriceNeverFalls

-----------------------------------------------------------------------------
(* Lending: the three places that name a loan. *)

(* The list of a borrower names exactly his loans, each once.              *)
LoansListed ==
  /\ \A u \in DOMAIN user_loans : user_loans[u] # << >>
  /\ \A u : UserLoans(u) \in ListOf(Nat) /\ Ascending(UserLoans(u))
  /\ \A u, id : InSeq(UserLoans(u), id) <=>
                  id \in DOMAIN loan_by_id /\ loan_by_id[id].borrower = u

(* A loan is stored under its id, which the next one is above, and the     *)
(* primary loan of a borrower is one of his.                               *)
LoansNumbered ==
  /\ \A id \in DOMAIN loan_by_id : loan_by_id[id].loan_id = id /\ id < next_loan_id
  /\ \A b \in DOMAIN loans :
       /\ loans[b].borrower = b
       /\ loans[b].loan_id \in DOMAIN loan_by_id
       /\ loan_by_id[loans[b].loan_id] = loans[b]

LoanBook == LoansListed /\ LoansNumbered

(* A book in which this holds agrees with itself. *)
LEMMA BookAgrees ==
  ASSUME LoanBook
  PROVE  LoanIndexAgrees
<1>1. ASSUME NEW b \in DOMAIN user_loans
      PROVE  UserLoans(b) = user_loans[b]
  BY DEF UserLoans, Stored
<1>2. ASSUME NEW b \in DOMAIN user_loans, NEW i \in DOMAIN user_loans[b]
      PROVE  /\ user_loans[b][i] \in DOMAIN loan_by_id
             /\ loan_by_id[user_loans[b][i]].borrower = b
             /\ \A j \in DOMAIN user_loans[b] : i < j => user_loans[b][i] < user_loans[b][j]
  <2>1. InSeq(UserLoans(b), user_loans[b][i])
    BY <1>1, <1>2 DEF InSeq
  <2>2. Ascending(user_loans[b])
    BY <1>1 DEF LoanBook, LoansListed
  <2> QED BY <2>1, <2>2 DEF LoanBook, LoansListed, Ascending
<1>3. ASSUME NEW id \in DOMAIN loan_by_id
      PROVE  InSeq(UserLoans(loan_by_id[id].borrower), id)
  BY DEF LoanBook, LoansListed
<1> QED BY <1>2, <1>3 DEF LoanBook, LoansListed, LoansNumbered, LoanIndexAgrees

(* The records in made have the next ids and are of the borrower.          *)
Fresh(u, made) ==
  \A id \in DOMAIN made :
    /\ id \in Nat /\ next_loan_id <= id /\ id < next_loan_id'
    /\ made[id] \in LoanRecord /\ made[id].loan_id = id /\ made[id].borrower = u

OwnLoans(u, ids) == \A id \in ids : id \in DOMAIN loan_by_id /\ loan_by_id[id].borrower = u

(* The records by id, when those in made take the place of the closed.     *)
RecordsReplaced(closed, made) ==
  /\ DOMAIN loan_by_id' = (DOMAIN loan_by_id \ closed) \cup DOMAIN made
  /\ \A id \in DOMAIN loan_by_id' :
       loan_by_id'[id] = IF id \in DOMAIN made THEN made[id] ELSE loan_by_id[id]

(* The primary loans when that of u is one of those in made, or gone.      *)
PrimaryReplaced(u, made) ==
  /\ \A b \in DOMAIN loans' : b # u => b \in DOMAIN loans /\ loans'[b] = loans[b]
  /\ u \in DOMAIN loans' =>
       loans'[u].loan_id \in DOMAIN made /\ made[loans'[u].loan_id] = loans'[u]

(* The lists when that of u loses the closed and gets the new ones.        *)
ListReplaced(u, closed, made) ==
  /\ \A b : b # u => /\ UserLoans(b)' = UserLoans(b)
                     /\ b \in DOMAIN user_loans' => user_loans'[b] # << >>
  /\ u \in DOMAIN user_loans' => user_loans'[u] # << >>
  /\ UserLoans(u)' \in ListOf(Nat) /\ Ascending(UserLoans(u)')
  /\ \A id : InSeq(UserLoans(u)', id) <=>
               (InSeq(UserLoans(u), id) /\ id \notin closed) \/ id \in DOMAIN made

Turnover(u, closed, made) ==
  /\ OwnLoans(u, closed) /\ Fresh(u, made)
  /\ next_loan_id \in Nat /\ next_loan_id' \in Nat /\ next_loan_id <= next_loan_id'
  /\ RecordsReplaced(closed, made) /\ PrimaryReplaced(u, made)
  /\ ListReplaced(u, closed, made)

(* What a turnover keeps. *)
LEMMA TurnoverKeeps ==
  ASSUME LoanBook, IsMap(loan_by_id, Nat, LoanRecord),
         NEW u, NEW closed, NEW made, Turnover(u, closed, made)
  PROVE  LoanBook'
<1> DEFINE D == DOMAIN loan_by_id
           N == DOMAIN made
<1>1. /\ \A id \in N : id \in Nat /\ next_loan_id <= id /\ id < next_loan_id'
                       /\ made[id].loan_id = id /\ made[id].borrower = u
      /\ next_loan_id \in Nat /\ next_loan_id' \in Nat /\ next_loan_id <= next_loan_id'
  BY DEF Turnover, Fresh
<1>2. /\ D \subseteq Nat /\ \A id \in D : id < next_loan_id /\ loan_by_id[id].loan_id = id
  BY DEF LoanBook, LoansNumbered, IsMap
<1>3. \A id \in closed : id \in D /\ loan_by_id[id].borrower = u
  BY DEF Turnover, OwnLoans
<1>4. /\ DOMAIN loan_by_id' = (D \ closed) \cup N
      /\ \A id \in N : loan_by_id'[id] = made[id]
      /\ \A id \in D \ closed : loan_by_id'[id] = loan_by_id[id]
  <2>1. \A id \in D : id \notin N
    BY <1>1, <1>2
  <2> QED BY <2>1 DEF Turnover, RecordsReplaced
<1>5. \A id \in DOMAIN loan_by_id' : loan_by_id'[id].loan_id = id /\ id < next_loan_id'
  <2>1. \A id \in D : id < next_loan_id'
    BY <1>1, <1>2
  <2> QED BY <1>1, <1>2, <1>4, <2>1
<1>6. ASSUME NEW b \in DOMAIN loans'
      PROVE  /\ loans'[b].borrower = b
             /\ loans'[b].loan_id \in DOMAIN loan_by_id'
             /\ loan_by_id'[loans'[b].loan_id] = loans'[b]
  <2>1. CASE b = u
    <3>1. loans'[u].loan_id \in N /\ made[loans'[u].loan_id] = loans'[u]
      BY <1>6, <2>1 DEF Turnover, PrimaryReplaced
    <3> QED BY <1>1, <1>4, <2>1, <3>1
  <2>2. CASE b # u
    <3>1. b \in DOMAIN loans /\ loans'[b] = loans[b]
      BY <1>6, <2>2 DEF Turnover, PrimaryReplaced
    <3>2. /\ loans[b].borrower = b /\ loans[b].loan_id \in D
          /\ loan_by_id[loans[b].loan_id] = loans[b]
      BY <3>1 DEF LoanBook, LoansNumbered
    <3>3. loans[b].loan_id \notin closed
      BY <1>3, <2>2, <3>2
    <3> QED BY <1>4, <3>1, <3>2, <3>3
  <2> QED BY <2>1, <2>2
<1>7. ASSUME NEW b, NEW id
      PROVE  InSeq(UserLoans(b)', id) <=> id \in DOMAIN loan_by_id' /\ loan_by_id'[id].borrower = b
  <2>1. InSeq(UserLoans(b), id) <=> id \in D /\ loan_by_id[id].borrower = b
    BY DEF LoanBook, LoansListed
  <2>2. CASE b = u
    <3>1. InSeq(UserLoans(u)', id) <=> (InSeq(UserLoans(u), id) /\ id \notin closed) \/ id \in N
      BY DEF Turnover, ListReplaced
    <3> QED BY <1>1, <1>4, <2>1, <2>2, <3>1
  <2>3. CASE b # u
    <3>1. UserLoans(b)' = UserLoans(b)
      BY <2>3 DEF Turnover, ListReplaced
    <3>2. id \notin closed \/ ~(id \in D /\ loan_by_id[id].borrower = b)
      BY <1>3, <2>3
    <3>3. id \in N => loan_by_id'[id].borrower # b /\ ~(id \in D)
      BY <1>1, <1>2, <1>4, <2>3
    <3> QED BY <1>3, <1>4, <2>1, <3>1, <3>2, <3>3
  <2> QED BY <2>2, <2>3
<1>8. ASSUME NEW b PROVE UserLoans(b)' \in ListOf(Nat) /\ Ascending(UserLoans(b)')
  BY DEF Turnover, ListReplaced, LoanBook, LoansListed
<1>9. \A b \in DOMAIN user_loans' : user_loans'[b] # << >>
  BY DEF Turnover, ListReplaced
<1>10. LoansListed'
  BY <1>7, <1>8, <1>9 DEF LoansListed
<1>11. LoansNumbered'
  BY <1>5, <1>6 DEF LoansNumbered
<1> QED BY <1>10, <1>11 DEF LoanBook

(* The records of n new loans, by place and by id. *)
Numbered(made, n) ==
  /\ n \in Nat /\ next_loan_id \in Nat /\ DOMAIN made = 1..n
  /\ \A i \in 1..n : made[i].loan_id = next_loan_id + i - 1

(* Their ids follow each other, and by id they are the same records.       *)
LEMMA IdsMade ==
  ASSUME NEW made, NEW n, Numbered(made, n)
  PROVE  /\ IdsOf(made) \in ListOf(Nat) /\ Ascending(IdsOf(made))
         /\ \A x : InSeq(IdsOf(made), x) <=> x \in DOMAIN ById(made)
         /\ \A i \in 1..n : /\ next_loan_id + i - 1 \in DOMAIN ById(made)
                            /\ ById(made)[next_loan_id + i - 1] = made[i]
         /\ \A id \in DOMAIN ById(made) :
              /\ id \in Nat /\ next_loan_id <= id /\ id < next_loan_id + n
              /\ \E i \in 1..n : id = next_loan_id + i - 1 /\ ById(made)[id] = made[i]
<1> DEFINE m == next_loan_id
           ids == IdsOf(made)
           recs == ById(made)
<1>1. /\ n \in Nat /\ m \in Nat /\ DOMAIN made = 1..n
      /\ \A i \in 1..n : made[i].loan_id = m + i - 1
  BY DEF Numbered
<1>2. ids = [i \in 1..n |-> m + i - 1]
  BY <1>1 DEF IdsOf
<1>3. /\ DOMAIN recs = {m + i - 1 : i \in 1..n}
      /\ \A id \in DOMAIN recs : recs[id] = made[id - m + 1]
  BY <1>1 DEF ById
<1> HIDE DEF m, ids, recs
<1>4. \A i \in 1..n : m + i - 1 \in Nat /\ (m + i - 1) - m + 1 = i /\ m <= m + i - 1 /\ m + i - 1 < m + n
  BY ONLY <1>1
<1>5. ids \in ListOf(Nat)
  BY ONLY <1>1, <1>2, <1>4 DEF ListOf
<1>6. Ascending(ids)
  BY ONLY <1>1, <1>2 DEF Ascending
<1>7. \A x : InSeq(ids, x) <=> x \in DOMAIN recs
  <2>1. DOMAIN ids = 1..n /\ \A i \in 1..n : ids[i] = m + i - 1
    BY <1>2
  <2> QED BY ONLY <1>3, <2>1 DEF InSeq
<1>8. \A i \in 1..n : m + i - 1 \in DOMAIN recs /\ recs[m + i - 1] = made[i]
  BY ONLY <1>3, <1>4
<1>9. ASSUME NEW id \in DOMAIN recs
      PROVE  /\ id \in Nat /\ m <= id /\ id < m + n
             /\ \E i \in 1..n : id = m + i - 1 /\ recs[id] = made[i]
  <2>1. PICK i \in 1..n : id = m + i - 1
    BY <1>3
  <2> QED BY <1>4, <1>8, <2>1
<1> QED BY <1>5, <1>6, <1>7, <1>8, <1>9 DEF m, ids, recs

(* What is left of the lists when a borrower's loses the closed loans.     *)
LEMMA ListLeft ==
  ASSUME LoansListed, NEW u, NEW closed, NEW kept, kept = WithoutUserLoans(user_loans, u, closed),
         NEW left, left = Without(UserLoans(u), closed)
  PROVE  /\ \A b : Stored(kept, b, << >>) = IF b = u THEN left ELSE UserLoans(b)
         /\ \A b \in DOMAIN kept : kept[b] # << >>
         /\ left \in ListOf(Nat) /\ Ascending(left)
         /\ \A x : InSeq(left, x) <=> InSeq(UserLoans(u), x) /\ x \notin closed
<1>1. UserLoans(u) \in ListOf(Nat) /\ Ascending(UserLoans(u))
  BY DEF LoansListed
<1>2. /\ left \in ListOf(Nat) /\ Ascending(left)
      /\ \A x : InSeq(left, x) <=> InSeq(UserLoans(u), x) /\ x \notin closed
  BY <1>1, WithoutKeeps
<1>3. kept = IF left = << >> THEN Drop(user_loans, u) ELSE Put(user_loans, u, left)
  BY DEF WithoutUserLoans, UserLoans
<1>4. \A b \in DOMAIN user_loans : user_loans[b] # << >>
  BY DEF LoansListed
<1>5. CASE left = << >>
  BY <1>2, <1>3, <1>4, <1>5 DEF Drop, Stored, UserLoans
<1>6. CASE left # << >>
  BY <1>2, <1>3, <1>4, <1>6 DEF Put, Stored, UserLoans
<1> QED BY <1>5, <1>6

(* The lists after a replacement.                                          *)
LEMMA ListsMade ==
  ASSUME LoansListed, LoansNumbered, NEW u, NEW closed, NEW made, NEW n, Numbered(made, n),
         made = << >> <=> n = 0, Replace(u, closed, made)
  PROVE  ListReplaced(u, closed, ById(made))
<1> DEFINE kept == WithoutUserLoans(user_loans, u, closed)
           left == Without(UserLoans(u), closed)
           ids == IdsOf(made)
           list == left \o ids
           N == DOMAIN ById(made)
<1>1. /\ \A b : Stored(kept, b, << >>) = IF b = u THEN left ELSE UserLoans(b)
      /\ \A b \in DOMAIN kept : kept[b] # << >>
      /\ left \in ListOf(Nat) /\ Ascending(left)
      /\ \A x : InSeq(left, x) <=> InSeq(UserLoans(u), x) /\ x \notin closed
  BY ListLeft
<1>2. /\ ids \in ListOf(Nat) /\ Ascending(ids)
      /\ \A x : InSeq(ids, x) <=> x \in N
      /\ \A id \in N : next_loan_id <= id /\ id \in Nat
      /\ next_loan_id \in N \/ n = 0
  <2>1. n # 0 => next_loan_id \in N
    <3>1. ASSUME n # 0 PROVE 1 \in 1..n /\ next_loan_id + 1 - 1 = next_loan_id
      BY <3>1 DEF Numbered
    <3> QED BY <3>1, IdsMade
  <2> QED BY <2>1, IdsMade
<1>3. \A b : UserLoans(b)' = Stored(user_loans', b, << >>)
  BY DEF UserLoans
<1>4. user_loans' = IF made = << >> THEN kept ELSE Put(kept, u, Stored(kept, u, << >>) \o ids)
  BY DEF Replace, WithUserLoans
<1> HIDE DEF kept, left, ids, N
<1>5. CASE n = 0
  <2>1. user_loans' = kept
    BY <1>4, <1>5
  <2>2. N = {}
    <3>1. \A i : i \notin 1..0
      OBVIOUS
    <3> QED BY <1>5, <3>1, IdsMade DEF N
  <2> QED BY <1>1, <1>3, <2>1, <2>2 DEF ListReplaced, N
<1>6. CASE n # 0
  <2>1. user_loans' = Put(kept, u, list)
    BY <1>1, <1>4, <1>6
  <2>2. \A x, y : InSeq(left, x) /\ InSeq(ids, y) => x < y
    <3> SUFFICES ASSUME NEW x, NEW y, InSeq(left, x), InSeq(ids, y) PROVE x < y
      OBVIOUS
    <3>1. x \in DOMAIN loan_by_id
      BY <1>1 DEF LoansListed
    <3>2. x < next_loan_id
      BY <3>1 DEF LoansNumbered
    <3>3. next_loan_id <= y /\ y \in Nat /\ next_loan_id \in Nat
      BY <1>2 DEF Numbered
    <3>4. x \in Nat
      BY <1>1 DEF InSeq, ListOf
    <3> QED BY <3>2, <3>3, <3>4
  <2>3. /\ list \in ListOf(Nat) /\ Ascending(list)
        /\ \A x : InSeq(list, x) <=> InSeq(left, x) \/ InSeq(ids, x)
    BY <1>1, <1>2, <2>2, ConcatKeeps
  <2>4. list # << >>
    <3>1. InSeq(list, next_loan_id)
      BY <1>2, <1>6, <2>3
    <3> QED BY <3>1 DEF InSeq
  <2> HIDE DEF list
  <2>5. \A b : Stored(user_loans', b, << >>) = IF b = u THEN list ELSE UserLoans(b)
    BY <1>1, <2>1 DEF Put, Stored
  <2>6. \A b \in DOMAIN user_loans' : user_loans'[b] # << >>
    BY <1>1, <2>1, <2>4 DEF Put
  <2>7. /\ UserLoans(u)' = list /\ \A b : b # u => UserLoans(b)' = UserLoans(b)
    BY <1>3, <2>5
  <2> QED BY <1>1, <1>2, <2>3, <2>6, <2>7 DEF ListReplaced, N
<1> QED BY <1>5, <1>6

(* The loans made, each a record of the borrower.                          *)
MadeFor(u, made, n) ==
  /\ Numbered(made, n) /\ (made = << >> <=> n = 0)
  /\ \A i \in 1..n : made[i] \in LoanRecord /\ made[i].borrower = u

(* New loans of a borrower take the place of some of his. *)
LEMMA LoansTurned ==
  ASSUME LoanBook, NEW u, NEW closed, OwnLoans(u, closed), NEW made, NEW n, MadeFor(u, made, n),
         n # 0, Len(made) = n, Opened(u, made), Replace(u, closed, made)
  PROVE  Turnover(u, closed, ById(made))
<1> DEFINE recs == ById(made)
           last == next_loan_id + n - 1
<1>1. Numbered(made, n) /\ (made = << >> <=> n = 0)
  BY DEF MadeFor
<1>2. n \in Nat /\ next_loan_id \in Nat /\ next_loan_id' = next_loan_id + n
  BY <1>1 DEF Numbered, Opened
<1>3. /\ \A i \in 1..n : next_loan_id + i - 1 \in DOMAIN recs /\ recs[next_loan_id + i - 1] = made[i]
      /\ \A id \in DOMAIN recs :
           /\ id \in Nat /\ next_loan_id <= id /\ id < next_loan_id + n
           /\ \E i \in 1..n : id = next_loan_id + i - 1 /\ recs[id] = made[i]
  BY <1>1, IdsMade
<1>4. Fresh(u, recs)
  <2>1. ASSUME NEW id \in DOMAIN recs
        PROVE  recs[id] \in LoanRecord /\ recs[id].loan_id = id /\ recs[id].borrower = u
    <3>1. PICK i \in 1..n : id = next_loan_id + i - 1 /\ recs[id] = made[i]
      BY <1>3
    <3>2. made[i] \in LoanRecord /\ made[i].borrower = u /\ made[i].loan_id = next_loan_id + i - 1
      BY DEF MadeFor, Numbered
    <3> HIDE DEF recs
    <3> QED BY <3>1, <3>2
  <2> HIDE DEF recs
  <2> QED BY <1>2, <1>3, <2>1 DEF Fresh
<1>5. RecordsReplaced(closed, recs)
  BY DEF RecordsReplaced, Replace
<1>6. n \in 1..n
  BY <1>2
<1>7. /\ loans' = Put(loans, u, made[n])
      /\ made[n].loan_id = last /\ last \in DOMAIN recs /\ recs[last] = made[n]
  <2>1. made[n].loan_id = last
    BY <1>1, <1>6 DEF Numbered
  <2>2. last \in DOMAIN recs /\ recs[last] = made[n]
    BY <1>3, <1>6
  <2>3. loans' = Put(loans, u, made[n])
    BY DEF Opened
  <2> QED BY <2>1, <2>2, <2>3
<1> HIDE DEF recs, last
<1>8. PrimaryReplaced(u, recs)
  BY <1>7 DEF PrimaryReplaced, Put
<1>9. ListReplaced(u, closed, recs)
  BY <1>1, ListsMade DEF LoanBook, recs
<1>10. next_loan_id' \in Nat /\ next_loan_id <= next_loan_id'
  BY <1>2
<1> QED BY <1>2, <1>4, <1>5, <1>8, <1>9, <1>10 DEF Turnover, recs

(* A loan is closed and none is made. *)
LEMMA LoanTurned ==
  ASSUME LoanBook, NEW u, NEW closed, OwnLoans(u, closed), next_loan_id \in Nat,
         loans' = Drop(loans, u), UNCHANGED next_loan_id, Replace(u, closed, << >>)
  PROVE  Turnover(u, closed, ById(<< >>)) /\ DOMAIN ById(<< >>) = {}
<1> DEFINE made == << >>
           n == 0
<1>1. DOMAIN ById(made) = {}
  BY DEF ById
<1>2. Numbered(made, n) /\ (made = << >> <=> n = 0)
  BY DEF Numbered
<1>3. Replace(u, closed, made)
  OBVIOUS
<1> DEFINE recs == ById(made)
<1>4. RecordsReplaced(closed, recs)
  BY DEF RecordsReplaced, Replace
<1> HIDE DEF made, n
<1>5. ListReplaced(u, closed, recs)
  BY <1>2, <1>3, ListsMade DEF LoanBook
<1> HIDE DEF recs
<1>6. PrimaryReplaced(u, recs)
  BY DEF PrimaryReplaced, Drop
<1>7. Fresh(u, recs)
  BY <1>1 DEF Fresh, recs
<1>8. next_loan_id <= next_loan_id'
  OBVIOUS
<1>9. Turnover(u, closed, recs)
  BY <1>4, <1>5, <1>6, <1>7, <1>8 DEF Turnover
<1> QED BY <1>1, <1>9 DEF recs, made

(* What a loan made from another one keeps of it and is given. *)
LEMMA TermsKept ==
  ASSUME NEW loan \in LoanRecord, NEW id, NEW principal, NEW collateral, NEW days,
         NEW made, made = NewTerms(loan, id, principal, collateral, days)
  PROVE  /\ made.borrower = loan.borrower /\ made.principal = principal
         /\ made.asset = loan.asset /\ made.loan_id = id
         /\ made.collateral_amount = collateral
         /\ made.collateral_token = loan.collateral_token
<1> DEFINE due == clock + days
           rate == CurrentRate(pools[loan.asset])
           F == {"loan_id", "borrower", "asset", "principal", "collateral_amount",
                 "collateral_token", "borrow_time", "due_date", "interest_rate_bps"}
           l1 == [loan EXCEPT !.loan_id = id]
           l2 == [l1 EXCEPT !.principal = principal]
           l3 == [l2 EXCEPT !.collateral_amount = collateral]
           l4 == [l3 EXCEPT !.borrow_time = clock]
           l5 == [l4 EXCEPT !.due_date = due]
           l6 == [l5 EXCEPT !.interest_rate_bps = rate]
           Same(l, k) == /\ l.borrower = k.borrower /\ l.asset = k.asset
                         /\ l.collateral_token = k.collateral_token
<1>1. made = l6
  BY DEF NewTerms
<1>2. DOMAIN loan = F
  BY DEF LoanRecord
<1> HIDE DEF due, rate
<1>3. DOMAIN l1 = F /\ Same(l1, loan) /\ l1.loan_id = id
  BY <1>2
<1> HIDE DEF l1
<1>4. DOMAIN l2 = F /\ Same(l2, l1) /\ l2.loan_id = l1.loan_id /\ l2.principal = principal
  BY <1>3
<1> HIDE DEF l2
<1>5. /\ DOMAIN l3 = F /\ Same(l3, l2) /\ l3.loan_id = l2.loan_id /\ l3.principal = l2.principal
      /\ l3.collateral_amount = collateral
  BY <1>4
<1> HIDE DEF l3
<1>6. /\ DOMAIN l4 = F /\ Same(l4, l3) /\ l4.loan_id = l3.loan_id /\ l4.principal = l3.principal
      /\ l4.collateral_amount = l3.collateral_amount
  BY <1>5
<1> HIDE DEF l4
<1>7. /\ DOMAIN l5 = F /\ Same(l5, l4) /\ l5.loan_id = l4.loan_id /\ l5.principal = l4.principal
      /\ l5.collateral_amount = l4.collateral_amount
  BY <1>6
<1> HIDE DEF l5
<1>8. /\ Same(l6, l5) /\ l6.loan_id = l5.loan_id /\ l6.principal = l5.principal
      /\ l6.collateral_amount = l5.collateral_amount
  BY <1>7
<1> HIDE DEF l6
<1> QED BY <1>1, <1>3, <1>4, <1>5, <1>6, <1>7, <1>8

(* A call in which n new loans of a borrower take the place of some of his. *)
NewLoans(u, closed, made, n) ==
  /\ OwnLoans(u, closed) /\ MadeFor(u, made, n) /\ n # 0 /\ Len(made) = n
  /\ Opened(u, made) /\ Replace(u, closed, made)

(* The numbers of loans and their records, as PoolsSound types them. *)
LEMMA BookTyped ==
  ASSUME PoolsSound
  PROVE  next_loan_id \in Nat /\ clock \in Nat /\ PoolsTyped /\ IsMap(loan_by_id, Nat, LoanRecord)
BY DEF PoolsSound, LoansTyped

(* One new loan. *)
LEMMA OneMade ==
  ASSUME PoolsSound, NEW u, NEW closed, OwnLoans(u, closed),
         NEW loan \in LoanRecord, loan.loan_id = next_loan_id, loan.borrower = u,
         Opened(u, <<loan>>), Replace(u, closed, <<loan>>)
  PROVE  NewLoans(u, closed, <<loan>>, 1)
<1> DEFINE made == <<loan>>
<1>1. /\ DOMAIN made = 1..1 /\ Len(made) = 1 /\ made[1] = loan /\ made # << >>
  OBVIOUS
<1>2. next_loan_id \in Nat
  BY BookTyped
<1>3. \A i \in 1..1 : i = 1
  OBVIOUS
<1>4. next_loan_id + 1 - 1 = next_loan_id
  BY <1>2
<1>5. Opened(u, made) /\ Replace(u, closed, made)
  OBVIOUS
<1> HIDE DEF made
<1>6. Numbered(made, 1)
  BY <1>1, <1>2, <1>3, <1>4 DEF Numbered
<1>7. MadeFor(u, made, 1)
  BY <1>1, <1>3, <1>6 DEF MadeFor
<1>8. NewLoans(u, closed, made, 1)
  BY <1>1, <1>5, <1>7 DEF NewLoans
<1> QED BY <1>8 DEF made

(* The primary loan of a borrower is one of those kept by id. *)
LEMMA PrimaryListed ==
  ASSUME LoanBook, NEW u, HasLoan(u)
  PROVE  /\ Primary(u).borrower = u /\ Primary(u).loan_id \in DOMAIN loan_by_id
         /\ loan_by_id[Primary(u).loan_id] = Primary(u)
         /\ OwnLoans(u, {Primary(u).loan_id})
BY DEF LoanBook, LoansNumbered, HasLoan, Primary, OwnLoans

(* What borrowing makes. *)
LEMMA BorrowMakes ==
  ASSUME PoolsSound, NEW u \in Account, NEW a \in Tokens, NEW request \in LoanRequest,
         NEW t \in CollateralToken, NEW days \in LoanDays,
         Borrow(u, a, request.amount, t, request.collateral, days)
  PROVE  \E loan : /\ NewLoans(u, {}, <<loan>>, 1)
                   /\ loan.asset = a /\ loan.principal = request.amount
                   /\ loan.collateral_token = t
                   /\ loan.collateral_amount = request.collateral
<1> DEFINE amount == request.amount
           b == pools[a].total_borrowed + amount
           pool == [pools[a] EXCEPT !.total_borrowed = b]
           rate == CurrentRate(pool)
           loan == [loan_id |-> next_loan_id, borrower |-> u, asset |-> a,
                    principal |-> amount, collateral_amount |-> request.collateral,
                    collateral_token |-> t, borrow_time |-> clock,
                    due_date |-> clock + days, interest_rate_bps |-> rate]
<1>1. /\ amount \in Nat /\ request.collateral \in Nat /\ t \in Tokens /\ days \in Nat
  BY LendingArguments
<1>2. clock \in Nat /\ next_loan_id \in Nat
  BY BookTyped
<1>3. a \in DOMAIN pools /\ Opened(u, <<loan>>) /\ Replace(u, {}, <<loan>>)
  BY DEF Borrow, Running, Supported
<1>4. pools[a] \in PoolState /\ pools[a].total_borrowed \in Nat
  BY <1>3, PoolFields DEF PoolsSound
<1>5. b \in Nat
  BY <1>1, <1>4
<1>6. pool \in PoolState
  <2> DEFINE old == pools[a]
  <2> HIDE DEF b, old
  <2>1. [old EXCEPT !.total_borrowed = b] \in PoolState
    BY <1>4, <1>5 DEF PoolState, old
  <2> QED BY <2>1 DEF old
<1> HIDE DEF pool
<1>8. rate \in Nat
  BY <1>6, RateTyped
<1>10. clock + days \in Nat
  BY <1>1, <1>2
<1>11. /\ loan \in LoanRecord /\ loan.loan_id = next_loan_id /\ loan.asset = a
       /\ loan.borrower = u /\ loan.principal = amount
       /\ loan.collateral_token = t /\ loan.collateral_amount = request.collateral
  <2> DEFINE due == clock + days
  <2> HIDE DEF rate, due, amount
  <2> QED BY <1>1, <1>2, <1>8, <1>10 DEF LoanRecord, due
<1> HIDE DEF loan
<1>12. OwnLoans(u, {})
  BY DEF OwnLoans
<1>13. NewLoans(u, {}, <<loan>>, 1)
  BY <1>3, <1>11, <1>12, OneMade
<1> QED BY <1>11, <1>13

(* What a refinancing makes of the primary loan. *)
LEMMA RefinanceMakes ==
  ASSUME PoolsSound, LoanBook, NEW u, NEW days \in Nat, RefinanceLoan(u, days)
  PROVE  /\ HasLoan(u)
         /\ \E loan : /\ NewLoans(u, {Primary(u).loan_id}, <<loan>>, 1)
                      /\ loan.asset = Primary(u).asset /\ Primary(u).principal <= loan.principal
                      /\ loan.collateral_token = Primary(u).collateral_token
                      /\ loan.collateral_amount = Primary(u).collateral_amount
<1> DEFINE loan == Primary(u)
           outstanding == OutstandingBalance(loan)
           fee == BasisPoints(outstanding, REFINANCING_FEE_BPS)
           owed == outstanding + fee
           new == NewTerms(loan, next_loan_id, owed, loan.collateral_amount, days)
<1>1. HasLoan(u) /\ Opened(u, <<new>>) /\ Replace(u, {loan.loan_id}, <<new>>)
  BY DEF RefinanceLoan
<1>2. /\ loan \in LoanRecord /\ loan.asset \in DOMAIN pools /\ loan.collateral_amount \in Nat
      /\ loan.borrower = u /\ OwnLoans(u, {loan.loan_id})
  BY <1>1, PrimaryTyped, PrimaryListed DEF Served
<1>3. clock \in Nat /\ next_loan_id \in Nat /\ PoolsTyped
  BY BookTyped
<1>4. outstanding \in Nat /\ loan.principal \in Nat /\ outstanding - loan.principal \in Nat
  BY <1>2, <1>3, LoanAmounts
<1>5. fee \in Nat
  BY <1>4, FeeTyped
<1> HIDE DEF fee, outstanding
<1>6. owed \in Nat /\ loan.principal <= owed
  BY <1>4, <1>5
<1> HIDE DEF owed
<1>7. /\ new \in LoanRecord /\ new.loan_id = next_loan_id /\ new.asset = loan.asset
      /\ new.borrower = u /\ new.principal = owed
      /\ new.collateral_amount = loan.collateral_amount
      /\ new.collateral_token = loan.collateral_token
  <2> HIDE DEF loan
  <2>1. Amounts(next_loan_id, owed, loan.collateral_amount, days)
    BY <1>2, <1>3, <1>6 DEF Amounts
  <2>2. new \in LoanRecord /\ new.loan_id = next_loan_id /\ new.asset = loan.asset
    BY <1>2, <1>3, <2>1, TermsTyped
  <2>3. /\ new.borrower = loan.borrower /\ new.principal = owed
        /\ new.collateral_amount = loan.collateral_amount
        /\ new.collateral_token = loan.collateral_token
    BY <1>2, TermsKept
  <2> QED BY <1>2, <2>2, <2>3
<1> HIDE DEF loan, new
<1>8. NewLoans(u, {loan.loan_id}, <<new>>, 1)
  BY <1>1, <1>2, <1>7, OneMade
<1> QED BY <1>1, <1>6, <1>7, <1>8 DEF loan

(* The loan that loans are put together in. *)
Gathered(ids) == {ids[i] : i \in DOMAIN ids}

DebtsGathered(ids) == [i \in DOMAIN ids |-> OutstandingBalance(loan_by_id[ids[i]])]

PledgesGathered(ids) == [i \in DOMAIN ids |-> loan_by_id[ids[i]].collateral_amount]

MadeOfLoans(u, ids, loan) ==
  /\ NewLoans(u, Gathered(ids), <<loan>>, 1)
  /\ \A id \in Gathered(ids) : /\ loan_by_id[id].asset = loan.asset
                                /\ loan_by_id[id].collateral_token = loan.collateral_token
  /\ Total(DebtsGathered(ids)) \in Nat /\ loan.principal \in Nat
  /\ Total(DebtsGathered(ids)) <= loan.principal
  /\ loan.collateral_amount = Total(PledgesGathered(ids))

(* What a consolidation makes of the loans with the ids given. *)
LEMMA ConsolidateMakes ==
  ASSUME PoolsSound, NEW u, NEW ids \in Seq(Nat), NEW days \in Nat, ConsolidateLoans(u, ids, days)
  PROVE  \E loan : MadeOfLoans(u, ids, loan)
<1> DEFINE closed == {ids[i] : i \in DOMAIN ids}
           debts == [i \in DOMAIN ids |-> OutstandingBalance(loan_by_id[ids[i]])]
           first == loan_by_id[ids[1]]
           pledges == [i \in DOMAIN ids |-> loan_by_id[ids[i]].collateral_amount]
           outstanding == Total(debts)
           collateral == Total(pledges)
           fee == BasisPoints(outstanding, REFINANCING_FEE_BPS)
           owed == outstanding + fee
           new == NewTerms(first, next_loan_id, owed, collateral, days)
<1>1. /\ 1 <= Len(ids) /\ \A i \in DOMAIN ids : /\ ids[i] \in DOMAIN loan_by_id
                                                /\ loan_by_id[ids[i]].borrower = u
                                                /\ loan_by_id[ids[i]].asset = first.asset
                                                /\ loan_by_id[ids[i]].collateral_token
                                                     = first.collateral_token
      /\ Opened(u, <<new>>) /\ Replace(u, closed, <<new>>)
  BY DEF ConsolidateLoans
<1>2. clock \in Nat /\ next_loan_id \in Nat /\ PoolsTyped
  BY BookTyped
<1>3. /\ \A i \in DOMAIN ids : loan_by_id[ids[i]] \in LoanRecord
      /\ \A i \in DOMAIN ids : Served(loan_by_id[ids[i]].asset, pools)
  BY <1>1 DEF PoolsSound, LoansTyped, IsMap
<1>4. IsFiniteSet(DOMAIN ids) /\ 1 \in DOMAIN ids
  <2>1. DOMAIN ids = 1..Len(ids) /\ Len(ids) \in Nat
    OBVIOUS
  <2> QED BY <1>1, <2>1, FS_Interval
<1>5. first \in LoanRecord /\ first.borrower = u /\ first.asset \in DOMAIN pools
  BY <1>1, <1>3, <1>4 DEF Served
<1>6. outstanding \in Nat
  <2>1. \A i \in DOMAIN debts : debts[i] \in Nat
    BY <1>2, <1>3, LoanAmounts
  <2>2. DOMAIN debts = DOMAIN ids
    OBVIOUS
  <2> QED BY <1>4, <2>1, <2>2, TotalOfNats
<1>7. collateral \in Nat
  <2>1. \A i \in DOMAIN pledges : pledges[i] \in Nat
    BY <1>3 DEF LoanRecord
  <2>2. DOMAIN pledges = DOMAIN ids
    OBVIOUS
  <2> HIDE DEF pledges
  <2> QED BY <1>4, <2>1, <2>2, TotalOfNats
<1> HIDE DEF outstanding, collateral
<1>8. fee \in Nat
  BY <1>6, FeeTyped
<1> HIDE DEF fee
<1>9. owed \in Nat /\ outstanding <= owed
  BY <1>6, <1>8
<1> HIDE DEF owed
<1>10. /\ new \in LoanRecord /\ new.loan_id = next_loan_id /\ new.asset = first.asset
       /\ new.borrower = u /\ new.principal = owed
       /\ new.collateral_amount = collateral
       /\ new.collateral_token = first.collateral_token
  <2> HIDE DEF first
  <2>1. Amounts(next_loan_id, owed, collateral, days)
    BY <1>2, <1>7, <1>9 DEF Amounts
  <2>2. new \in LoanRecord /\ new.loan_id = next_loan_id /\ new.asset = first.asset
    BY <1>2, <1>5, <2>1, TermsTyped
  <2>3. /\ new.borrower = first.borrower /\ new.principal = owed
        /\ new.collateral_amount = collateral
        /\ new.collateral_token = first.collateral_token
    BY <1>5, TermsKept
  <2> QED BY <1>5, <2>2, <2>3
<1>11. /\ OwnLoans(u, closed)
       /\ \A id \in closed : /\ loan_by_id[id].asset = first.asset
                              /\ loan_by_id[id].collateral_token = first.collateral_token
  <2> HIDE DEF first
  <2> QED BY <1>1 DEF OwnLoans
<1> HIDE DEF first, new
<1>12. NewLoans(u, closed, <<new>>, 1)
  BY <1>1, <1>10, <1>11, OneMade
<1>13. /\ NewLoans(u, closed, <<new>>, 1) /\ new.principal \in Nat
       /\ \A id \in closed : /\ loan_by_id[id].asset = new.asset
                              /\ loan_by_id[id].collateral_token = new.collateral_token
       /\ outstanding \in Nat /\ outstanding <= new.principal
       /\ new.collateral_amount = collateral
  BY <1>6, <1>9, <1>10, <1>11, <1>12
<1>14. /\ closed = Gathered(ids) /\ outstanding = Total(DebtsGathered(ids))
       /\ collateral = Total(PledgesGathered(ids))
  BY DEF Gathered, DebtsGathered, PledgesGathered, outstanding, collateral
<1> HIDE DEF closed
<1>15. MadeOfLoans(u, ids, new)
  BY <1>13, <1>14 DEF MadeOfLoans
<1> QED BY <1>15

(* The loans of the parts of a loan. *)
MadeOfParts(u, parts, made) ==
  /\ NewLoans(u, {Primary(u).loan_id}, made, Len(parts)) /\ DOMAIN made = DOMAIN parts
  /\ \A i \in DOMAIN parts :
       /\ made[i].asset = Primary(u).asset /\ made[i].principal = parts[i]
       /\ made[i].collateral_token = Primary(u).collateral_token
       /\ made[i].collateral_amount = SplitCollateral(Primary(u), parts[i], Total(parts))

(* What a split makes of the primary loan. *)
LEMMA SplitMakes ==
  ASSUME PoolsSound, LoanBook, NEW u, NEW parts \in Seq(Nat), NEW days \in Nat,
         SplitLoan(u, parts, days)
  PROVE  /\ HasLoan(u) /\ Primary(u).principal \in Nat /\ Total(parts) \in Nat
         /\ Primary(u).principal <= Total(parts)
         /\ \E made : MadeOfParts(u, parts, made)
<1> DEFINE loan == Primary(u)
           outstanding == OutstandingBalance(loan)
           terms(i) == NewTerms(loan, next_loan_id + i - 1, parts[i],
                                SplitCollateral(loan, parts[i], outstanding), days)
           made == [i \in DOMAIN parts |-> terms(i)]
           n == Len(parts)
           closed == {loan.loan_id}
<1>1. /\ 1 <= n /\ HasLoan(u) /\ Total(parts) = outstanding
      /\ Opened(u, made) /\ Replace(u, closed, made)
  BY DEF SplitLoan
<1>2. /\ loan \in LoanRecord /\ loan.asset \in DOMAIN pools
      /\ loan.borrower = u /\ OwnLoans(u, closed)
  BY <1>1, PrimaryTyped, PrimaryListed DEF Served
<1>3. clock \in Nat /\ next_loan_id \in Nat /\ PoolsTyped
  BY BookTyped
<1>4. outstanding \in Nat /\ loan.principal \in Nat /\ outstanding - loan.principal \in Nat
  BY <1>2, <1>3, LoanAmounts
<1>6. n \in Nat \ {0} /\ DOMAIN parts = 1..n /\ \A i \in 1..n : parts[i] \in Nat
  BY <1>1
<1>7. DOMAIN made = 1..n /\ Len(made) = n
  <2> HIDE DEF terms, n
  <2> QED BY <1>6
<1> HIDE DEF outstanding, n, loan
<1>8. ASSUME NEW i \in 1..n
      PROVE  /\ made[i] \in LoanRecord /\ made[i].loan_id = next_loan_id + i - 1
             /\ made[i].asset = loan.asset /\ made[i].borrower = u /\ made[i].principal = parts[i]
             /\ made[i].collateral_token = loan.collateral_token
             /\ made[i].collateral_amount = SplitCollateral(loan, parts[i], outstanding)
  <2> DEFINE id == next_loan_id + i - 1
             part == parts[i]
             pledge == SplitCollateral(loan, part, outstanding)
  <2>1. made[i] = NewTerms(loan, id, part, pledge, days)
    BY <1>6
  <2>2. id \in Nat
    BY <1>3, <1>6
  <2>3. part \in Nat
    BY <1>6
  <2> HIDE DEF part
  <2>4. pledge \in Nat
    BY <1>2, <1>4, <2>3, PartTyped
  <2> HIDE DEF id, pledge, made
  <2>5. Amounts(id, part, pledge, days)
    BY <2>2, <2>3, <2>4 DEF Amounts
  <2>6. made[i] \in LoanRecord /\ made[i].loan_id = id /\ made[i].asset = loan.asset
    BY <1>2, <1>3, <2>1, <2>5, TermsTyped
  <2>7. /\ made[i].borrower = loan.borrower /\ made[i].principal = part
        /\ made[i].collateral_amount = pledge
        /\ made[i].collateral_token = loan.collateral_token
    BY <1>2, <2>1, TermsKept
  <2> QED BY <1>2, <2>6, <2>7 DEF id, part, pledge
<1>9. loan.principal <= outstanding
  BY <1>4
<1> HIDE DEF made
<1>10. made # << >> /\ n # 0
  BY <1>6, <1>7
<1>11. Numbered(made, n)
  BY <1>3, <1>6, <1>7, <1>8 DEF Numbered
<1>12. MadeFor(u, made, n)
  BY <1>8, <1>10, <1>11 DEF MadeFor
<1>13. NewLoans(u, closed, made, n)
  BY <1>1, <1>2, <1>7, <1>10, <1>12 DEF NewLoans
<1>14. MadeOfParts(u, parts, made)
  BY <1>1, <1>6, <1>7, <1>8, <1>13 DEF n, loan, MadeOfParts
<1> QED BY <1>1, <1>4, <1>9, <1>14 DEF loan

-----------------------------------------------------------------------------
(* Lending: the loans, their list and their NFTs through a call. *)

(* What a call does to them: nothing, an NFT moves, new loans take the     *)
(* place of some, or the primary loan is closed.                           *)
LoansStay == UNCHANGED <<loans, loan_by_id, user_loans, next_loan_id>>

OnlyNftsMove ==
  /\ LoansStay
  /\ \/ UNCHANGED nft /\ (nft_token => nft_token')
     \/ /\ UNCHANGED nft_token
        /\ \E from, to, id :
             \/ NftTransfer(from, to, id)
             \/ \E spender : NftTransferFrom(spender, from, to, id)
             \/ NftApprove(from, to, id)
             \/ \E approved : NftSetApprovalForAll(from, to, approved)

LoansMade == UNCHANGED nft_token /\ \E u, closed, made, n : NewLoans(u, closed, made, n)

LoanPaid(u) ==
  /\ HasLoan(u) /\ loans' = Drop(loans, u) /\ UNCHANGED <<next_loan_id, nft_token>>
  /\ Replace(u, {Primary(u).loan_id}, << >>)

LoanCall == OnlyNftsMove \/ LoansMade \/ \E u : LoanPaid(u)

(* Borrowers' calls with loans are such calls. *)
LEMMA BorrowersCall ==
  ASSUME PoolsSound, LoanBook, BorrowNext \/ RefinanceNext
  PROVE  LoanCall
<1>1. ASSUME NEW u \in Account, NEW a \in Tokens, NEW request \in LoanRequest,
             NEW t \in CollateralToken, NEW days \in LoanDays,
             Borrow(u, a, request.amount, t, request.collateral, days)
      PROVE  LoanCall
  <2>1. UNCHANGED nft_token
    BY <1>1 DEF Borrow, lendingAdminVars
  <2>2. \E loan : NewLoans(u, {}, <<loan>>, 1)
    BY <1>1, BorrowMakes
  <2> QED BY <2>1, <2>2 DEF LoanCall, LoansMade
<1>2. ASSUME NEW u \in Account, Repay(u) PROVE LoanCall
  <2>1. LoanPaid(u)
    BY <1>2 DEF Repay, LoanPaid, lendingAdminVars
  <2> QED BY <2>1 DEF LoanCall
<1>3. LoanDays \subseteq Nat /\ LoanIds \subseteq Seq(Nat) /\ SplitParts \subseteq Seq(Nat)
  BY LendingArguments
<1>4. ASSUME NEW u \in Account, NEW days \in Nat, RefinanceLoan(u, days) PROVE LoanCall
  <2>1. UNCHANGED nft_token
    BY <1>4 DEF RefinanceLoan, lendingAdminVars
  <2>2. \E loan : NewLoans(u, {Primary(u).loan_id}, <<loan>>, 1)
    BY <1>4, RefinanceMakes
  <2> QED BY <2>1, <2>2 DEF LoanCall, LoansMade
<1>5. ASSUME NEW u \in Account, NEW days \in Nat, NEW ids \in Seq(Nat),
             ConsolidateLoans(u, ids, days)
      PROVE  LoanCall
  <2>1. UNCHANGED nft_token
    BY <1>5 DEF ConsolidateLoans, lendingAdminVars
  <2>2. \E loan : NewLoans(u, Gathered(ids), <<loan>>, 1)
    BY <1>5, ConsolidateMakes DEF MadeOfLoans
  <2> QED BY <2>1, <2>2 DEF LoanCall, LoansMade
<1>6. ASSUME NEW u \in Account, NEW days \in Nat, NEW parts \in Seq(Nat),
             SplitLoan(u, parts, days)
      PROVE  LoanCall
  <2>1. UNCHANGED nft_token
    BY <1>6 DEF SplitLoan, lendingAdminVars
  <2>2. \E made : NewLoans(u, {Primary(u).loan_id}, made, Len(parts))
    BY <1>6, SplitMakes DEF MadeOfParts
  <2> QED BY <2>1, <2>2 DEF LoanCall, LoansMade
<1>7. CASE BorrowNext
  BY <1>1, <1>2, <1>7 DEF BorrowNext
<1>8. CASE RefinanceNext
  <2>1. PICK u \in Account, days \in LoanDays :
          \/ RefinanceLoan(u, days)
          \/ \E ids \in LoanIds : ConsolidateLoans(u, ids, days)
          \/ \E parts \in SplitParts : SplitLoan(u, parts, days)
    BY <1>8 DEF RefinanceNext
  <2> QED BY <1>3, <1>4, <1>5, <1>6, <2>1
<1> QED BY <1>7, <1>8

(* Every step is one. *)
LEMMA EveryCall ==
  ASSUME PoolsSound, LoanBook, [LendingNext]_<<clock, lendingVars>>
  PROVE  LoanCall
<1>1. ASSUME UNCHANGED loanVars, UNCHANGED lendingAdminVars \/ UNCHANGED nft_token \/ nft_token'
      PROVE  LoanCall
  <2>1. nft_token => nft_token'
    BY <1>1 DEF lendingAdminVars
  <2> QED BY <1>1, <2>1 DEF LoanCall, OnlyNftsMove, LoansStay, loanVars
<1>2. CASE UNCHANGED lendingVars
  BY <1>1, <1>2 DEF lendingVars
<1>3. CASE ShareNext
  <2>1. ASSUME NEW u, NEW a, NEW n, PoolDeposit(u, a, n) \/ PoolWithdraw(u, a, n)
        PROVE  UNCHANGED loanVars /\ UNCHANGED lendingAdminVars
    BY <2>1 DEF PoolDeposit, PoolWithdraw
  <2>2. UNCHANGED loanVars /\ UNCHANGED lendingAdminVars
    BY <1>3, <2>1 DEF ShareNext
  <2> QED BY <1>1, <2>2
<1>4. CASE YieldNext
  <2>1. PICK a \in Tokens, u \in Account :
          \/ \E amount \in PriorityAmount : WithdrawPriority(u, a, amount)
          \/ \E amount \in ReserveAmount, to \in Account : PayReserves(u, a, amount, to)
          \/ \E amount \in FlashAmount, returned \in FlashReturn :
               FlashLoan(u, a, amount, returned)
    BY <1>4 DEF YieldNext
  <2> QED BY <1>1, <2>1 DEF WithdrawPriority, PayReserves, FlashLoan
<1>5. CASE LiquidateNext
  BY <1>1, <1>5 DEF LiquidateNext, LendingLiquidate
<1>6. CASE StakingNext
  <2>1. PICK a \in Tokens :
          \/ \E u \in Account :
               \/ \E n \in ShareAmount : StakeLpTokens(u, a, n) \/ UnstakeLpTokens(u, a, n)
               \/ ClaimRewards(u, a)
               \/ \E rate \in RewardRate : SetRewardRate(u, a, rate)
          \/ GetPendingRewards(a)
    BY <1>6 DEF StakingNext
  <2> QED BY <1>1, <2>1 DEF StakeLpTokens, UnstakeLpTokens, ClaimRewards, SetRewardRate,
       GetPendingRewards
<1>7. CASE NftNext
  <2>1. LoansStay /\ UNCHANGED nft_token
    BY <1>7 DEF NftNext, LoansStay, lendingAdminVars
  <2>2. \E from, to, id :
          \/ NftTransfer(from, to, id)
          \/ \E spender : NftTransferFrom(spender, from, to, id)
          \/ NftApprove(from, to, id)
          \/ \E approved : NftSetApprovalForAll(from, to, approved)
    BY <1>7 DEF NftNext
  <2> QED BY <2>1, <2>2 DEF LoanCall, OnlyNftsMove
<1>8. CASE AdminNext
  <2>1. PICK u \in Account :
          \/ \E a \in NewAsset : AddAssetPool(u, a)
          \/ \E account \in Account, role \in RoleGrant, granted \in BOOLEAN :
               SetLendingRole(u, account, role, granted)
          \/ \E value \in BOOLEAN : SetLendingPaused(u, value)
          \/ \E a \in Tokens, s \in PoolSetting : SetPoolField(u, a, s.field, s.value)
          \/ SetNftToken(u)
          \/ \E t \in CollateralToken, listed \in BOOLEAN : SetCollateral(u, t, listed)
    BY <1>8 DEF AdminNext
  <2>2. ASSUME NEW a, AddAssetPool(u, a) PROVE LoanCall
    BY <1>1, <2>2 DEF AddAssetPool
  <2>3. ASSUME NEW account, NEW role, NEW granted, SetLendingRole(u, account, role, granted)
        PROVE  LoanCall
    BY <1>1, <2>3 DEF SetLendingRole
  <2>4. ASSUME NEW value, SetLendingPaused(u, value) PROVE LoanCall
    BY <1>1, <2>4 DEF SetLendingPaused
  <2>5. ASSUME NEW a, NEW field, NEW value, SetPoolField(u, a, field, value) PROVE LoanCall
    BY <1>1, <2>5 DEF SetPoolField
  <2>6. ASSUME SetNftToken(u) PROVE LoanCall
    BY <1>1, <2>6 DEF SetNftToken
  <2>7. ASSUME NEW t, NEW listed, SetCollateral(u, t, listed) PROVE LoanCall
    BY <1>1, <2>7 DEF SetCollateral
  <2> QED BY <2>1, <2>2, <2>3, <2>4, <2>5, <2>6, <2>7
<1>9. CASE FeeNext
  <2>1. PICK u \in Account :
          \/ \E bps \in FeeBps :
               \/ SetFlashLoanFee(u, bps) \/ SetInsurancePremiumRate(u, bps)
               \/ \E a \in Tokens : SetReserveFactor(u, a, bps)
          \/ \E amount \in InsuranceAmount :
               DepositToInsuranceFund(u, amount) \/ WithdrawFromInsuranceFund(u, amount)
          \/ \E model \in CurveModel : SetRateModel(u, model)
    BY <1>9 DEF FeeNext
  <2>2. ASSUME NEW bps, SetFlashLoanFee(u, bps) \/ SetInsurancePremiumRate(u, bps) PROVE LoanCall
    BY <1>1, <2>2 DEF SetFlashLoanFee, SetInsurancePremiumRate
  <2>3. ASSUME NEW bps, NEW a, SetReserveFactor(u, a, bps) PROVE LoanCall
    BY <1>1, <2>3 DEF SetReserveFactor
  <2>4. ASSUME NEW amount,
               DepositToInsuranceFund(u, amount) \/ WithdrawFromInsuranceFund(u, amount)
        PROVE  LoanCall
    BY <1>1, <2>4 DEF DepositToInsuranceFund, WithdrawFromInsuranceFund
  <2>5. ASSUME NEW model, SetRateModel(u, model) PROVE LoanCall
    BY <1>1, <2>5 DEF SetRateModel
  <2> QED BY <2>1, <2>2, <2>3, <2>4, <2>5
<1>10. CASE BorrowNext \/ RefinanceNext
  BY <1>10, BorrowersCall
<1>11. UNCHANGED <<clock, lendingVars>> => UNCHANGED lendingVars
  OBVIOUS
<1> QED BY <1>2, <1>3, <1>4, <1>5, <1>6, <1>7, <1>8, <1>9, <1>10, <1>11 DEF LendingNext

(* Such a call keeps the book. *)
LEMMA CallKeepsBook ==
  ASSUME PoolsSound, LoanBook, LoanCall
  PROVE  LoanBook'
<1>1. next_loan_id \in Nat /\ IsMap(loan_by_id, Nat, LoanRecord)
  BY BookTyped
<1>2. CASE OnlyNftsMove
  <2>1. /\ loans' = loans /\ loan_by_id' = loan_by_id
        /\ user_loans' = user_loans /\ next_loan_id' = next_loan_id
    BY <1>2 DEF OnlyNftsMove, LoansStay
  <2>2. \A u : UserLoans(u)' = UserLoans(u)
    BY <2>1 DEF UserLoans
  <2>3. LoansListed'
    BY <2>1, <2>2 DEF LoanBook, LoansListed
  <2>4. LoansNumbered'
    BY <2>1 DEF LoanBook, LoansNumbered
  <2> QED BY <2>3, <2>4 DEF LoanBook
<1>3. ASSUME NEW u, NEW closed, NEW made, NEW n, NewLoans(u, closed, made, n) PROVE LoanBook'
  <2>1. Turnover(u, closed, ById(made))
    BY <1>3, LoansTurned DEF NewLoans
  <2> DEFINE recs == ById(made)
  <2> HIDE DEF recs
  <2>2. Turnover(u, closed, recs)
    BY <2>1 DEF recs
  <2> QED BY <1>1, <2>2, TurnoverKeeps
<1>4. ASSUME NEW u, LoanPaid(u) PROVE LoanBook'
  <2> DEFINE closed == {Primary(u).loan_id}
             recs == ById(<< >>)
  <2>1. OwnLoans(u, closed)
    BY <1>4, PrimaryListed DEF LoanPaid
  <2>2. loans' = Drop(loans, u) /\ UNCHANGED next_loan_id /\ Replace(u, closed, << >>)
    BY <1>4 DEF LoanPaid
  <2> HIDE DEF closed
  <2>3. Turnover(u, closed, recs)
    BY <1>1, <2>1, <2>2, LoanTurned
  <2> HIDE DEF recs
  <2> QED BY <1>1, <2>3, TurnoverKeeps
<1> QED BY <1>2, <1>3, <1>4 DEF LoanCall, LoansMade

(* At the start there are no loans. *)
LEMMA BookStarts == LendingStart => LoanBook
<1> SUFFICES ASSUME LendingStart PROVE LoanBook
  OBVIOUS
<1>1. /\ DOMAIN loans = {} /\ DOMAIN loan_by_id = {} /\ DOMAIN user_loans = {}
  BY DEF LendingStart, LendingInit, EmptyMap
<1>2. \A u : UserLoans(u) = << >>
  BY <1>1 DEF UserLoans, Stored
<1>3. << >> \in ListOf(Nat) /\ Ascending(<< >>) /\ \A id : ~InSeq(<< >>, id)
  BY DEF ListOf, Ascending, InSeq
<1>4. LoansListed
  BY <1>1, <1>2, <1>3 DEF LoansListed
<1> QED BY <1>1, <1>4 DEF LoanBook, LoansNumbered

(* The primary loan of a borrower, the loans by id and his list of loans   *)
(* agree through any calls, for any accounts, ids and amounts.             *)
THEOREM LoansAgree == LendingSpec => []LoanIndexAgrees
<1>1. LendingStart => PoolsSound /\ LoanBook
  BY LendingStarts, BookStarts
<1>2. PoolsSound /\ LoanBook /\ [LendingNext]_<<clock, lendingVars>> => PoolsSound' /\ LoanBook'
  BY LendingStep, EveryCall, CallKeepsBook DEF StepKeeps
<1>3. LoanBook => LoanIndexAgrees
  BY BookAgrees
<1> QED BY <1>1, <1>2, <1>3, PTL DEF LendingSpec

-----------------------------------------------------------------------------
(* Lending: the NFTs. *)

NftFields == {"fields", "metadata", "owner", "approved", "operators", "balance", "supply"}

Owned(book, a) == {id \in DOMAIN book.owner : book.owner[id] = a}

(* A book of tokens in which each has an owner, and the balances and the   *)
(* supply count them.                                                      *)
NftsCounted(book) ==
  /\ DOMAIN book = NftFields
  /\ DOMAIN book.owner = DOMAIN book.metadata /\ IsFiniteSet(DOMAIN book.metadata)
  /\ \A a : NftBalance(book, a) = Cardinality(Owned(book, a))
  /\ book.supply = Cardinality(DOMAIN book.metadata)

(* The tokens of an account are finitely many. *)
LEMMA OwnedFinite ==
  ASSUME NEW book, NftsCounted(book), NEW a
  PROVE  IsFiniteSet(Owned(book, a)) /\ Cardinality(Owned(book, a)) \in Nat
<1>1. Owned(book, a) \subseteq DOMAIN book.metadata /\ IsFiniteSet(DOMAIN book.metadata)
  BY DEF NftsCounted, Owned
<1>2. IsFiniteSet(Owned(book, a))
  BY <1>1, FS_Subset
<1> QED BY <1>2, FS_CardinalityType

(* The fields of a book after tokens are minted. *)
LEMMA MintedFields ==
  ASSUME NEW book, DOMAIN book = NftFields, NEW to, NEW made, NEW new, new = Minted(book, to, made)
  PROVE  /\ DOMAIN new = NftFields
         /\ DOMAIN new.metadata = DOMAIN book.metadata \cup DOMAIN made
         /\ \A id \in DOMAIN made : new.metadata[id] = made[id]
         /\ \A id \in DOMAIN book.metadata : id \notin DOMAIN made => new.metadata[id] = book.metadata[id]
         /\ DOMAIN new.owner = DOMAIN book.owner \cup DOMAIN made
         /\ \A id \in DOMAIN made : new.owner[id] = to
         /\ \A id \in DOMAIN book.owner : id \notin DOMAIN made => new.owner[id] = book.owner[id]
         /\ new.balance = Put(book.balance, to, NftBalance(book, to) + Cardinality(DOMAIN made))
         /\ new.supply = book.supply + Cardinality(DOMAIN made)
         /\ new.fields = book.fields
<1> DEFINE m == [id \in DOMAIN book.metadata \cup DOMAIN made |->
                   IF id \in DOMAIN made THEN made[id] ELSE book.metadata[id]]
           o == [id \in DOMAIN book.owner \cup DOMAIN made |->
                   IF id \in DOMAIN made THEN to ELSE book.owner[id]]
           b == Put(book.balance, to, NftBalance(book, to) + Cardinality(DOMAIN made))
           s == book.supply + Cardinality(DOMAIN made)
<1>1. new = [book EXCEPT !.metadata = m, !.owner = o, !.balance = b, !.supply = s]
  BY DEF Minted
<1> HIDE DEF m, o, b, s
<1>2. /\ DOMAIN new = NftFields /\ new.metadata = m /\ new.owner = o
      /\ new.balance = b /\ new.supply = s /\ new.fields = book.fields
  BY <1>1 DEF NftFields
<1> QED BY <1>2 DEF m, o, b, s

(* The fields after tokens are burned. *)
LEMMA BurnedFields ==
  ASSUME NEW book, DOMAIN book = NftFields, NEW ids, NEW new, new = Burned(book, ids)
  PROVE  /\ DOMAIN new = NftFields
         /\ new.metadata = [id \in DOMAIN book.metadata \ ids |-> book.metadata[id]]
         /\ new.owner = [id \in DOMAIN book.owner \ ids |-> book.owner[id]]
         /\ new.balance = [a \in DOMAIN book.balance |->
              SaturatingSub(book.balance[a], Cardinality({id \in ids : book.owner[id] = a}))]
         /\ new.supply = SaturatingSub(book.supply, Cardinality(ids))
         /\ new.fields = book.fields
<1> DEFINE m == [id \in DOMAIN book.metadata \ ids |-> book.metadata[id]]
           o == [id \in DOMAIN book.owner \ ids |-> book.owner[id]]
           p == [id \in DOMAIN book.approved \ ids |-> book.approved[id]]
           b == [a \in DOMAIN book.balance |->
                   SaturatingSub(book.balance[a], Cardinality({id \in ids : book.owner[id] = a}))]
           s == SaturatingSub(book.supply, Cardinality(ids))
<1>1. new = [book EXCEPT !.metadata = m, !.owner = o, !.approved = p, !.balance = b, !.supply = s]
  BY DEF Burned
<1> HIDE DEF m, o, p, b, s
<1>2. /\ DOMAIN new = NftFields /\ new.metadata = m /\ new.owner = o
      /\ new.balance = b /\ new.supply = s /\ new.fields = book.fields
  BY <1>1 DEF NftFields
<1> QED BY <1>2 DEF m, o, b, s

(* Minting tokens that were not there.                                     *)
LEMMA MintingCounts ==
  ASSUME NEW book, NftsCounted(book), NEW to, NEW made, IsFiniteSet(DOMAIN made),
         \A id \in DOMAIN made : id \notin DOMAIN book.metadata,
         NEW new, new = Minted(book, to, made)
  PROVE  /\ NftsCounted(new) /\ new.fields = book.fields
         /\ DOMAIN new.metadata = DOMAIN book.metadata \cup DOMAIN made
         /\ \A id \in DOMAIN new.metadata :
              new.metadata[id] = IF id \in DOMAIN made THEN made[id] ELSE book.metadata[id]
<1> DEFINE N == DOMAIN made
           D == DOMAIN book.metadata
           c == Cardinality(N)
<1>1. /\ DOMAIN new = NftFields /\ new.fields = book.fields
      /\ DOMAIN new.metadata = D \cup N /\ \A id \in N : new.metadata[id] = made[id]
      /\ \A id \in D : id \notin N => new.metadata[id] = book.metadata[id]
      /\ DOMAIN new.owner = D \cup N /\ \A id \in N : new.owner[id] = to
      /\ \A id \in D : id \notin N => new.owner[id] = book.owner[id]
      /\ new.balance = Put(book.balance, to, NftBalance(book, to) + c)
      /\ new.supply = book.supply + c
  <2>1. DOMAIN book = NftFields /\ DOMAIN book.owner = D
    BY DEF NftsCounted
  <2> QED BY <2>1, MintedFields
<1>2. /\ IsFiniteSet(D) /\ IsFiniteSet(N) /\ D \cap N = {} /\ DOMAIN book.owner = D
      /\ book.supply = Cardinality(D) /\ \A a : NftBalance(book, a) = Cardinality(Owned(book, a))
  BY DEF NftsCounted
<1>3. c \in Nat /\ Cardinality(D) \in Nat
  BY <1>2, FS_CardinalityType
<1>4. IsFiniteSet(D \cup N) /\ Cardinality(D \cup N) = Cardinality(D) + c
  <2>1. /\ IsFiniteSet(D \cup N)
        /\ Cardinality(D \cup N) = Cardinality(D) + Cardinality(N) - Cardinality(D \cap N)
    BY <1>2, FS_Union
  <2>2. Cardinality(D \cap N) = 0
    BY <1>2, FS_EmptySet
  <2> QED BY <1>3, <2>1, <2>2
<1>5. ASSUME NEW a PROVE NftBalance(new, a) = Cardinality(Owned(new, a))
  <2>1. NftBalance(book, a) = Cardinality(Owned(book, a))
    BY <1>2
  <2>2. CASE a = to
    <3>1. Owned(new, a) = Owned(book, a) \cup N
      BY <1>1, <1>2, <2>2 DEF Owned
    <3>2. Owned(book, a) \cap N = {}
      BY <1>2 DEF Owned
    <3>3. IsFiniteSet(Owned(book, a)) /\ Cardinality(Owned(book, a)) \in Nat
      BY OwnedFinite
    <3>4. Cardinality(Owned(book, a) \cup N)
            = Cardinality(Owned(book, a)) + c - Cardinality(Owned(book, a) \cap N)
      BY <1>2, <3>3, FS_Union
    <3>5. Cardinality(Owned(new, a)) = Cardinality(Owned(book, a)) + c
      <4>1. Cardinality(Owned(book, a) \cap N) = 0
        BY <3>2, FS_EmptySet
      <4> HIDE DEF c, N
      <4> QED BY <1>3, <3>1, <3>3, <3>4, <4>1
    <3>6. NftBalance(new, a) = NftBalance(book, to) + c
      <4> HIDE DEF c
      <4> QED BY <1>1, <2>2 DEF NftBalance, Stored, Put
    <3> QED BY <2>1, <2>2, <3>5, <3>6
  <2>3. CASE a # to
    <3>1. Owned(new, a) = Owned(book, a)
      BY <1>1, <1>2, <2>3 DEF Owned
    <3>2. NftBalance(new, a) = NftBalance(book, a)
      <4> HIDE DEF c
      <4> QED BY <1>1, <2>3 DEF NftBalance, Stored, Put
    <3> QED BY <2>1, <3>1, <3>2
  <2> QED BY <2>2, <2>3
<1>6. DOMAIN new.owner = DOMAIN new.metadata /\ DOMAIN new.metadata = D \cup N
  BY <1>1
<1>7. new.supply = Cardinality(DOMAIN new.metadata)
  BY <1>1, <1>2, <1>4, <1>6
<1>8. NftsCounted(new)
  BY <1>1, <1>4, <1>5, <1>6, <1>7 DEF NftsCounted
<1> QED BY <1>1, <1>6, <1>8

(* Burning tokens that are there. *)
LEMMA BurningCounts ==
  ASSUME NEW book, NftsCounted(book), NEW ids, ids \subseteq DOMAIN book.metadata,
         NEW new, new = Burned(book, ids)
  PROVE  /\ NftsCounted(new) /\ new.fields = book.fields
         /\ DOMAIN new.metadata = DOMAIN book.metadata \ ids
         /\ \A id \in DOMAIN new.metadata : new.metadata[id] = book.metadata[id]
<1> DEFINE D == DOMAIN book.metadata
           gone(a) == {id \in ids : book.owner[id] = a}
<1>1. /\ DOMAIN new = NftFields /\ new.fields = book.fields
      /\ new.metadata = [id \in D \ ids |-> book.metadata[id]]
      /\ new.owner = [id \in D \ ids |-> book.owner[id]]
      /\ new.balance = [a \in DOMAIN book.balance |->
           SaturatingSub(book.balance[a], Cardinality(gone(a)))]
      /\ new.supply = SaturatingSub(book.supply, Cardinality(ids))
  <2>1. DOMAIN book = NftFields /\ DOMAIN book.owner = D
    BY DEF NftsCounted
  <2> QED BY <2>1, BurnedFields
<1>2. /\ IsFiniteSet(D) /\ DOMAIN book.owner = D
      /\ book.supply = Cardinality(D) /\ \A a : NftBalance(book, a) = Cardinality(Owned(book, a))
  BY DEF NftsCounted
<1>3. /\ IsFiniteSet(ids) /\ Cardinality(ids) \in Nat /\ Cardinality(D) \in Nat
      /\ Cardinality(ids) <= Cardinality(D)
  BY <1>2, FS_Subset, FS_CardinalityType
<1>4. IsFiniteSet(D \ ids) /\ Cardinality(D \ ids) = Cardinality(D) - Cardinality(ids)
  <2>1. D \cap ids = ids
    OBVIOUS
  <2>2. /\ IsFiniteSet(D \ ids)
        /\ Cardinality(D \ ids) = Cardinality(D) - Cardinality(D \cap ids)
    BY <1>2, FS_Difference
  <2> HIDE DEF D
  <2> QED BY <2>1, <2>2
<1>5. ASSUME NEW a PROVE NftBalance(new, a) = Cardinality(Owned(new, a))
  <2>1. NftBalance(book, a) = Cardinality(Owned(book, a))
    BY <1>2
  <2>2. Owned(new, a) = Owned(book, a) \ ids /\ Owned(book, a) \cap ids = gone(a)
    BY <1>1, <1>2 DEF Owned
  <2>3. IsFiniteSet(Owned(book, a)) /\ Cardinality(Owned(book, a)) \in Nat
    BY OwnedFinite
  <2>4. Cardinality(Owned(new, a)) = Cardinality(Owned(book, a)) - Cardinality(gone(a))
    BY <2>2, <2>3, FS_Difference
  <2>5. Cardinality(gone(a)) \in Nat /\ Cardinality(gone(a)) <= Cardinality(Owned(book, a))
    <3>1. gone(a) \subseteq Owned(book, a)
      BY <2>2
    <3>2. IsFiniteSet(gone(a)) /\ Cardinality(gone(a)) <= Cardinality(Owned(book, a))
      BY <2>3, <3>1, FS_Subset
    <3> QED BY <3>2, FS_CardinalityType
  <2> DEFINE g == Cardinality(gone(a))
  <2>6. CASE a \in DOMAIN book.balance
    <3>1. NftBalance(new, a) = SaturatingSub(book.balance[a], g) /\ book.balance[a] = NftBalance(book, a)
      BY <1>1, <2>6 DEF NftBalance, Stored
    <3> HIDE DEF g
    <3>2. SaturatingSub(NftBalance(book, a), g) = Cardinality(Owned(book, a)) - g
      BY <2>1, <2>3, <2>5 DEF SaturatingSub, g
    <3> QED BY <2>4, <3>1, <3>2 DEF g
  <2>7. CASE a \notin DOMAIN book.balance
    <3>1. NftBalance(new, a) = 0 /\ NftBalance(book, a) = 0
      BY <1>1, <2>7 DEF NftBalance, Stored
    <3> HIDE DEF gone
    <3> QED BY <2>1, <2>4, <2>5, <3>1
  <2> QED BY <2>6, <2>7
<1>6. DOMAIN new.owner = DOMAIN new.metadata /\ DOMAIN new.metadata = D \ ids
  BY <1>1
<1>7. new.supply = Cardinality(DOMAIN new.metadata)
  BY <1>1, <1>2, <1>3, <1>4, <1>6 DEF SaturatingSub
<1>8. NftsCounted(new)
  BY <1>1, <1>4, <1>5, <1>6, <1>7 DEF NftsCounted
<1> QED BY <1>1, <1>6, <1>8

(* A token changes hands, also when it stays in the same. *)
LEMMA TransferCounts ==
  ASSUME NftsCounted(nft), NEW from, NEW to, NEW id, NftOwnedBy(id, from),
         NEW new, new = NftTransferred(from, to, id)
  PROVE  NftsCounted(new) /\ new.metadata = nft.metadata /\ new.fields = nft.fields
<1> DEFINE less == Put(nft.balance, from, SaturatingSub(NftBalance(nft, from), 1))
           o == Put(nft.owner, id, to)
           p == Drop(nft.approved, id)
           b == Put(less, to, Stored(less, to, 0) + 1)
<1>1. new = [nft EXCEPT !.owner = o, !.approved = p, !.balance = b] /\ DOMAIN nft = NftFields
  BY DEF NftTransferred, NftsCounted
<1> HIDE DEF o, p, b
<1>2. /\ DOMAIN new = NftFields /\ new.owner = o /\ new.balance = b
      /\ new.metadata = nft.metadata /\ new.supply = nft.supply /\ new.fields = nft.fields
  BY <1>1 DEF NftFields
<1>3. /\ id \in DOMAIN nft.owner /\ nft.owner[id] = from
      /\ \A a : NftBalance(nft, a) = Cardinality(Owned(nft, a))
  BY DEF NftOwnedBy, NftsCounted
<1>4. DOMAIN o = DOMAIN nft.owner /\ o[id] = to /\ \A k \in DOMAIN nft.owner : k # id => o[k] = nft.owner[k]
  BY <1>3 DEF o, Put
<1>5. ASSUME NEW a PROVE NftBalance(new, a) = Stored(b, a, 0)
  BY <1>2 DEF NftBalance
<1>6. \A a : IsFiniteSet(Owned(nft, a)) /\ Cardinality(Owned(nft, a)) \in Nat
  BY OwnedFinite
<1>7. ASSUME NEW a
      PROVE  /\ a # from /\ a # to => Owned(new, a) = Owned(nft, a)
             /\ a = from /\ a # to => Owned(new, a) = Owned(nft, a) \ {id}
             /\ a # from /\ a = to => Owned(new, a) = Owned(nft, a) \cup {id}
             /\ a = from /\ a = to => Owned(new, a) = Owned(nft, a)
  BY <1>2, <1>3, <1>4 DEF Owned
<1>8. /\ \A a : id \in Owned(nft, a) <=> a = from
      /\ Cardinality(Owned(nft, from)) # 0
  <2>1. \A a : id \in Owned(nft, a) <=> a = from
    BY <1>3 DEF Owned
  <2> QED BY <1>6, <2>1, FS_EmptySet
<1>9. ASSUME NEW a
      PROVE  /\ a # from /\ a # to => Stored(b, a, 0) = NftBalance(nft, a)
             /\ a = from /\ a # to => Stored(b, a, 0) = NftBalance(nft, a) - 1
             /\ a # from /\ a = to => Stored(b, a, 0) = NftBalance(nft, a) + 1
             /\ a = from /\ a = to => Stored(b, a, 0) = NftBalance(nft, a)
  <2> DEFINE x == SaturatingSub(NftBalance(nft, from), 1)
  <2>1. x = NftBalance(nft, from) - 1 /\ x + 1 = NftBalance(nft, from)
    BY <1>3, <1>6, <1>8 DEF SaturatingSub
  <2> HIDE DEF x
  <2>2. Stored(less, a, 0) = IF a = from THEN x ELSE NftBalance(nft, a)
    BY DEF Put, Stored, NftBalance, x
  <2>3. Stored(less, to, 0) = IF to = from THEN x ELSE NftBalance(nft, to)
    BY DEF Put, Stored, NftBalance, x
  <2> HIDE DEF less
  <2>4. Stored(b, a, 0) = IF a = to THEN Stored(less, to, 0) + 1 ELSE Stored(less, a, 0)
    BY DEF Put, Stored, b
  <2> QED BY <2>1, <2>2, <2>3, <2>4
<1>10. ASSUME NEW a PROVE NftBalance(new, a) = Cardinality(Owned(new, a))
  <2>1. NftBalance(nft, a) = Cardinality(Owned(nft, a)) /\ IsFiniteSet(Owned(nft, a))
    BY <1>3, <1>6
  <2>2. CASE a # from /\ a # to
    BY <1>5, <1>7, <1>9, <2>1, <2>2
  <2>3. CASE a = from /\ a # to
    <3>1. Cardinality(Owned(nft, a) \ {id}) = Cardinality(Owned(nft, a)) - 1
      BY <1>8, <2>1, <2>3, FS_RemoveElement
    <3> QED BY <1>5, <1>7, <1>9, <2>1, <2>3, <3>1
  <2>4. CASE a # from /\ a = to
    <3>1. Cardinality(Owned(nft, a) \cup {id}) = Cardinality(Owned(nft, a)) + 1
      BY <1>8, <2>1, <2>4, FS_AddElement
    <3> QED BY <1>5, <1>7, <1>9, <2>1, <2>4, <3>1
  <2>5. CASE a = from /\ a = to
    BY <1>5, <1>7, <1>9, <2>1, <2>5
  <2> QED BY <2>2, <2>3, <2>4, <2>5
<1>11. DOMAIN new.owner = DOMAIN new.metadata
  BY <1>2, <1>4 DEF NftsCounted
<1> QED BY <1>2, <1>10, <1>11 DEF NftsCounted

(* Every token is of an open loan and repeats it; without an NFT contract, *)
(* or with one that decodes other metadata, there are none.                *)
NftsSound ==
  /\ NftsCounted(nft)
  /\ ~nft_token \/ ~Mintable => DOMAIN nft.metadata = {}
  /\ \A id \in DOMAIN nft.metadata :
       id \in DOMAIN loan_by_id /\ nft.metadata[id] = loan_by_id[id]

(* What it says. *)
LEMMA NftsFollow ==
  ASSUME NftsSound
  PROVE  NftFollowsLoan
BY DEF NftsSound, NftsCounted, Owned, NftFollowsLoan, Mintable

(* The tokens of closed loans are burned, those of new ones minted.        *)
LEMMA TurnoverKeepsNfts ==
  ASSUME NftsSound, LoanBook, NEW u, NEW closed, NEW recs, Turnover(u, closed, recs),
         UNCHANGED nft_token, nft_token => NftExists(closed),
         nft_token => \/ DOMAIN recs = {} /\ nft' = Burned(nft, closed)
                      \/ Mintable /\ nft' = Minted(Burned(nft, closed), u, recs),
         ~nft_token => nft' = nft
  PROVE  NftsSound'
<1>1. CASE ~nft_token
  <2>1. DOMAIN nft.metadata = {} /\ nft' = nft
    BY <1>1 DEF NftsSound
  <2>2. NftsCounted(nft')
    BY <2>1 DEF NftsSound
  <2> QED BY <2>1, <2>2 DEF NftsSound, Mintable
<1>2. CASE nft_token
  <2> DEFINE less == Burned(nft, closed)
             D == DOMAIN nft.metadata
             N == DOMAIN recs
  <2>1. closed \subseteq D /\ NftsCounted(nft)
    BY <1>2 DEF NftExists, NftsSound
  <2>2. /\ NftsCounted(less) /\ less.fields = nft.fields /\ DOMAIN less.metadata = D \ closed
        /\ \A id \in D \ closed : less.metadata[id] = nft.metadata[id]
    BY <2>1, BurningCounts
  <2>3. /\ \A id \in D : id \in DOMAIN loan_by_id /\ nft.metadata[id] = loan_by_id[id]
        /\ \A id \in DOMAIN loan_by_id : id < next_loan_id
    BY DEF NftsSound, LoanBook, LoansNumbered
  <2>4. /\ next_loan_id \in Nat /\ next_loan_id' \in Nat
        /\ \A id \in N : id \in Nat /\ next_loan_id <= id /\ id < next_loan_id'
    BY DEF Turnover, Fresh
  <2>5. \A id \in N : id \notin D /\ id \notin DOMAIN less.metadata
    <3>1. \A id \in N : ~(id < next_loan_id)
      BY <2>4
    <3> QED BY <2>2, <2>3, <3>1
  <2>6. IsFiniteSet(N)
    <3>1. N \in SUBSET Nat /\ \A id \in N : id <= next_loan_id'
      BY <2>4
    <3> QED BY <2>4, <3>1, FS_BoundedSetOfNaturals
  <2>7. /\ DOMAIN loan_by_id' = (DOMAIN loan_by_id \ closed) \cup N
        /\ \A id \in DOMAIN loan_by_id' :
             loan_by_id'[id] = IF id \in N THEN recs[id] ELSE loan_by_id[id]
    BY DEF Turnover, RecordsReplaced
  <2> HIDE DEF less
  <2>8. /\ NftsCounted(nft') /\ nft'.fields = nft.fields /\ (N = {} \/ Mintable)
        /\ DOMAIN nft.metadata' = (D \ closed) \cup N
        /\ \A id \in DOMAIN nft.metadata' :
             nft.metadata'[id] = IF id \in N THEN recs[id] ELSE nft.metadata[id]
    <3>1. CASE N = {} /\ nft' = less
      BY <2>2, <3>1
    <3>2. CASE Mintable /\ nft' = Minted(less, u, recs)
      <4>1. /\ NftsCounted(nft') /\ nft'.fields = less.fields /\ DOMAIN nft.metadata' = DOMAIN less.metadata \cup DOMAIN recs
            /\ \A id \in DOMAIN nft.metadata' :
                 nft.metadata'[id] = IF id \in DOMAIN recs THEN recs[id] ELSE less.metadata[id]
        BY <2>2, <2>5, <2>6, <3>2, MintingCounts
      <4> QED BY <2>2, <3>2, <4>1
    <3> QED BY <1>2, <3>1, <3>2 DEF less
  <2>9. \A id \in DOMAIN nft.metadata' :
          id \in DOMAIN loan_by_id' /\ nft.metadata'[id] = loan_by_id'[id]
    BY <2>3, <2>7, <2>8
  <2>10. ~Mintable' => DOMAIN nft.metadata' = {}
    BY <2>8 DEF NftsSound, Mintable
  <2> QED BY <1>2, <2>8, <2>9, <2>10 DEF NftsSound
<1> QED BY <1>1, <1>2

(* Such a call keeps the tokens. *)
LEMMA CallKeepsNfts ==
  ASSUME PoolsSound, LoanBook, NftsSound, LoanCall
  PROVE  NftsSound'
<1>1. next_loan_id \in Nat
  BY BookTyped
<1>2. CASE OnlyNftsMove
  <2>1. loan_by_id' = loan_by_id
    BY <1>2 DEF OnlyNftsMove, LoansStay
  <2>2. CASE UNCHANGED nft /\ (nft_token => nft_token')
    BY <2>1, <2>2 DEF NftsSound, Mintable
  <2>3. ASSUME UNCHANGED nft_token, NftsCounted(nft'), nft'.metadata = nft.metadata,
               nft'.fields = nft.fields
        PROVE  NftsSound'
    BY <2>1, <2>3 DEF NftsSound, Mintable
  <2>4. ASSUME UNCHANGED nft_token, NEW from, NEW to, NEW id,
               NftOwnedBy(id, from), nft' = NftTransferred(from, to, id)
        PROVE  NftsSound'
    BY <2>3, <2>4, TransferCounts DEF NftsSound
  <2>5. ASSUME UNCHANGED nft_token, NEW p, nft' = [nft EXCEPT !.approved = p] PROVE NftsSound'
    <3>1. /\ DOMAIN nft' = NftFields /\ nft'.metadata = nft.metadata /\ nft'.owner = nft.owner
          /\ nft'.balance = nft.balance /\ nft'.supply = nft.supply /\ nft'.fields = nft.fields
      BY <2>5 DEF NftsSound, NftsCounted, NftFields
    <3>2. NftsCounted(nft')
      BY <3>1 DEF NftsSound, NftsCounted, NftBalance, Owned
    <3> QED BY <2>3, <2>5, <3>1, <3>2
  <2>6. ASSUME UNCHANGED nft_token, NEW p, nft' = [nft EXCEPT !.operators = p] PROVE NftsSound'
    <3>1. /\ DOMAIN nft' = NftFields /\ nft'.metadata = nft.metadata /\ nft'.owner = nft.owner
          /\ nft'.balance = nft.balance /\ nft'.supply = nft.supply /\ nft'.fields = nft.fields
      BY <2>6 DEF NftsSound, NftsCounted, NftFields
    <3>2. NftsCounted(nft')
      BY <3>1 DEF NftsSound, NftsCounted, NftBalance, Owned
    <3> QED BY <2>3, <2>6, <3>1, <3>2
  <2>7. ASSUME UNCHANGED nft_token, NEW from, NEW to, NEW id,
               \/ NftTransfer(from, to, id)
               \/ \E spender : NftTransferFrom(spender, from, to, id)
        PROVE  NftsSound'
    BY <2>4, <2>7 DEF NftTransfer, NftTransferFrom
  <2>8. ASSUME UNCHANGED nft_token, NEW from, NEW to, NEW id, NftApprove(from, to, id)
        PROVE  NftsSound'
    <3> DEFINE p == Put(nft.approved, id, to)
    <3>1. nft' = [nft EXCEPT !.approved = p]
      BY <2>8 DEF NftApprove
    <3> HIDE DEF p
    <3> QED BY <2>5, <2>8, <3>1
  <2>9. ASSUME UNCHANGED nft_token, NEW from, NEW to, NEW approved,
               NftSetApprovalForAll(from, to, approved)
        PROVE  NftsSound'
    <3> DEFINE p == IF approved THEN nft.operators \cup {<<from, to>>} ELSE nft.operators \ {<<from, to>>}
    <3>1. nft' = [nft EXCEPT !.operators = p]
      BY <2>9 DEF NftSetApprovalForAll
    <3> HIDE DEF p
    <3> QED BY <2>6, <2>9, <3>1
  <2> QED BY <1>2, <2>2, <2>7, <2>8, <2>9 DEF OnlyNftsMove
<1>3. ASSUME UNCHANGED nft_token, NEW u, NEW closed, NEW made, NEW n, NewLoans(u, closed, made, n)
      PROVE  NftsSound'
  <2> DEFINE recs == ById(made)
  <2>1. Turnover(u, closed, recs)
    BY <1>3, LoansTurned DEF NewLoans
  <2>2. made # << >>
    BY <1>3 DEF NewLoans, MadeFor
  <2>3. /\ nft_token => NftExists(closed) /\ Mintable
        /\ nft' = IF ~nft_token THEN nft ELSE Minted(Burned(nft, closed), u, recs)
    BY <1>3, <2>2 DEF NewLoans, Replace
  <2> HIDE DEF recs
  <2> QED BY <1>3, <2>1, <2>3, TurnoverKeepsNfts
<1>4. ASSUME NEW u, LoanPaid(u) PROVE NftsSound'
  <2> DEFINE closed == {Primary(u).loan_id}
             recs == ById(<< >>)
  <2>1. OwnLoans(u, closed)
    BY <1>4, PrimaryListed DEF LoanPaid
  <2>2. /\ loans' = Drop(loans, u) /\ UNCHANGED <<next_loan_id, nft_token>>
        /\ Replace(u, closed, << >>)
    BY <1>4 DEF LoanPaid
  <2> HIDE DEF closed
  <2>3. Turnover(u, closed, recs) /\ DOMAIN recs = {}
    BY <1>1, <2>1, <2>2, LoanTurned
  <2>4. /\ nft_token => NftExists(closed)
        /\ nft' = IF ~nft_token THEN nft ELSE Burned(nft, closed)
    BY <2>2 DEF Replace
  <2> HIDE DEF recs
  <2> QED BY <2>2, <2>3, <2>4, TurnoverKeepsNfts
<1> QED BY <1>2, <1>3, <1>4 DEF LoanCall, LoansMade

(* At the start there are no tokens. *)
LEMMA NftsStart == LendingStart => NftsSound
<1> SUFFICES ASSUME LendingStart PROVE NftsSound
  OBVIOUS
<1>1. nft = NoNfts(SentFields) \/ nft = NoNfts(OwnFields)
  BY DEF LendingStart, LendingInit
<1>2. /\ DOMAIN nft = NftFields /\ DOMAIN nft.metadata = {} /\ DOMAIN nft.owner = {}
      /\ DOMAIN nft.balance = {} /\ nft.supply = 0
  BY <1>1 DEF NoNfts, EmptyMap, NftFields
<1>3. \A a : Owned(nft, a) = {}
  BY <1>2 DEF Owned
<1>4. NftsCounted(nft)
  BY <1>2, <1>3, FS_EmptySet DEF NftsCounted, NftBalance, Stored
<1> QED BY <1>2, <1>4 DEF NftsSound

-----------------------------------------------------------------------------
(* Lending: the debt that pools count on. *)

(* What loans of an asset are of. *)
DebtOf(a) ==
  [id \in DOMAIN loan_by_id |-> IF loan_by_id[id].asset = a THEN loan_by_id[id].principal ELSE 0]

(* Debts that are closed and that are made. *)
ClosedDebts(closed) == [id \in closed |-> loan_by_id[id].principal]
MadeDebts(recs) == [id \in DOMAIN recs |-> recs[id].principal]

(* A pool lends what was deposited, and what it lent is owed. *)
Covered(pool) == pool.total_borrowed <= pool.total_deposits

DebtsOwed ==
  \A a \in DOMAIN pools :
    Covered(pools[a]) /\ pools[a].total_borrowed <= Total(DebtOf(a))

(* It is what the run checks. *)
LEMMA DebtsAreOwed ==
  ASSUME DebtsOwed
  PROVE  BorrowedIsOwed
BY DEF DebtsOwed, Covered, DebtOf, BorrowedIsOwed

(* Loans by id are finitely many, and what they owe is an amount.          *)
LEMMA DebtsTyped ==
  ASSUME LoanBook, IsMap(loan_by_id, Nat, LoanRecord), next_loan_id \in Nat
  PROVE  /\ IsFiniteSet(DOMAIN loan_by_id)
         /\ \A id \in DOMAIN loan_by_id : loan_by_id[id] \in LoanRecord /\ loan_by_id[id].principal \in Nat
         /\ \A a : /\ DOMAIN DebtOf(a) = DOMAIN loan_by_id /\ IntMap(DebtOf(a))
                   /\ \A id \in DOMAIN loan_by_id : DebtOf(a)[id] \in Nat
                   /\ Total(DebtOf(a)) \in Nat
<1>1. DOMAIN loan_by_id \in SUBSET Nat /\ \A id \in DOMAIN loan_by_id : id <= next_loan_id
  BY DEF LoanBook, LoansNumbered, IsMap
<1>2. IsFiniteSet(DOMAIN loan_by_id)
  BY <1>1, FS_BoundedSetOfNaturals
<1>3. \A id \in DOMAIN loan_by_id : loan_by_id[id] \in LoanRecord /\ loan_by_id[id].principal \in Nat
  BY DEF IsMap, LoanRecord
<1>4. ASSUME NEW a
      PROVE  /\ DOMAIN DebtOf(a) = DOMAIN loan_by_id /\ IntMap(DebtOf(a))
             /\ \A id \in DOMAIN loan_by_id : DebtOf(a)[id] \in Nat
             /\ Total(DebtOf(a)) \in Nat
  <2> DEFINE f == DebtOf(a)
  <2>1. DOMAIN f = DOMAIN loan_by_id /\ \A id \in DOMAIN f : f[id] \in Nat
    BY <1>3 DEF DebtOf
  <2> HIDE DEF f
  <2>2. IntMap(f)
    BY <1>2, <2>1 DEF IntMap
  <2>3. Total(f) \in Nat
    BY <1>2, <2>1, TotalOfNats
  <2> QED BY <2>1, <2>2, <2>3 DEF f
<1> QED BY <1>2, <1>3, <1>4

(* Loans of an asset, closed and made. *)
OfAsset(a, closed, recs) ==
  /\ \A id \in closed : loan_by_id[id].asset = a
  /\ \A id \in DOMAIN recs : recs[id].asset = a

(* How a turnover changes what is owed.                                    *)
LEMMA DebtTurned ==
  ASSUME LoanBook, IsMap(loan_by_id, Nat, LoanRecord),
         NEW u, NEW closed, NEW recs, Turnover(u, closed, recs),
         NEW a, OfAsset(a, closed, recs)
  PROVE  /\ Total(ClosedDebts(closed)) \in Nat /\ Total(MadeDebts(recs)) \in Nat
         /\ Total(DebtOf(a)') = Total(DebtOf(a)) - Total(ClosedDebts(closed)) + Total(MadeDebts(recs))
         /\ \A t : t # a => Total(DebtOf(t)') = Total(DebtOf(t))
<1> DEFINE D == DOMAIN loan_by_id
           N == DOMAIN recs
           E == (D \ closed) \cup N
<1>1. /\ next_loan_id \in Nat /\ next_loan_id' \in Nat
      /\ \A id \in N : /\ id \in Nat /\ next_loan_id <= id /\ id < next_loan_id'
                       /\ recs[id] \in LoanRecord
  BY DEF Turnover, Fresh
<1>2. /\ IsFiniteSet(D) /\ \A id \in D : loan_by_id[id].principal \in Nat /\ id < next_loan_id
      /\ \A t : DOMAIN DebtOf(t) = D /\ IntMap(DebtOf(t)) /\ Total(DebtOf(t)) \in Nat
  BY <1>1, DebtsTyped DEF LoanBook, LoansNumbered
<1>3. closed \subseteq D
  BY DEF Turnover, OwnLoans
<1>4. IsFiniteSet(N) /\ \A id \in N : recs[id].principal \in Nat
  <2>1. N \in SUBSET Nat /\ \A id \in N : id <= next_loan_id'
    BY <1>1
  <2>2. IsFiniteSet(N)
    BY <1>1, <2>1, FS_BoundedSetOfNaturals
  <2> QED BY <1>1, <2>2 DEF LoanRecord
<1>5. \A id \in N : id \notin D
  <2>1. \A id \in N : ~(id < next_loan_id)
    BY <1>1
  <2> QED BY <1>2, <2>1
<1>6. /\ DOMAIN loan_by_id' = E
      /\ \A id \in N : loan_by_id'[id] = recs[id]
      /\ \A id \in D \ closed : loan_by_id'[id] = loan_by_id[id]
  BY <1>5 DEF Turnover, RecordsReplaced
<1>7. IsFiniteSet(E) /\ IsFiniteSet(closed)
  BY <1>2, <1>3, <1>4, FS_Subset, FS_Union, FS_Difference
<1> HIDE DEF D, N, E
<1>8. ASSUME NEW t
      PROVE  /\ Total(DebtOf(t)') = Total(Portion(DebtOf(t), D \ closed)) + Total(Portion(DebtOf(t)', N))
             /\ Total(DebtOf(t)) = Total(Portion(DebtOf(t), D \ closed)) + Total(Portion(DebtOf(t), closed))
             /\ Total(Portion(DebtOf(t), D \ closed)) \in Int
             /\ Total(Portion(DebtOf(t)', N)) \in Int /\ Total(Portion(DebtOf(t), closed)) \in Int
  <2> DEFINE f == DebtOf(t)
             e == DebtOf(t)'
  <2>1. /\ DOMAIN e = E
        /\ \A id \in N : e[id] = IF recs[id].asset = t THEN recs[id].principal ELSE 0
        /\ \A id \in D \ closed : e[id] = f[id]
    BY <1>6 DEF DebtOf, D, E
  <2>2. DOMAIN f = D /\ IntMap(f)
    BY <1>2
  <2> HIDE DEF f, e
  <2>3. \A id \in E : e[id] \in Int
    BY <1>4, <2>1, <2>2 DEF E, IntMap
  <2>4. IntMap(e)
    BY <1>7, <2>1, <2>3 DEF IntMap
  <2>5. N \subseteq E /\ E \ N = D \ closed
    BY <1>5 DEF E
  <2>6. /\ Total(e) = Total(Portion(e, E \ N)) + Total(Portion(e, N))
        /\ Total(Portion(e, N)) \in Int
    BY <2>1, <2>4, <2>5, PortionsTotal
  <2>7. /\ Total(f) = Total(Portion(f, D \ closed)) + Total(Portion(f, closed))
        /\ Total(Portion(f, closed)) \in Int /\ Total(Portion(f, D \ closed)) \in Int
    BY <1>3, <2>2, PortionsTotal
  <2>8. Portion(e, E \ N) = Portion(f, D \ closed)
    BY <2>1, <2>5 DEF Portion
  <2> QED BY <2>6, <2>7, <2>8 DEF e, f
<1>9. /\ Portion(DebtOf(a), closed) = ClosedDebts(closed)
      /\ Portion(DebtOf(a)', N) = MadeDebts(recs)
  <2>1. \A id \in closed : id \in D /\ loan_by_id[id].asset = a
    BY <1>3 DEF OfAsset
  <2>2. \A id \in N : id \in E /\ recs[id].asset = a
    BY DEF OfAsset, N, E
  <2>3. \A id \in closed : DebtOf(a)[id] = loan_by_id[id].principal
    BY <2>1 DEF DebtOf, D
  <2>4. \A id \in N : DebtOf(a)'[id] = recs[id].principal
    BY <1>6, <2>2 DEF DebtOf
  <2> QED BY <2>3, <2>4 DEF Portion, ClosedDebts, MadeDebts, N
<1>10. ASSUME NEW t, t # a
       PROVE  /\ Total(Portion(DebtOf(t), closed)) = 0 /\ Total(Portion(DebtOf(t)', N)) = 0
  <2>1. /\ DOMAIN Portion(DebtOf(t), closed) = closed
        /\ \A id \in closed : Portion(DebtOf(t), closed)[id] = 0
    BY <1>3, <1>10 DEF Portion, DebtOf, OfAsset, D
  <2>2. /\ DOMAIN Portion(DebtOf(t)', N) = N
        /\ \A id \in N : Portion(DebtOf(t)', N)[id] = 0
    BY <1>6, <1>10 DEF Portion, DebtOf, OfAsset, N, E
  <2> QED BY <1>4, <1>7, <2>1, <2>2, TotalOfZeros DEF N
<1>11. Total(ClosedDebts(closed)) \in Nat /\ Total(MadeDebts(recs)) \in Nat
  <2>1. DOMAIN ClosedDebts(closed) = closed /\ \A id \in closed : ClosedDebts(closed)[id] \in Nat
    BY <1>2, <1>3 DEF ClosedDebts, D
  <2>2. DOMAIN MadeDebts(recs) = N /\ \A id \in N : MadeDebts(recs)[id] \in Nat
    BY <1>4 DEF MadeDebts, N
  <2> QED BY <1>4, <1>7, <2>1, <2>2, TotalOfNats DEF N
<1>12. Total(DebtOf(a)') = Total(DebtOf(a)) - Total(ClosedDebts(closed)) + Total(MadeDebts(recs))
  <2> DEFINE k == Total(Portion(DebtOf(a), D \ closed))
             c == Total(ClosedDebts(closed))
             m == Total(MadeDebts(recs))
  <2>1. Total(DebtOf(a)') = k + m /\ Total(DebtOf(a)) = k + c /\ k \in Int
    BY <1>8, <1>9
  <2>2. c \in Int /\ m \in Int
    BY <1>11
  <2> HIDE DEF k, c, m
  <2> QED BY <2>1, <2>2 DEF c, m
<1>13. ASSUME NEW t, t # a PROVE Total(DebtOf(t)') = Total(DebtOf(t))
  BY <1>8, <1>10, <1>13
<1> QED BY <1>11, <1>12, <1>13

(* A call that writes no loan, and in which no pool counts on more debt.   *)
DebtsStay ==
  /\ LoansStay
  /\ \A a \in DOMAIN pools' :
       /\ Covered(pools'[a])
       /\ \/ pools'[a].total_borrowed = 0
          \/ a \in DOMAIN pools /\ pools'[a].total_borrowed <= pools[a].total_borrowed

(* A call that replaces loans of an asset, and counts on no more than the  *)
(* new ones add.                                                           *)
DebtsMove(u, closed, recs, a) ==
  /\ Turnover(u, closed, recs) /\ OfAsset(a, closed, recs)
  /\ a \in DOMAIN pools /\ DOMAIN pools' = DOMAIN pools /\ Covered(pools'[a])
  /\ pools'[a].total_borrowed + Total(ClosedDebts(closed))
       <= pools[a].total_borrowed + Total(MadeDebts(recs))
  /\ \A t \in DOMAIN pools : t # a => pools'[t] = pools[t]

DebtCall == DebtsStay \/ \E u, closed, recs, a : DebtsMove(u, closed, recs, a)

(* Such a call keeps what is owed. *)
LEMMA CallKeepsDebts ==
  ASSUME PoolsSound, LoanBook, DebtsOwed, DebtCall, PoolsTyped'
  PROVE  DebtsOwed'
<1>1. /\ IsMap(loan_by_id, Nat, LoanRecord) /\ next_loan_id \in Nat /\ PoolsTyped
      /\ \A a : Total(DebtOf(a)) \in Nat
  BY BookTyped, DebtsTyped
<1>2. \A a \in DOMAIN pools : pools[a].total_borrowed \in Nat
  BY <1>1, PoolFields
<1>3. \A a \in DOMAIN pools' : pools'[a].total_borrowed \in Nat
  BY DEF PoolsTyped, IsMap, PoolState
<1>4. \A a \in DOMAIN pools :
        Covered(pools[a]) /\ pools[a].total_borrowed <= Total(DebtOf(a))
  BY DEF DebtsOwed
<1>5. CASE DebtsStay
  <2>1. \A a : DebtOf(a)' = DebtOf(a)
    BY <1>5 DEF DebtsStay, LoansStay, DebtOf
  <2>2. ASSUME NEW a \in DOMAIN pools'
        PROVE  Covered(pools'[a]) /\ pools'[a].total_borrowed <= Total(DebtOf(a)')
    <3>1. Total(DebtOf(a)') \in Nat /\ Total(DebtOf(a)') = Total(DebtOf(a))
      BY <1>1, <2>1
    <3>2. CASE pools'[a].total_borrowed = 0
      BY <1>5, <2>2, <3>1, <3>2 DEF DebtsStay
    <3>3. CASE a \in DOMAIN pools /\ pools'[a].total_borrowed <= pools[a].total_borrowed
      BY <1>1, <1>2, <1>3, <1>4, <1>5, <2>2, <3>1, <3>3 DEF DebtsStay
    <3> QED BY <1>5, <3>2, <3>3 DEF DebtsStay
  <2> QED BY <2>2 DEF DebtsOwed
<1>6. ASSUME NEW u, NEW closed, NEW recs, NEW a, DebtsMove(u, closed, recs, a) PROVE DebtsOwed'
  <2>1. /\ Total(ClosedDebts(closed)) \in Nat /\ Total(MadeDebts(recs)) \in Nat
        /\ Total(DebtOf(a)') = Total(DebtOf(a)) - Total(ClosedDebts(closed)) + Total(MadeDebts(recs))
        /\ \A t : t # a => Total(DebtOf(t)') = Total(DebtOf(t))
    BY <1>1, <1>6, DebtTurned DEF DebtsMove
  <2>2. /\ a \in DOMAIN pools /\ DOMAIN pools' = DOMAIN pools /\ Covered(pools'[a])
        /\ pools'[a].total_borrowed + Total(ClosedDebts(closed))
             <= pools[a].total_borrowed + Total(MadeDebts(recs))
        /\ \A t \in DOMAIN pools : t # a => pools'[t] = pools[t]
    BY <1>6 DEF DebtsMove
  <2>3. pools'[a].total_borrowed <= Total(DebtOf(a)')
    <3> DEFINE c == Total(ClosedDebts(closed))
               m == Total(MadeDebts(recs))
               d == Total(DebtOf(a))
               b == pools[a].total_borrowed
               n == pools'[a].total_borrowed
    <3>1. c \in Nat /\ m \in Nat /\ d \in Nat /\ b \in Nat /\ n \in Nat
      BY <1>1, <1>2, <1>3, <2>1, <2>2
    <3>2. n + c <= b + m /\ b <= d /\ Total(DebtOf(a)') = d - c + m
      BY <1>4, <2>1, <2>2
    <3> HIDE DEF c, m, d, b, n
    <3>3. n <= d - c + m
      BY <3>1, <3>2
    <3> QED BY <3>2, <3>3 DEF n
  <2>4. ASSUME NEW t \in DOMAIN pools', t # a
        PROVE  Covered(pools'[t]) /\ pools'[t].total_borrowed <= Total(DebtOf(t)')
    BY <1>4, <2>1, <2>2, <2>4
  <2> QED BY <2>2, <2>3, <2>4 DEF DebtsOwed
<1> QED BY <1>5, <1>6 DEF DebtCall

(* A pool is written in a call that writes no loan. *)
LEMMA PoolWritten ==
  ASSUME DebtsOwed, LoansStay, NEW a \in DOMAIN pools, NEW pool, SetPool(a, pool),
         Covered(pool), pool.total_borrowed <= pools[a].total_borrowed,
         \A t \in DOMAIN pools : pools[t].total_borrowed \in Nat
  PROVE  DebtsStay
<1>1. DOMAIN pools' = DOMAIN pools /\ pools'[a] = pool
      /\ \A t \in DOMAIN pools : t # a => pools'[t] = pools[t]
  BY DEF SetPool, Put
<1>2. ASSUME NEW t \in DOMAIN pools, t # a
      PROVE  Covered(pools'[t]) /\ pools'[t].total_borrowed <= pools[t].total_borrowed
  BY <1>1, <1>2 DEF DebtsOwed
<1> QED BY <1>1, <1>2 DEF DebtsStay

(* The amounts of a pool. *)
LEMMA PoolAmounts ==
  ASSUME PoolsTyped, DebtsOwed
  PROVE  /\ \A a \in DOMAIN pools :
              /\ pools[a] \in PoolState /\ pools[a].total_deposits \in Nat
              /\ pools[a].total_shares \in Nat
              /\ pools[a].total_borrowed \in Nat
              /\ pools[a].total_borrowed <= pools[a].total_deposits
BY PoolFields DEF DebtsOwed, Covered

(* No pool is written. *)
LEMMA PoolsUnwritten ==
  ASSUME PoolsTyped, DebtsOwed, LoansStay, UNCHANGED pools
  PROVE  DebtsStay
<1>1. \A a \in DOMAIN pools : Covered(pools[a]) /\ pools[a].total_borrowed \in Nat
  BY PoolAmounts DEF DebtsOwed
<1>2. \A a \in DOMAIN pools : pools[a].total_borrowed <= pools[a].total_borrowed
  BY <1>1
<1> QED BY <1>1, <1>2 DEF DebtsStay

(* What depositors do. *)
LEMMA SharesDebts ==
  ASSUME PoolsSound, DebtsOwed, ShareNext
  PROVE  DebtsStay
<1>1. PICK a \in Tokens, u \in Account :
        \/ \E amount \in PoolAmount : PoolDeposit(u, a, amount)
        \/ \E n \in ShareAmount : PoolWithdraw(u, a, n)
  BY DEF ShareNext
<1>2. PoolAmount \subseteq Nat /\ ShareAmount \subseteq Nat /\ PoolsTyped
  BY LendingArguments DEF PoolsSound
<1>3. LoansStay
  BY <1>1 DEF PoolDeposit, PoolWithdraw, loanVars, LoansStay
<1>4. a \in DOMAIN pools
  BY <1>1 DEF PoolDeposit, PoolWithdraw, Running, Supported
<1> DEFINE old == pools[a]
           b == old.total_borrowed
<1>5. /\ old \in PoolState /\ b \in Nat /\ old.total_deposits \in Nat /\ b <= old.total_deposits
      /\ old.total_shares \in Nat
      /\ \A t \in DOMAIN pools : pools[t].total_borrowed \in Nat
  BY <1>2, <1>4, PoolAmounts
<1>6. ASSUME NEW d \in Nat, NEW s, b <= d,
             SetPool(a, WithTotals(old, d, s))
      PROVE  DebtsStay
  <2> DEFINE pool == WithTotals(old, d, s)
  <2> HIDE DEF old
  <2>1. pool.total_borrowed = b /\ pool.total_deposits = d
    BY <1>5 DEF WithTotals, PoolState
  <2> HIDE DEF pool
  <2>2. Covered(pool) /\ pool.total_borrowed <= old.total_borrowed
    BY <1>5, <1>6, <2>1 DEF Covered
  <2>3. SetPool(a, pool)
    BY <1>6 DEF pool
  <2> QED BY <1>3, <1>4, <1>5, <2>2, <2>3, PoolWritten DEF old
<1>7. ASSUME NEW amount \in PoolAmount, PoolDeposit(u, a, amount) PROVE DebtsStay
  <2> DEFINE d == old.total_deposits + amount
             s == old.total_shares + LockedShares(old) + MintedFor(old, amount)
  <2>1. SetPool(a, WithTotals(old, d, s))
    BY <1>7 DEF PoolDeposit, WithTotals, MintedFor
  <2>2. d \in Nat /\ b <= d
    <3> HIDE DEF old
    <3> QED BY <1>2, <1>5
  <2> HIDE DEF d, s, old
  <2> QED BY <1>6, <2>1, <2>2
<1>8. ASSUME NEW n \in ShareAmount, PoolWithdraw(u, a, n) PROVE DebtsStay
  <2> DEFINE paid == AssetsForShares(old, n)
             d == old.total_deposits - paid
             s == old.total_shares - n
  <2>1. SetPool(a, WithTotals(old, d, s)) /\ paid > 0 /\ paid <= AvailableLiquidity(old)
    BY <1>8 DEF PoolWithdraw, WithTotals
  <2>2. paid \in Nat
    <3>1. CASE old.total_shares = 0
      BY <3>1 DEF AssetsForShares
    <3>2. CASE old.total_shares # 0
      <4> HIDE DEF old
      <4>1. paid = (n * old.total_deposits) \div old.total_shares
        BY <3>2 DEF AssetsForShares
      <4>2. (n * old.total_deposits) \div old.total_shares \in Nat
        BY <1>2, <1>5, <3>2, QuotientBelow
      <4> QED BY <4>1, <4>2
    <3> QED BY <3>1, <3>2
  <2> HIDE DEF paid
  <2>3. d \in Nat /\ b <= d
    <3> HIDE DEF old
    <3> QED BY <1>5, <2>1, <2>2 DEF AvailableLiquidity, SaturatingSub
  <2> HIDE DEF d, s, old
  <2> QED BY <1>6, <2>1, <2>3
<1> QED BY <1>1, <1>7, <1>8

(* The fee of a flash loan is an amount. *)
LEMMA FlashFeeTyped ==
  ASSUME NEW amount \in Nat, flash_fee \in Nat
  PROVE  BasisPoints(amount, flash_fee) \in Nat
BY PointsBelow

(* What is taken from yield and reserves, and lent for one call. *)
LEMMA YieldDebts ==
  ASSUME PoolsSound, DebtsOwed, YieldNext
  PROVE  DebtsStay
<1>1. PICK a \in Tokens, u \in Account :
        \/ \E amount \in PriorityAmount : WithdrawPriority(u, a, amount)
        \/ \E amount \in ReserveAmount, to \in Account : PayReserves(u, a, amount, to)
        \/ \E amount \in FlashAmount, returned \in FlashReturn :
             FlashLoan(u, a, amount, returned)
  BY DEF YieldNext
<1>2. FlashAmount \subseteq Nat /\ flash_fee \in Nat /\ PoolsTyped
  BY LendingArguments DEF PoolsSound, LoansTyped
<1>3. ASSUME UNCHANGED loanVars PROVE LoansStay
  BY <1>3 DEF LoansStay, loanVars
<1> DEFINE old == pools[a]
           b == old.total_borrowed
<1>4. ASSUME a \in DOMAIN pools
      PROVE  /\ old \in PoolState /\ b \in Nat /\ old.total_deposits \in Nat
             /\ b <= old.total_deposits
             /\ \A t \in DOMAIN pools : pools[t].total_borrowed \in Nat
  BY <1>2, <1>4, PoolAmounts
<1>5. ASSUME a \in DOMAIN pools, LoansStay, NEW pool, SetPool(a, pool),
             pool.total_borrowed = b, b <= pool.total_deposits
      PROVE  DebtsStay
  <2>1. Covered(pool) /\ pool.total_borrowed <= old.total_borrowed
    BY <1>4, <1>5 DEF Covered
  <2> QED BY <1>4, <1>5, <2>1, PoolWritten
<1>6. ASSUME NEW amount, WithdrawPriority(u, a, amount) PROVE DebtsStay
  <2> DEFINE v == old.retained_yield - amount
             pool == [old EXCEPT !.retained_yield = v]
  <2>1. a \in DOMAIN pools /\ SetPool(a, pool) /\ LoansStay
    BY <1>3, <1>6 DEF WithdrawPriority, Supported
  <2>2. pool.total_borrowed = b /\ b <= pool.total_deposits
    <3>1. old \in PoolState /\ b <= old.total_deposits
      BY <1>4, <2>1
    <3> HIDE DEF v, old
    <3> QED BY <3>1 DEF PoolState
  <2> HIDE DEF pool, old
  <2> QED BY <1>5, <2>1, <2>2
<1>7. ASSUME NEW amount, NEW to, PayReserves(u, a, amount, to) PROVE DebtsStay
  <2> DEFINE v == old.bad_debt_reserve - amount
             pool == [old EXCEPT !.bad_debt_reserve = v]
  <2>1. a \in DOMAIN pools /\ SetPool(a, pool) /\ LoansStay
    BY <1>3, <1>7 DEF PayReserves, Supported
  <2>2. pool.total_borrowed = b /\ b <= pool.total_deposits
    <3>1. old \in PoolState /\ b <= old.total_deposits
      BY <1>4, <2>1
    <3> HIDE DEF v, old
    <3> QED BY <3>1 DEF PoolState
  <2> HIDE DEF pool, old
  <2> QED BY <1>5, <2>1, <2>2
<1>8. ASSUME NEW amount \in FlashAmount, NEW returned, FlashLoan(u, a, amount, returned)
      PROVE  DebtsStay
  <2> DEFINE fee == BasisPoints(amount, flash_fee)
             v == old.total_deposits + fee
             pool == [old EXCEPT !.total_deposits = v]
  <2>1. a \in DOMAIN pools /\ SetPool(a, pool) /\ LoansStay
    BY <1>3, <1>8 DEF FlashLoan, Running, Supported
  <2>2. fee \in Nat
    <3>1. amount \in Nat /\ flash_fee \in Nat
      BY <1>2
    <3> HIDE DEF old, v, pool
    <3> QED BY <3>1, FlashFeeTyped
  <2> HIDE DEF fee
  <2>3. pool.total_borrowed = b /\ b <= pool.total_deposits
    <3>1. old \in PoolState /\ b <= old.total_deposits /\ b \in Nat /\ old.total_deposits \in Nat
      BY <1>4, <2>1
    <3> HIDE DEF old
    <3>2. b <= v
      BY <2>2, <3>1
    <3> HIDE DEF v
    <3> QED BY <3>1, <3>2 DEF PoolState
  <2> HIDE DEF pool, old
  <2> QED BY <1>5, <2>1, <2>3
<1> QED BY <1>1, <1>6, <1>7, <1>8

(* A liquidation reduces what the pool counts on.                          *)
LEMMA LiquidationDebts ==
  ASSUME PoolsSound, DebtsOwed, LiquidateNext
  PROVE  DebtsStay
<1>1. PICK u \in Account, liquidator \in Account, amount \in LiquidationAmount :
        LendingLiquidate(liquidator, u, amount)
  BY DEF LiquidateNext
<1> DEFINE loan == Primary(u)
           a == loan.asset
           old == pools[a]
           b == SaturatingSub(old.total_borrowed, amount)
           d == old.total_deposits + amount
           pool == [old EXCEPT !.total_borrowed = b, !.total_deposits = d]
<1>2. HasLoan(u) /\ SetPool(a, pool) /\ LoansStay
  BY <1>1 DEF LendingLiquidate, loanVars, LoansStay
<1>3. a \in DOMAIN pools /\ amount \in Nat /\ PoolsTyped
  BY <1>2, PrimaryTyped, LendingArguments DEF Served, PoolsSound
<1>4. /\ old \in PoolState /\ old.total_borrowed \in Nat /\ old.total_deposits \in Nat
      /\ old.total_borrowed <= old.total_deposits
      /\ \A t \in DOMAIN pools : pools[t].total_borrowed \in Nat
  BY <1>3, PoolAmounts
<1>5. b \in Nat /\ b <= d /\ b <= old.total_borrowed
  <2> HIDE DEF old
  <2> QED BY <1>3, <1>4 DEF SaturatingSub
<1>6. pool.total_borrowed = b /\ pool.total_deposits = d
  <2> HIDE DEF old, b, d
  <2> QED BY <1>4 DEF PoolState
<1> HIDE DEF pool, b, d
<1>7. Covered(pool) /\ pool.total_borrowed <= old.total_borrowed
  BY <1>5, <1>6 DEF Covered
<1> QED BY <1>2, <1>3, <1>4, <1>7, PoolWritten

(* The new pool of an asset that had none lends nothing.                   *)
LEMMA NewPoolDebts ==
  ASSUME PoolsSound, DebtsOwed, NEW u, NEW a, AddAssetPool(u, a)
  PROVE  DebtsStay
<1>1. /\ ~InSeq(assets, a) /\ pools' = Put(pools, a, NewPool) /\ UNCHANGED loanVars
  BY DEF AddAssetPool
<1>2. LoansStay /\ PoolsTyped
  BY <1>1 DEF LoansStay, loanVars, PoolsSound
<1>3. a \notin DOMAIN pools
  BY <1>1, <1>2 DEF PoolsTyped
<1>4. /\ DOMAIN pools' = DOMAIN pools \cup {a} /\ pools'[a] = NewPool
      /\ \A t \in DOMAIN pools : pools'[t] = pools[t]
  BY <1>1, <1>3 DEF Put
<1>5. NewPool.total_borrowed = 0 /\ Covered(NewPool)
  BY DEF NewPool, Covered
<1>6. \A t \in DOMAIN pools : pools[t].total_borrowed \in Nat /\ Covered(pools[t])
  BY <1>2, PoolAmounts DEF DebtsOwed
<1>7. \A t \in DOMAIN pools : pools[t].total_borrowed <= pools[t].total_borrowed
  BY <1>6
<1> QED BY <1>2, <1>4, <1>5, <1>6, <1>7 DEF DebtsStay

(* What the admin sets of a pool is none of its amounts.                   *)
LEMMA PoolFieldDebts ==
  ASSUME PoolsSound, DebtsOwed, NEW u, NEW a, NEW s \in PoolSetting,
         SetPoolField(u, a, s.field, s.value)
  PROVE  DebtsStay
<1> DEFINE old == pools[a]
           v == s.value
           f == s.field
           pool == [old EXCEPT ![f] = v]
<1>1. a \in DOMAIN pools /\ pools' = [pools EXCEPT ![a][f] = v] /\ LoansStay
  BY DEF SetPoolField, Supported, LoansStay, loanVars
<1>2. PoolsTyped /\ f \in {"is_paused", "grace_period", "late_fee_rate_bps"}
  BY LendingArguments DEF PoolsSound
<1>3. old \in PoolState /\ \A t \in DOMAIN pools : pools[t].total_borrowed \in Nat
  BY <1>1, <1>2, PoolAmounts
<1>4. pool.total_borrowed = old.total_borrowed /\ pool.total_deposits = old.total_deposits
  <2> HIDE DEF old, v, f
  <2> QED BY <1>2, <1>3 DEF PoolState
<1>5. Covered(pool) /\ pool.total_borrowed <= old.total_borrowed
  <2>1. Covered(old) /\ old.total_borrowed \in Nat
    BY <1>1, <1>3 DEF DebtsOwed
  <2> HIDE DEF pool, old
  <2> QED BY <1>4, <2>1 DEF Covered
<1>6. SetPool(a, pool)
  BY <1>1 DEF SetPool, Put
<1> HIDE DEF pool
<1> QED BY <1>1, <1>3, <1>5, <1>6, PoolWritten

(* What the admin does. *)
LEMMA AdminDebts ==
  ASSUME PoolsSound, DebtsOwed, AdminNext
  PROVE  DebtsStay
<1>1. PICK u \in Account :
        \/ \E a \in NewAsset : AddAssetPool(u, a)
        \/ \E account \in Account, role \in RoleGrant, granted \in BOOLEAN :
             SetLendingRole(u, account, role, granted)
        \/ \E value \in BOOLEAN : SetLendingPaused(u, value)
        \/ \E a \in Tokens, s \in PoolSetting : SetPoolField(u, a, s.field, s.value)
        \/ SetNftToken(u)
        \/ \E t \in CollateralToken, listed \in BOOLEAN : SetCollateral(u, t, listed)
  BY DEF AdminNext
<1>2. ASSUME NEW a, AddAssetPool(u, a) PROVE DebtsStay
  BY <1>2, NewPoolDebts
<1>3. ASSUME NEW a, NEW s \in PoolSetting, SetPoolField(u, a, s.field, s.value) PROVE DebtsStay
  BY <1>3, PoolFieldDebts
<1>4. ASSUME UNCHANGED <<loanVars, poolVars>> PROVE DebtsStay
  <2>1. LoansStay /\ UNCHANGED pools /\ PoolsTyped
    BY <1>4 DEF LoansStay, loanVars, poolVars, PoolsSound
  <2> QED BY <2>1, PoolsUnwritten
<1>5. ASSUME NEW account, NEW role, NEW granted, SetLendingRole(u, account, role, granted)
      PROVE  DebtsStay
  BY <1>4, <1>5 DEF SetLendingRole
<1>6. ASSUME NEW value, SetLendingPaused(u, value) PROVE DebtsStay
  BY <1>4, <1>6 DEF SetLendingPaused
<1>7. ASSUME SetNftToken(u) PROVE DebtsStay
  BY <1>4, <1>7 DEF SetNftToken
<1>8. ASSUME NEW t, NEW listed, SetCollateral(u, t, listed) PROVE DebtsStay
  BY <1>4, <1>8 DEF SetCollateral
<1> QED BY <1>1, <1>2, <1>3, <1>5, <1>6, <1>7, <1>8

(* Neither does a reserve factor concern what was lent.                    *)
LEMMA FactorDebts ==
  ASSUME PoolsSound, DebtsOwed, NEW u, NEW a, NEW bps, SetReserveFactor(u, a, bps)
  PROVE  DebtsStay
<1> DEFINE old == pools[a]
           pool == [old EXCEPT !.reserve_factor_bps = bps]
<1>1. a \in DOMAIN pools /\ SetPool(a, pool) /\ LoansStay
  BY DEF SetReserveFactor, Supported, LoansStay, loanVars
<1>2. PoolsTyped
  BY DEF PoolsSound
<1>3. old \in PoolState /\ \A t \in DOMAIN pools : pools[t].total_borrowed \in Nat
  BY <1>1, <1>2, PoolAmounts
<1>4. pool.total_borrowed = old.total_borrowed /\ pool.total_deposits = old.total_deposits
  <2> HIDE DEF old
  <2> QED BY <1>3 DEF PoolState
<1>5. Covered(pool) /\ pool.total_borrowed <= old.total_borrowed
  <2>1. Covered(old) /\ old.total_borrowed \in Nat
    BY <1>1, <1>3 DEF DebtsOwed
  <2> HIDE DEF pool, old
  <2> QED BY <1>4, <2>1 DEF Covered
<1> HIDE DEF pool
<1> QED BY <1>1, <1>3, <1>5, PoolWritten

(* Rates, fees and the insurance fund. *)
LEMMA FeeDebts ==
  ASSUME PoolsSound, DebtsOwed, FeeNext
  PROVE  DebtsStay
<1>1. PICK u \in Account :
        \/ \E bps \in FeeBps :
             \/ SetFlashLoanFee(u, bps) \/ SetInsurancePremiumRate(u, bps)
             \/ \E a \in Tokens : SetReserveFactor(u, a, bps)
        \/ \E amount \in InsuranceAmount :
             DepositToInsuranceFund(u, amount) \/ WithdrawFromInsuranceFund(u, amount)
        \/ \E model \in CurveModel : SetRateModel(u, model)
  BY DEF FeeNext
<1>2. ASSUME UNCHANGED <<loanVars, poolVars>> PROVE DebtsStay
  <2>1. LoansStay /\ UNCHANGED pools /\ PoolsTyped
    BY <1>2 DEF LoansStay, loanVars, poolVars, PoolsSound
  <2> QED BY <2>1, PoolsUnwritten
<1>3. ASSUME NEW bps, SetFlashLoanFee(u, bps) PROVE DebtsStay
  BY <1>2, <1>3 DEF SetFlashLoanFee
<1>4. ASSUME NEW bps, SetInsurancePremiumRate(u, bps) PROVE DebtsStay
  BY <1>2, <1>4 DEF SetInsurancePremiumRate
<1>5. ASSUME NEW amount, DepositToInsuranceFund(u, amount) PROVE DebtsStay
  BY <1>2, <1>5 DEF DepositToInsuranceFund
<1>6. ASSUME NEW amount, WithdrawFromInsuranceFund(u, amount) PROVE DebtsStay
  BY <1>2, <1>6 DEF WithdrawFromInsuranceFund
<1>7. ASSUME NEW model, SetRateModel(u, model) PROVE DebtsStay
  BY <1>2, <1>7 DEF SetRateModel
<1> QED BY <1>1, <1>3, <1>4, <1>5, <1>6, <1>7, FactorDebts

(* Staking, the tokens of loans, and time. *)
Aside ==
  \/ StakingNext \/ NftNext
  \/ (\E days \in Steps : Tick(days)) /\ UNCHANGED lendingVars
  \/ UNCHANGED <<clock, lendingVars>>

(* They concern no debt. *)
LEMMA OtherDebts ==
  ASSUME PoolsSound, DebtsOwed, Aside
  PROVE  DebtsStay
<1>1. ASSUME UNCHANGED <<loans, loan_by_id, user_loans, next_loan_id, pools>> PROVE DebtsStay
  <2>1. LoansStay /\ UNCHANGED pools /\ PoolsTyped
    BY <1>1 DEF LoansStay, PoolsSound
  <2> QED BY <2>1, PoolsUnwritten
<1>2. CASE StakingNext
  <2>1. PICK a \in Tokens :
          \/ \E u \in Account :
               \/ \E n \in ShareAmount : StakeLpTokens(u, a, n) \/ UnstakeLpTokens(u, a, n)
               \/ ClaimRewards(u, a)
               \/ \E rate \in RewardRate : SetRewardRate(u, a, rate)
          \/ GetPendingRewards(a)
    BY <1>2 DEF StakingNext
  <2>2. ASSUME NEW u, NEW n, StakeLpTokens(u, a, n) PROVE DebtsStay
    BY <1>1, <2>2 DEF StakeLpTokens, loanVars, poolVars
  <2>3. ASSUME NEW u, NEW n, UnstakeLpTokens(u, a, n) PROVE DebtsStay
    BY <1>1, <2>3 DEF UnstakeLpTokens, loanVars, poolVars
  <2>4. ASSUME NEW u, ClaimRewards(u, a) PROVE DebtsStay
    BY <1>1, <2>4 DEF ClaimRewards, loanVars, poolVars
  <2>5. ASSUME NEW u, NEW rate, SetRewardRate(u, a, rate) PROVE DebtsStay
    BY <1>1, <2>5 DEF SetRewardRate, loanVars, poolVars
  <2>6. ASSUME GetPendingRewards(a) PROVE DebtsStay
    BY <1>1, <2>6 DEF GetPendingRewards, loanVars, poolVars
  <2> QED BY <2>1, <2>2, <2>3, <2>4, <2>5, <2>6
<1>3. CASE NftNext
  BY <1>1, <1>3 DEF NftNext, poolVars
<1>4. CASE UNCHANGED lendingVars
  BY <1>1, <1>4 DEF lendingVars, loanVars, poolVars
<1> QED BY <1>2, <1>3, <1>4 DEF Aside

(* New loans, and a pool that counts on no more than they add.             *)
LEMMA NewLoansMove ==
  ASSUME LoanBook, NEW u, NEW closed, NEW made, NEW n, NewLoans(u, closed, made, n),
         NEW a \in DOMAIN pools, NEW pool, SetPool(a, pool), Covered(pool),
         OfAsset(a, closed, ById(made)),
         pool.total_borrowed + Total(ClosedDebts(closed))
           <= pools[a].total_borrowed + Total(MadeDebts(ById(made)))
  PROVE  DebtCall
<1>1. Turnover(u, closed, ById(made))
  BY LoansTurned DEF NewLoans
<1>2. DOMAIN pools' = DOMAIN pools /\ pools'[a] = pool
      /\ \A t \in DOMAIN pools : t # a => pools'[t] = pools[t]
  BY DEF SetPool, Put
<1>3. DebtsMove(u, closed, ById(made), a)
  BY <1>1, <1>2 DEF DebtsMove
<1> QED BY <1>3 DEF DebtCall

(* What one new loan adds. *)
LEMMA OneDebt ==
  ASSUME NEW loan, Numbered(<<loan>>, 1), loan.principal \in Nat
  PROVE  /\ Total(MadeDebts(ById(<<loan>>))) = loan.principal
         /\ \A id \in DOMAIN ById(<<loan>>) : ById(<<loan>>)[id] = loan
<1> DEFINE made == <<loan>>
           recs == ById(made)
           m == next_loan_id
<1>1. made[1] = loan
  OBVIOUS
<1> HIDE DEF made
<1>2. m \in Nat
  BY DEF Numbered, made
<1>3. /\ m + 1 - 1 \in DOMAIN recs
      /\ \A id \in DOMAIN recs : \E i \in 1..1 : id = m + i - 1 /\ recs[id] = made[i]
  BY IdsMade DEF made
<1> HIDE DEF recs
<1>4. DOMAIN recs = {m} /\ \A id \in DOMAIN recs : recs[id] = loan
  BY <1>1, <1>2, <1>3
<1>5. DOMAIN MadeDebts(recs) = {m} /\ MadeDebts(recs)[m] = loan.principal
  BY <1>4 DEF MadeDebts
<1>6. Total(MadeDebts(recs)) = loan.principal
  BY <1>5, TotalOfOne
<1> QED BY <1>4, <1>6 DEF recs, made

(* What one closed loan owed. *)
LEMMA ClosedDebt ==
  ASSUME NEW id, loan_by_id[id].principal \in Nat
  PROVE  Total(ClosedDebts({id})) = loan_by_id[id].principal
<1>1. DOMAIN ClosedDebts({id}) = {id} /\ ClosedDebts({id})[id] = loan_by_id[id].principal
  BY DEF ClosedDebts
<1> QED BY <1>1, TotalOfOne

(* A loan is at most what is there. *)
LEMMA BorrowDebts ==
  ASSUME PoolsSound, LoanBook, DebtsOwed, NEW u \in Account, NEW a \in Tokens,
         NEW request \in LoanRequest, NEW t \in CollateralToken, NEW days \in LoanDays,
         Borrow(u, a, request.amount, t, request.collateral, days)
  PROVE  DebtCall
<1> DEFINE amount == request.amount
           old == pools[a]
           b == old.total_borrowed + amount
           pool == [old EXCEPT !.total_borrowed = b]
<1>1. PICK loan : /\ NewLoans(u, {}, <<loan>>, 1)
                  /\ loan.asset = a /\ loan.principal = request.amount
  BY BorrowMakes
<1>2. /\ a \in DOMAIN pools /\ SetPool(a, pool)
      /\ amount > 0 /\ amount <= AvailableLiquidity(old)
  BY DEF Borrow, Running, Supported
<1>3. amount \in Nat /\ PoolsTyped
  BY LendingArguments DEF PoolsSound
<1>4. /\ old \in PoolState /\ old.total_borrowed \in Nat /\ old.total_deposits \in Nat
      /\ old.total_borrowed <= old.total_deposits
  BY <1>2, <1>3, PoolAmounts
<1>5. b \in Nat /\ b <= old.total_deposits
  <2> HIDE DEF old, amount
  <2> QED BY <1>2, <1>3, <1>4 DEF AvailableLiquidity, SaturatingSub
<1>6. pool.total_borrowed = b /\ pool.total_deposits = old.total_deposits
  <2> HIDE DEF old, b
  <2> QED BY <1>4 DEF PoolState
<1> HIDE DEF pool
<1>7. Covered(pool)
  BY <1>5, <1>6 DEF Covered
<1>8. /\ Total(MadeDebts(ById(<<loan>>))) = amount
      /\ \A id \in DOMAIN ById(<<loan>>) : ById(<<loan>>)[id] = loan
  <2>1. Numbered(<<loan>>, 1) /\ loan.principal \in Nat
    BY <1>1, <1>3 DEF NewLoans, MadeFor
  <2> QED BY <1>1, <2>1, OneDebt
<1>9. Total(ClosedDebts({})) = 0
  BY TotalOfNothing DEF ClosedDebts
<1>10. OfAsset(a, {}, ById(<<loan>>))
  BY <1>1, <1>8 DEF OfAsset
<1>11. pool.total_borrowed + Total(ClosedDebts({}))
         <= old.total_borrowed + Total(MadeDebts(ById(<<loan>>)))
  <2>1. Total(MadeDebts(ById(<<loan>>))) = amount
    BY <1>8
  <2> HIDE DEF old, amount
  <2> QED BY <1>3, <1>4, <1>6, <1>9, <2>1
<1> QED BY <1>1, <1>2, <1>7, <1>10, <1>11, NewLoansMove

(* A fee is no debt. *)
LEMMA FeePaid ==
  ASSUME PoolsSound, DebtsOwed, NEW u, NEW a \in DOMAIN pools, NEW fee, PayFee(u, a, fee)
  PROVE  \E pool : /\ SetPool(a, pool) /\ Covered(pool)
                   /\ pool.total_borrowed = pools[a].total_borrowed
                   /\ pools[a].total_borrowed \in Nat
<1> DEFINE old == pools[a]
           v == old.retained_yield + fee
           pool == [old EXCEPT !.retained_yield = v]
<1>1. SetPool(a, pool)
  BY DEF PayFee
<1>2. old \in PoolState /\ Covered(old) /\ old.total_borrowed \in Nat
  BY PoolAmounts DEF PoolsSound, DebtsOwed
<1>3. pool.total_borrowed = old.total_borrowed /\ pool.total_deposits = old.total_deposits
  <2> HIDE DEF old, v
  <2> QED BY <1>2 DEF PoolState
<1>4. Covered(pool)
  <2> HIDE DEF pool, old
  <2> QED BY <1>2, <1>3 DEF Covered
<1> HIDE DEF pool
<1> QED BY <1>1, <1>2, <1>3, <1>4

(* The new terms owe at least what the old ones did. *)
LEMMA RefinanceDebts ==
  ASSUME PoolsSound, LoanBook, DebtsOwed, NEW u, NEW days \in Nat, RefinanceLoan(u, days)
  PROVE  DebtCall
<1> DEFINE old == Primary(u)
           a == old.asset
           id == old.loan_id
<1>1. PICK loan : /\ HasLoan(u) /\ NewLoans(u, {id}, <<loan>>, 1)
                  /\ loan.asset = a /\ old.principal <= loan.principal
  BY RefinanceMakes
<1>2. PICK fee : PayFee(u, a, fee)
  BY DEF RefinanceLoan
<1>3. a \in DOMAIN pools /\ old.principal \in Nat /\ loan_by_id[id] = old
  BY <1>1, PrimaryTyped, PrimaryListed DEF Served
<1> HIDE DEF old, a, id
<1>4. PICK pool : /\ SetPool(a, pool) /\ Covered(pool)
                  /\ pool.total_borrowed = pools[a].total_borrowed
                  /\ pools[a].total_borrowed \in Nat
  BY <1>2, <1>3, FeePaid
<1>5. Numbered(<<loan>>, 1) /\ loan.principal \in Nat
  <2>1. MadeFor(u, <<loan>>, 1)
    BY <1>1 DEF NewLoans
  <2>2. <<loan>>[1] \in LoanRecord /\ <<loan>>[1] = loan
    BY <2>1 DEF MadeFor
  <2> QED BY <2>1, <2>2 DEF MadeFor, LoanRecord
<1>6. /\ Total(MadeDebts(ById(<<loan>>))) = loan.principal
      /\ \A k \in DOMAIN ById(<<loan>>) : ById(<<loan>>)[k] = loan
  BY <1>5, OneDebt
<1>7. Total(ClosedDebts({id})) = old.principal
  BY <1>3, ClosedDebt
<1>8. OfAsset(a, {id}, ById(<<loan>>))
  BY <1>1, <1>3, <1>6 DEF OfAsset, a
<1>9. pool.total_borrowed + Total(ClosedDebts({id}))
        <= pools[a].total_borrowed + Total(MadeDebts(ById(<<loan>>)))
  BY <1>1, <1>3, <1>4, <1>5, <1>6, <1>7
<1> QED BY <1>1, <1>3, <1>4, <1>8, <1>9, NewLoansMove

(* Loans put together owe at least what each of them did. *)
LEMMA ConsolidateDebts ==
  ASSUME PoolsSound, LoanBook, DebtsOwed, NEW u, NEW ids \in Seq(Nat), NEW days \in Nat,
         ConsolidateLoans(u, ids, days)
  PROVE  DebtCall
<1>20. PICK loan : MadeOfLoans(u, ids, loan)
  BY ConsolidateMakes
<1> DEFINE closed == {ids[i] : i \in DOMAIN ids}
           debts == [i \in DOMAIN ids |-> OutstandingBalance(loan_by_id[ids[i]])]
           a == loan_by_id[ids[1]].asset
           owed == ClosedDebts(closed)
<1>1. /\ NewLoans(u, closed, <<loan>>, 1)
      /\ \A id \in closed : loan_by_id[id].asset = loan.asset
      /\ Total(debts) \in Nat /\ loan.principal \in Nat
      /\ Total(debts) <= loan.principal
  BY <1>20 DEF MadeOfLoans, Gathered, DebtsGathered
<1>2. PICK fee : PayFee(u, a, fee)
  BY DEF ConsolidateLoans
<1>3. 1 \in DOMAIN ids /\ \A i \in DOMAIN ids : ids[i] \in DOMAIN loan_by_id
  <2>1. Len(ids) >= 1 /\ \A i \in DOMAIN ids : ids[i] \in DOMAIN loan_by_id
    BY DEF ConsolidateLoans
  <2> QED BY <2>1
<1>4. clock \in Nat /\ IsMap(loan_by_id, Nat, LoanRecord)
  BY BookTyped
<1>5. a \in DOMAIN pools
  BY <1>3 DEF PoolsSound, LoansTyped, Served
<1>6. PICK pool : /\ SetPool(a, pool) /\ Covered(pool)
                  /\ pool.total_borrowed = pools[a].total_borrowed
                  /\ pools[a].total_borrowed \in Nat
  <2> HIDE DEF a
  <2> QED BY <1>2, <1>5, FeePaid
<1>7. Numbered(<<loan>>, 1)
  BY <1>1 DEF NewLoans, MadeFor
<1>8. /\ Total(MadeDebts(ById(<<loan>>))) = loan.principal
      /\ \A k \in DOMAIN ById(<<loan>>) : ById(<<loan>>)[k] = loan
  BY <1>1, <1>7, OneDebt
<1>9. \A i \in DOMAIN ids :
        /\ loan_by_id[ids[i]].principal \in Nat /\ debts[i] \in Nat
        /\ loan_by_id[ids[i]].principal <= debts[i]
  <2>1. ASSUME NEW i \in DOMAIN ids
        PROVE  LET l == loan_by_id[ids[i]]
               IN  l.principal \in Nat /\ OutstandingBalance(l) \in Nat
                   /\ l.principal <= OutstandingBalance(l)
    <3> DEFINE l == loan_by_id[ids[i]]
    <3>1. l \in LoanRecord
      BY <1>3, <1>4 DEF IsMap
    <3> HIDE DEF l
    <3>2. /\ l.principal \in Nat /\ OutstandingBalance(l) \in Nat
          /\ OutstandingBalance(l) - l.principal \in Nat
      BY <1>4, <3>1, LoanAmounts
    <3>3. l.principal <= OutstandingBalance(l)
      BY <3>2
    <3> QED BY <3>2, <3>3 DEF l
  <2> QED BY <2>1
<1>10. IsFiniteSet(DOMAIN ids) /\ IsFiniteSet(closed)
  <2>1. IsFiniteSet(DOMAIN ids)
    BY RowsAreFinite DEF IsSeq
  <2>2. closed \subseteq DOMAIN loan_by_id /\ IsFiniteSet(DOMAIN loan_by_id)
    BY <1>3, <1>4, DebtsTyped, BookTyped
  <2> QED BY <2>1, <2>2, FS_Subset
<1>11. Total(owed) \in Nat /\ Total(owed) <= Total(debts)
  <2>1. IsFiniteSet(DOMAIN debts) /\ \A i \in DOMAIN debts : debts[i] \in Nat
    BY <1>9, <1>10
  <2>2. /\ DOMAIN owed = closed /\ IsFiniteSet(DOMAIN owed)
        /\ \A k \in DOMAIN owed : owed[k] \in Nat
    BY <1>9, <1>10 DEF ClosedDebts
  <2>3. \A k \in DOMAIN owed : \E i \in DOMAIN debts : ids[i] = k /\ owed[k] <= debts[i]
    BY <1>9, <2>2 DEF ClosedDebts
  <2> HIDE DEF owed, debts
  <2> QED BY <2>1, <2>2, <2>3, ImageTotal
<1>12. loan.asset = a
  BY <1>1, <1>3
<1> HIDE DEF closed, debts, a, owed
<1>13. OfAsset(a, closed, ById(<<loan>>))
  BY <1>1, <1>8, <1>12 DEF OfAsset
<1>14. pool.total_borrowed + Total(owed)
         <= pools[a].total_borrowed + Total(MadeDebts(ById(<<loan>>)))
  BY <1>1, <1>6, <1>8, <1>11
<1> QED BY <1>1, <1>5, <1>6, <1>13, <1>14, NewLoansMove DEF owed

(* The parts owe together at least what the whole did. *)
LEMMA SplitDebts ==
  ASSUME PoolsSound, LoanBook, DebtsOwed, NEW u, NEW parts \in Seq(Nat), NEW days \in Nat,
         SplitLoan(u, parts, days)
  PROVE  DebtCall
<1>1. /\ HasLoan(u) /\ Primary(u).principal \in Nat /\ Total(parts) \in Nat
      /\ Primary(u).principal <= Total(parts)
  BY SplitMakes
<1>21. PICK made : MadeOfParts(u, parts, made)
  BY SplitMakes
<1> DEFINE old == Primary(u)
           a == old.asset
           id == old.loan_id
           n == Len(parts)
<1>2. /\ NewLoans(u, {id}, made, n) /\ DOMAIN made = DOMAIN parts
      /\ \A i \in DOMAIN parts : made[i].asset = a /\ made[i].principal = parts[i]
  BY <1>21 DEF MadeOfParts
<1>30. old.principal \in Nat /\ Total(parts) \in Nat /\ old.principal <= Total(parts)
  BY <1>1
<1>3. PICK fee : PayFee(u, a, fee)
  BY DEF SplitLoan
<1>4. a \in DOMAIN pools /\ loan_by_id[id] = old
  BY <1>1, PrimaryTyped, PrimaryListed DEF Served
<1> HIDE DEF old, a, id
<1>5. PICK pool : /\ SetPool(a, pool) /\ Covered(pool)
                  /\ pool.total_borrowed = pools[a].total_borrowed
                  /\ pools[a].total_borrowed \in Nat
  BY <1>3, <1>4, FeePaid
<1> DEFINE recs == ById(made)
           m == next_loan_id
           adds == MadeDebts(recs)
<1>6. /\ m \in Nat /\ n \in Nat /\ DOMAIN parts = 1..n /\ Numbered(made, n)
      /\ \A i \in 1..n : parts[i] \in Nat
  BY <1>2 DEF NewLoans, MadeFor, Numbered
<1>7. /\ \A i \in 1..n : m + i - 1 \in DOMAIN recs /\ recs[m + i - 1] = made[i]
      /\ \A k \in DOMAIN recs : /\ k \in Nat /\ m <= k /\ k < m + n
                                 /\ \E i \in 1..n : k = m + i - 1 /\ recs[k] = made[i]
  BY <1>6, IdsMade
<1> HIDE DEF recs, n, m
<1>20. ASSUME NEW k \in DOMAIN recs
       PROVE  k \in Nat /\ m <= k /\ k < m + n /\ recs[k].asset = a /\ recs[k].principal \in Nat
  <2>1. PICK i \in 1..n : k = m + i - 1 /\ recs[k] = made[i]
    BY <1>7
  <2>2. made[i].asset = a /\ made[i].principal = parts[i] /\ parts[i] \in Nat
    BY <1>2, <1>6
  <2> QED BY <1>7, <2>1, <2>2
<1>8. IsFiniteSet(DOMAIN adds) /\ \A k \in DOMAIN adds : adds[k] \in Nat
  <2>1. DOMAIN adds \subseteq m..(m + n)
    BY <1>6, <1>20 DEF MadeDebts
  <2>2. IsFiniteSet(m..(m + n))
    BY <1>6, FS_Interval
  <2>3. \A k \in DOMAIN adds : adds[k] \in Nat
    BY <1>20 DEF MadeDebts
  <2> QED BY <2>1, <2>2, <2>3, FS_Subset
<1>9. Total(parts) <= Total(adds) /\ Total(adds) \in Nat
  <2> DEFINE h == [k \in Nat |-> k - m + 1]
  <2>1. IsFiniteSet(DOMAIN parts) /\ \A i \in DOMAIN parts : parts[i] \in Nat
    BY <1>6, FS_Interval
  <2>2. ASSUME NEW i \in DOMAIN parts
        PROVE  \E k \in DOMAIN adds : h[k] = i /\ parts[i] <= adds[k]
    <3> DEFINE k == m + i - 1
    <3>1. i \in 1..n /\ i \in Nat /\ k \in DOMAIN recs /\ recs[k] = made[i] /\ k \in Nat
      <4>1. i \in 1..n /\ i \in Nat
        BY <1>6
      <4>2. m + i - 1 \in DOMAIN recs /\ recs[m + i - 1] = made[i]
        BY <1>7, <4>1
      <4> QED BY <4>1, <4>2, <1>20
    <3>2. h[k] = i
      BY <1>6, <3>1
    <3>3. adds[k] = parts[i] /\ parts[i] \in Nat /\ k \in DOMAIN adds
      <4> HIDE DEF k
      <4> QED BY <1>2, <1>6, <3>1 DEF MadeDebts
    <3>4. parts[i] <= adds[k]
      <4> HIDE DEF adds, k
      <4> QED BY <3>3
    <3> HIDE DEF adds, k, h
    <3> QED BY <3>2, <3>3, <3>4
  <2> HIDE DEF adds, h
  <2>3. \A i \in DOMAIN parts : \E k \in DOMAIN adds : h[k] = i /\ parts[i] <= adds[k]
    BY <2>2
  <2>4. IsFiniteSet(DOMAIN adds) /\ \A k \in DOMAIN adds : adds[k] \in Nat
    BY <1>8
  <2> QED BY <2>1, <2>3, <2>4, ImageTotal
<1>10. Total(ClosedDebts({id})) = old.principal
  BY <1>4, <1>30, ClosedDebt
<1>11. OfAsset(a, {id}, recs)
  BY <1>4, <1>20 DEF OfAsset, a
<1>12. pool.total_borrowed + Total(ClosedDebts({id})) <= pools[a].total_borrowed + Total(adds)
  <2> HIDE DEF adds
  <2> QED BY <1>5, <1>9, <1>10, <1>30
<1> QED BY <1>2, <1>4, <1>5, <1>11, <1>12, NewLoansMove DEF recs

(* A loan paid back is no longer owed nor counted on. *)
LEMMA RepayDebts ==
  ASSUME PoolsSound, LoanBook, DebtsOwed, NEW u, Repay(u)
  PROVE  DebtCall
<1> DEFINE loan == Primary(u)
           a == loan.asset
           id == loan.loan_id
           pool == Repaid(loan)
           recs == ById(<< >>)
<1>1. /\ HasLoan(u) /\ pools[a].total_borrowed >= loan.principal /\ SetPool(a, pool)
      /\ loans' = Drop(loans, u) /\ Replace(u, {id}, << >>) /\ UNCHANGED next_loan_id
  BY DEF Repay, Repaid
<1>2. /\ a \in DOMAIN pools /\ loan_by_id[id] = loan /\ OwnLoans(u, {id})
      /\ PoolsTyped /\ next_loan_id \in Nat
  BY <1>1, PrimaryTyped, PrimaryListed, BookTyped DEF Served
<1> HIDE DEF loan, pool, recs
<1>3. /\ pool.total_borrowed = pools[a].total_borrowed - loan.principal /\ loan.principal \in Nat
      /\ pool.total_borrowed \in Nat
      /\ pool.total_deposits \in Nat /\ pool.total_deposits >= pools[a].total_deposits
  BY <1>1, RepaidPool DEF loan, pool
<1>4. /\ pools[a].total_borrowed \in Nat /\ pools[a].total_deposits \in Nat
      /\ pools[a].total_borrowed <= pools[a].total_deposits
  BY <1>2, PoolAmounts
<1>5. Turnover(u, {id}, recs) /\ DOMAIN recs = {}
  BY <1>1, <1>2, LoanTurned DEF recs
<1>6. Total(ClosedDebts({id})) = loan.principal
  BY <1>2, <1>3, ClosedDebt
<1>7. Total(MadeDebts(recs)) = 0
  BY <1>5, TotalOfNothing DEF MadeDebts
<1>8. OfAsset(a, {id}, recs)
  BY <1>2, <1>5 DEF OfAsset
<1> HIDE DEF a, id
<1>9. Covered(pool)
  BY <1>3, <1>4 DEF Covered
<1>10. pool.total_borrowed + Total(ClosedDebts({id}))
         <= pools[a].total_borrowed + Total(MadeDebts(recs))
  BY <1>3, <1>4, <1>6, <1>7
<1>11. DOMAIN pools' = DOMAIN pools /\ pools'[a] = pool
       /\ \A t \in DOMAIN pools : t # a => pools'[t] = pools[t]
  BY <1>1, <1>2 DEF SetPool, Put
<1>12. DebtsMove(u, {id}, recs, a)
  BY <1>2, <1>5, <1>8, <1>9, <1>10, <1>11 DEF DebtsMove
<1> QED BY <1>12 DEF DebtCall

(* Whatever borrowers do. *)
LEMMA BorrowersDebts ==
  ASSUME PoolsSound, LoanBook, DebtsOwed, BorrowNext \/ RefinanceNext
  PROVE  DebtCall
<1>1. ASSUME NEW u \in Account, NEW a \in Tokens, NEW request \in LoanRequest,
             NEW t \in CollateralToken, NEW days \in LoanDays,
             Borrow(u, a, request.amount, t, request.collateral, days)
      PROVE  DebtCall
  BY <1>1, BorrowDebts
<1>2. ASSUME NEW u, Repay(u) PROVE DebtCall
  BY <1>2, RepayDebts
<1>3. LoanDays \subseteq Nat /\ LoanIds \subseteq Seq(Nat) /\ SplitParts \subseteq Seq(Nat)
  BY LendingArguments
<1>4. ASSUME NEW u, NEW days \in Nat, RefinanceLoan(u, days) PROVE DebtCall
  BY <1>4, RefinanceDebts
<1>5. ASSUME NEW u, NEW days \in Nat, NEW ids \in Seq(Nat), ConsolidateLoans(u, ids, days)
      PROVE  DebtCall
  BY <1>5, ConsolidateDebts
<1>6. ASSUME NEW u, NEW days \in Nat, NEW parts \in Seq(Nat), SplitLoan(u, parts, days)
      PROVE  DebtCall
  BY <1>6, SplitDebts
<1>7. CASE BorrowNext
  BY <1>1, <1>2, <1>7 DEF BorrowNext
<1>8. CASE RefinanceNext
  <2>1. PICK u \in Account, days \in LoanDays :
          \/ RefinanceLoan(u, days)
          \/ \E ids \in LoanIds : ConsolidateLoans(u, ids, days)
          \/ \E parts \in SplitParts : SplitLoan(u, parts, days)
    BY <1>8 DEF RefinanceNext
  <2> QED BY <1>3, <1>4, <1>5, <1>6, <2>1
<1> QED BY <1>7, <1>8

(* Every call leaves the debt of a pool owed or moves it with the loans.   *)
LEMMA EveryDebtCall ==
  ASSUME PoolsSound, LoanBook, DebtsOwed, [LendingNext]_<<clock, lendingVars>>
  PROVE  DebtCall
<1>1. CASE BorrowNext \/ RefinanceNext
  BY <1>1, BorrowersDebts
<1>2. CASE ShareNext \/ YieldNext \/ LiquidateNext
  BY <1>2, SharesDebts, YieldDebts, LiquidationDebts DEF DebtCall
<1>3. CASE AdminNext \/ FeeNext
  BY <1>3, AdminDebts, FeeDebts DEF DebtCall
<1>4. CASE Aside
  BY <1>4, OtherDebts DEF DebtCall
<1> QED BY <1>1, <1>2, <1>3, <1>4 DEF LendingNext, Aside

(* The first pool has lent nothing.                                        *)
LEMMA DebtsStart == LendingStart => DebtsOwed
<1> SUFFICES ASSUME LendingStart PROVE DebtsOwed
  OBVIOUS
<1>1. /\ DOMAIN pools = {MainToken} /\ pools[MainToken] = NewPool /\ DOMAIN loan_by_id = {}
  BY DEF LendingStart, LendingInit, Put, EmptyMap
<1>2. NewPool.total_borrowed = 0 /\ Covered(NewPool)
  BY DEF NewPool, Covered
<1>3. Total(DebtOf(MainToken)) = 0
  BY <1>1, TotalOfNothing DEF DebtOf
<1> QED BY <1>1, <1>2, <1>3 DEF DebtsOwed

(* A pool never counts on debt that is not owed, nor lends more than was   *)
(* deposited, through liquidations, splits and consolidations too.         *)
THEOREM DebtIsOwed == LendingSpec => []BorrowedIsOwed
<1> DEFINE Books == PoolsSound /\ LoanBook /\ DebtsOwed
<1>1. LendingStart => Books
  BY LendingStarts, BookStarts, DebtsStart
<1>2. Books /\ [LendingNext]_<<clock, lendingVars>> => Books'
  <2> SUFFICES ASSUME Books, [LendingNext]_<<clock, lendingVars>> PROVE Books'
    OBVIOUS
  <2>1. PoolsSound' /\ PoolsTyped'
    BY LendingStep DEF StepKeeps, PoolsSound
  <2>2. LoanBook'
    BY EveryCall, CallKeepsBook
  <2>3. DebtsOwed'
    BY <2>1, EveryDebtCall, CallKeepsDebts
  <2> QED BY <2>1, <2>2, <2>3
<1>3. Books => BorrowedIsOwed
  BY DebtsAreOwed
<1> QED BY <1>1, <1>2, <1>3, PTL DEF LendingSpec

(* The NFTs follow their loans and are counted, for any accounts, ids and  *)
(* calls, transfers to others among them.                                  *)
THEOREM NftsFollowLoans == LendingSpec => []NftFollowsLoan
<1> DEFINE Books == PoolsSound /\ LoanBook /\ NftsSound
<1>1. LendingStart => Books
  BY LendingStarts, BookStarts, NftsStart
<1>2. Books /\ [LendingNext]_<<clock, lendingVars>> => Books'
  <2> SUFFICES ASSUME Books, [LendingNext]_<<clock, lendingVars>> PROVE Books'
    OBVIOUS
  <2>1. PoolsSound'
    BY LendingStep DEF StepKeeps
  <2>2. LoanBook' /\ NftsSound'
    BY EveryCall, CallKeepsBook, CallKeepsNfts
  <2> QED BY <2>1, <2>2
<1>3. Books => NftFollowsLoan
  BY NftsFollow
<1> QED BY <1>1, <1>2, <1>3, PTL DEF LendingSpec

-----------------------------------------------------------------------------
(* Lending: stakes and rates. *)

StakeFields == {"amount", "reward_per_token_paid", "rewards", "stake_time"}

RewardFields ==
  {"total_staked", "reward_rate", "last_update_time", "reward_per_token_stored",
   "total_rewards_distributed"}

IsStake(s) == DOMAIN s = StakeFields /\ s.amount \in Nat

IsRewardPool(p) == DOMAIN p = RewardFields /\ p.total_staked \in Nat

(* What is staked of an asset, in the rewards. *)
StakedIn(a) == IF a \in DOMAIN reward_pools THEN reward_pools[a].total_staked ELSE 0

(* Every asset counts its stakes, and what is staked is of an asset that   *)
(* has a pool.                                                             *)
StakesCounted ==
  /\ IsFiniteSet(DOMAIN stakes)
  /\ \A key \in DOMAIN stakes :
       IsStake(stakes[key]) /\ (stakes[key].amount # 0 => key[2] \in DOMAIN pools)
  /\ \A a \in DOMAIN reward_pools : IsRewardPool(reward_pools[a])
  /\ \A a : StakedIn(a) = Total(StakesIn(a))

(* What the run checks. *)
LEMMA CountedAddUp ==
  ASSUME StakesCounted
  PROVE  StakesAddUp
BY DEF StakesCounted, StakedIn, StakesAddUp

(* The stakes of one asset. *)
LEMMA StakesTable ==
  ASSUME StakesCounted, NEW a
  PROVE  /\ IntMap(StakesIn(a)) /\ IsFiniteSet(DOMAIN StakesIn(a))
         /\ \A key : key \in DOMAIN StakesIn(a) <=> key \in DOMAIN stakes /\ key[2] = a
         /\ \A key \in DOMAIN StakesIn(a) : /\ StakesIn(a)[key] = stakes[key].amount
                                            /\ StakesIn(a)[key] \in Nat
<1>1. /\ DOMAIN StakesIn(a) = {k \in DOMAIN stakes : k[2] = a}
      /\ \A key \in DOMAIN StakesIn(a) : StakesIn(a)[key] = stakes[key].amount
  BY DEF StakesIn
<1>2. \A key \in DOMAIN stakes : stakes[key].amount \in Nat
  BY DEF StakesCounted, IsStake
<1>3. IsFiniteSet(DOMAIN StakesIn(a))
  BY <1>1, FS_Subset DEF StakesCounted
<1> QED BY <1>1, <1>2, <1>3 DEF IntMap

(* The stake of an account. *)
LEMMA StakeTyped ==
  ASSUME StakesCounted, NEW u, NEW a
  PROVE  /\ IsStake(StakeOf(u, a))
         /\ StakeOf(u, a).amount = Stored(StakesIn(a), <<u, a>>, 0)
         /\ StakeOf(u, a).amount # 0 => a \in DOMAIN pools
<1> DEFINE key == <<u, a>>
<1>1. key[2] = a
  OBVIOUS
<1>2. IsStake(NoStake) /\ NoStake.amount = 0
  BY DEF IsStake, NoStake, StakeFields
<1> HIDE DEF key
<1>3. StakeOf(u, a) = Stored(stakes, key, NoStake)
  BY DEF StakeOf, key
<1>4. CASE key \in DOMAIN stakes
  <2>1. StakeOf(u, a) = stakes[key] /\ key \in DOMAIN StakesIn(a)
    BY <1>1, <1>3, <1>4, StakesTable DEF Stored
  <2>2. StakesIn(a)[key] = stakes[key].amount
    BY <2>1, StakesTable
  <2> QED BY <1>1, <1>4, <2>1, <2>2 DEF StakesCounted, Stored, key
<1>5. CASE key \notin DOMAIN stakes
  <2>1. StakeOf(u, a) = NoStake /\ key \notin DOMAIN StakesIn(a)
    BY <1>3, <1>5, StakesTable DEF Stored
  <2> QED BY <1>2, <2>1 DEF Stored, key
<1> QED BY <1>4, <1>5

(* The rewards brought up to date share out over the same total. *)
LEMMA UpdatedTyped ==
  ASSUME StakesCounted, NEW a
  PROVE  /\ IsRewardPool(UpdatedRewardPool(a))
         /\ UpdatedRewardPool(a).total_staked = StakedIn(a)
<1> DEFINE pool == Stored(reward_pools, a, NewRewardPool(clock))
           per_token == IF pool.total_staked > 0
                        THEN SaturatingSub(clock, pool.last_update_time) * pool.reward_rate ELSE 0
           stored == pool.reward_per_token_stored + per_token
           given == pool.total_rewards_distributed + per_token * pool.total_staked
           new == [pool EXCEPT !.reward_per_token_stored = stored,
                               !.total_rewards_distributed = given,
                               !.last_update_time = clock]
<1>1. UpdatedRewardPool(a) = new
  BY DEF UpdatedRewardPool
<1>2. IsRewardPool(pool) /\ pool.total_staked = StakedIn(a)
  <2>1. IsRewardPool(NewRewardPool(clock)) /\ NewRewardPool(clock).total_staked = 0
    BY DEF NewRewardPool, IsRewardPool, RewardFields
  <2> QED BY <2>1 DEF Stored, StakedIn, StakesCounted
<1> HIDE DEF pool, stored, given
<1>3. DOMAIN new = DOMAIN pool /\ new.total_staked = pool.total_staked
  BY <1>2 DEF IsRewardPool, RewardFields
<1> HIDE DEF new
<1> QED BY <1>1, <1>2, <1>3 DEF IsRewardPool

(* Neither settling a stake nor what is written with it moves an amount.   *)
LEMMA SettledTyped ==
  ASSUME StakesCounted, NEW u, NEW a
  PROVE  IsStake(SettledStake(u, a)) /\ SettledStake(u, a).amount = StakeOf(u, a).amount
<1> DEFINE old == StakeOf(u, a)
           paid == Stored(reward_pools, a, NewRewardPool(clock)).reward_per_token_stored
           pending == PendingRewards(u, a)
           new == [old EXCEPT !.reward_per_token_paid = paid, !.rewards = pending]
<1>1. SettledStake(u, a) = new
  BY DEF SettledStake
<1>2. IsStake(old)
  BY StakeTyped
<1> HIDE DEF old, paid, pending
<1>3. DOMAIN new = DOMAIN old /\ new.amount = old.amount
  BY <1>2 DEF IsStake, StakeFields
<1> HIDE DEF new
<1> QED BY <1>1, <1>2, <1>3 DEF IsStake, old

(* The stake of one account is written, and the total with it.             *)
LEMMA StakeMoved ==
  ASSUME StakesCounted, NEW u, NEW a, NEW s, IsStake(s), NEW p, IsRewardPool(p),
         stakes' = Put(stakes, <<u, a>>, s), reward_pools' = Put(reward_pools, a, p),
         p.total_staked - StakedIn(a) = s.amount - StakeOf(u, a).amount,
         s.amount # 0 => a \in DOMAIN pools, UNCHANGED pools
  PROVE  StakesCounted'
<1> DEFINE key == <<u, a>>
<1>1. key[2] = a
  OBVIOUS
<1>2. /\ DOMAIN stakes' = DOMAIN stakes \cup {key} /\ stakes'[key] = s
      /\ \A k \in DOMAIN stakes : k # key => stakes'[k] = stakes[k]
  BY DEF Put
<1>3. /\ DOMAIN reward_pools' = DOMAIN reward_pools \cup {a} /\ reward_pools'[a] = p
      /\ \A t \in DOMAIN reward_pools : t # a => reward_pools'[t] = reward_pools[t]
  BY DEF Put
<1>4. StakeOf(u, a).amount = Stored(StakesIn(a), key, 0)
  BY StakeTyped
<1> HIDE DEF key
<1>5. IsFiniteSet(DOMAIN stakes')
  BY <1>2, FS_AddElement DEF StakesCounted
<1>6. \A k \in DOMAIN stakes' :
        IsStake(stakes'[k]) /\ (stakes'[k].amount # 0 => k[2] \in DOMAIN pools')
  BY <1>1, <1>2 DEF StakesCounted
<1>7. \A t \in DOMAIN reward_pools' : IsRewardPool(reward_pools'[t])
  BY <1>3 DEF StakesCounted
<1>8. ASSUME NEW t
      PROVE  /\ DOMAIN StakesIn(t)' = {k \in DOMAIN stakes' : k[2] = t}
             /\ \A k \in DOMAIN StakesIn(t)' : StakesIn(t)'[k] = stakes'[k].amount
  BY DEF StakesIn
<1>9. ASSUME NEW t, t # a PROVE StakedIn(t)' = Total(StakesIn(t)')
  <2>1. StakesIn(t)' = StakesIn(t)
    BY <1>1, <1>2, <1>9 DEF StakesIn
  <2>2. StakedIn(t)' = StakedIn(t)
    BY <1>3, <1>9 DEF StakedIn
  <2>3. StakedIn(t) = Total(StakesIn(t))
    BY DEF StakesCounted
  <2> QED BY <2>1, <2>2, <2>3
<1>10. StakedIn(a)' = Total(StakesIn(a)')
  <2> DEFINE f == StakesIn(a)
             e == StakesIn(a)'
  <2>1. DOMAIN e = DOMAIN f \cup {key} /\ e[key] = s.amount
        /\ \A k \in DOMAIN f \ {key} : e[k] = f[k]
    <3>1. \A k : k \in DOMAIN f <=> k \in DOMAIN stakes /\ k[2] = a
      BY StakesTable
    <3>2. \A k \in DOMAIN f : f[k] = stakes[k].amount
      BY StakesTable
    <3>3. /\ \A k : k \in DOMAIN e <=> k \in DOMAIN stakes' /\ k[2] = a
          /\ \A k \in DOMAIN e : e[k] = stakes'[k].amount
      <4>1. /\ DOMAIN e = {k \in DOMAIN stakes' : k[2] = a}
            /\ \A k \in DOMAIN e : e[k] = stakes'[k].amount
        BY <1>8
      <4> HIDE DEF e
      <4> QED BY <4>1
    <3> HIDE DEF f, e
    <3>4. DOMAIN e = DOMAIN f \cup {key}
      BY <1>1, <1>2, <3>1, <3>3
    <3> QED BY <1>1, <1>2, <3>1, <3>2, <3>3, <3>4
  <2>2. IntMap(f) /\ IsFiniteSet(DOMAIN f) /\ StakedIn(a) = Total(f)
    BY StakesTable DEF StakesCounted
  <2>3. s.amount \in Nat /\ p.total_staked \in Nat /\ StakedIn(a)' = p.total_staked
    BY <1>3 DEF IsStake, IsRewardPool, StakedIn
  <2> HIDE DEF f, e
  <2>4. IntMap(e)
    <3>1. IsFiniteSet(DOMAIN e)
      BY <2>1, <2>2, FS_AddElement
    <3> QED BY <2>1, <2>2, <2>3, <3>1 DEF IntMap
  <2>5. DOMAIN f \ {key} = DOMAIN e \ {key}
    BY <2>1
  <2>6. /\ Total(f) \in Int /\ Total(e) \in Int
        /\ Total(e) - Stored(e, key, 0) = Total(f) - Stored(f, key, 0)
    BY <2>1, <2>2, <2>4, <2>5, TotalChanges
  <2>7. Stored(e, key, 0) = s.amount
    BY <2>1 DEF Stored
  <2>8. p.total_staked - Total(f) = s.amount - Stored(f, key, 0)
    BY <1>4, <2>2 DEF f
  <2>9. Stored(f, key, 0) \in Int
    BY <2>2 DEF Stored, IntMap
  <2>10. Total(e) = p.total_staked
    BY <2>3, <2>6, <2>7, <2>8, <2>9
  <2> QED BY <2>3, <2>10 DEF e
<1>11. \A t : StakedIn(t)' = Total(StakesIn(t)')
  BY <1>9, <1>10
<1> QED BY <1>5, <1>6, <1>7, <1>11 DEF StakesCounted

(* Rewards are written over the same total.                                *)
LEMMA RewardsWritten ==
  ASSUME StakesCounted, NEW a, NEW p, IsRewardPool(p), reward_pools' = Put(reward_pools, a, p),
         p.total_staked = StakedIn(a), UNCHANGED stakes, DOMAIN pools \subseteq DOMAIN pools'
  PROVE  StakesCounted'
<1>1. /\ DOMAIN reward_pools' = DOMAIN reward_pools \cup {a} /\ reward_pools'[a] = p
      /\ \A t \in DOMAIN reward_pools : t # a => reward_pools'[t] = reward_pools[t]
  BY DEF Put
<1>2. \A t \in DOMAIN reward_pools' : IsRewardPool(reward_pools'[t])
  BY <1>1 DEF StakesCounted
<1>3. \A t : StakedIn(t)' = StakedIn(t)
  BY <1>1 DEF StakedIn
<1>4. \A t : StakesIn(t)' = StakesIn(t)
  BY DEF StakesIn
<1> QED BY <1>2, <1>3, <1>4 DEF StakesCounted

(* Nothing of stakes and rewards is written.                               *)
LEMMA StakesUnwritten ==
  ASSUME StakesCounted, UNCHANGED stakeVars, DOMAIN pools \subseteq DOMAIN pools'
  PROVE  StakesCounted'
<1>1. \A t : StakedIn(t)' = StakedIn(t) /\ StakesIn(t)' = StakesIn(t)
  BY DEF StakedIn, StakesIn, stakeVars
<1> QED BY <1>1 DEF StakesCounted, stakeVars

(* Staking, unstaking and claiming keep the totals.                        *)
LEMMA StakingCounts ==
  ASSUME SharesCounted, StakesCounted, StakingNext
  PROVE  StakesCounted'
<1>1. PICK a \in Tokens :
        \/ \E u \in Account :
             \/ \E n \in ShareAmount : StakeLpTokens(u, a, n) \/ UnstakeLpTokens(u, a, n)
             \/ ClaimRewards(u, a)
             \/ \E rate \in RewardRate : SetRewardRate(u, a, rate)
        \/ GetPendingRewards(a)
  BY DEF StakingNext
<1> DEFINE pool == UpdatedRewardPool(a)
<1>2. IsRewardPool(pool) /\ pool.total_staked = StakedIn(a)
  BY UpdatedTyped
<1> HIDE DEF pool
<1>3. ShareAmount \subseteq Nat
  BY LendingArguments
<1>4. StakedIn(a) \in Nat
  BY <1>2 DEF IsRewardPool
<1>5. ASSUME NEW u, NEW n \in ShareAmount, StakeLpTokens(u, a, n) PROVE StakesCounted'
  <2> DEFINE old == StakeOf(u, a)
             m == old.amount + n
             paid == pool.reward_per_token_stored
             at == IF old.stake_time = 0 THEN clock ELSE old.stake_time
             s == [amount |-> m, reward_per_token_paid |-> paid, rewards |-> 0, stake_time |-> at]
             t == pool.total_staked + n
             p == [pool EXCEPT !.total_staked = t]
  <2>1. /\ stakes' = Put(stakes, <<u, a>>, s) /\ reward_pools' = Put(reward_pools, a, p)
        /\ n > 0 /\ SharesOf(u, a) >= n /\ UNCHANGED pools
    BY <1>5 DEF StakeLpTokens, poolVars, pool
  <2>2. a \in DOMAIN pools
    <3> DEFINE key == <<u, a>>
    <3>1. key[2] = a /\ SharesOf(u, a) = Stored(shares, key, 0)
      BY DEF SharesOf
    <3> HIDE DEF key
    <3>2. key \in DOMAIN shares
      BY <1>3, <2>1, <3>1 DEF Stored
    <3> QED BY <3>1, <3>2 DEF SharesCounted
  <2>3. old.amount \in Nat
    BY StakeTyped DEF IsStake
  <2>4. m \in Nat /\ t \in Nat /\ t - StakedIn(a) = m - old.amount
    <3> HIDE DEF old
    <3> QED BY <1>2, <1>3, <1>4, <2>3
  <2> HIDE DEF m, t, paid, at
  <2>5. IsStake(s) /\ s.amount = m
    BY <2>4 DEF IsStake, StakeFields
  <2>6. IsRewardPool(p) /\ p.total_staked = t
    BY <1>2, <2>4 DEF IsRewardPool, RewardFields
  <2> HIDE DEF s, p
  <2> QED BY <2>1, <2>2, <2>4, <2>5, <2>6, StakeMoved
<1>6. ASSUME NEW u, NEW n \in ShareAmount, UnstakeLpTokens(u, a, n) PROVE StakesCounted'
  <2> DEFINE settled == SettledStake(u, a)
             left == settled.amount - n
             s == IF left = 0
                  THEN [settled EXCEPT !.amount = 0, !.reward_per_token_paid = 0, !.stake_time = 0]
                  ELSE [settled EXCEPT !.amount = left]
             t == SaturatingSub(pool.total_staked, n)
             p == [pool EXCEPT !.total_staked = t]
  <2>1. /\ stakes' = Put(stakes, <<u, a>>, s) /\ reward_pools' = Put(reward_pools, a, p)
        /\ n > 0 /\ n <= StakeOf(u, a).amount /\ UNCHANGED pools
    BY <1>6 DEF UnstakeLpTokens, poolVars, pool
  <2>2. IsStake(settled) /\ settled.amount = StakeOf(u, a).amount
    BY SettledTyped
  <2>3. settled.amount \in Nat /\ a \in DOMAIN pools
    <3>1. StakeOf(u, a).amount \in Nat /\ (StakeOf(u, a).amount # 0 => a \in DOMAIN pools)
      BY StakeTyped DEF IsStake
    <3> HIDE DEF settled
    <3> QED BY <1>3, <2>1, <2>2, <3>1
  <2>4. settled.amount <= StakedIn(a)
    <3>1. /\ settled.amount = Stored(StakesIn(a), <<u, a>>, 0) /\ StakedIn(a) = Total(StakesIn(a))
      BY <2>2, StakeTyped DEF StakesCounted
    <3>2. /\ Total(StakesIn(a)) \in Nat
          /\ \A k \in DOMAIN StakesIn(a) : StakesIn(a)[k] <= Total(StakesIn(a))
      BY StakesTable, TotalOfNats
    <3> HIDE DEF settled
    <3>3. Stored(StakesIn(a), <<u, a>>, 0) <= Total(StakesIn(a))
      BY <3>2 DEF Stored
    <3> QED BY <3>1, <3>3
  <2> HIDE DEF settled
  <2>5. left \in Nat /\ t \in Nat /\ t - StakedIn(a) = left - settled.amount
    BY <1>2, <1>3, <1>4, <2>1, <2>2, <2>3, <2>4 DEF SaturatingSub
  <2> HIDE DEF left, t
  <2>6. IsStake(s) /\ s.amount = left
    <3>1. CASE left = 0
      BY <2>2, <3>1 DEF IsStake, StakeFields
    <3>2. CASE left # 0
      BY <2>2, <2>5, <3>2 DEF IsStake, StakeFields
    <3> QED BY <3>1, <3>2
  <2>7. IsRewardPool(p) /\ p.total_staked = t
    BY <1>2, <2>5 DEF IsRewardPool, RewardFields
  <2> HIDE DEF s, p
  <2> QED BY <2>1, <2>2, <2>3, <2>5, <2>6, <2>7, StakeMoved
<1>7. ASSUME NEW u, ClaimRewards(u, a) PROVE StakesCounted'
  <2> DEFINE settled == SettledStake(u, a)
             s == [settled EXCEPT !.rewards = 0]
  <2>1. /\ stakes' = Put(stakes, <<u, a>>, s) /\ reward_pools' = Put(reward_pools, a, pool)
        /\ UNCHANGED pools
    BY <1>7 DEF ClaimRewards, poolVars, pool
  <2>2. IsStake(settled) /\ settled.amount = StakeOf(u, a).amount
    BY SettledTyped
  <2>3. /\ StakeOf(u, a).amount \in Nat /\ (StakeOf(u, a).amount # 0 => a \in DOMAIN pools)
    BY StakeTyped DEF IsStake
  <2> HIDE DEF settled
  <2>4. IsStake(s) /\ s.amount = settled.amount
    BY <2>2 DEF IsStake, StakeFields
  <2> HIDE DEF s
  <2>5. pool.total_staked - StakedIn(a) = s.amount - StakeOf(u, a).amount
    BY <1>2, <1>4, <2>2, <2>3, <2>4
  <2> QED BY <1>2, <2>1, <2>2, <2>3, <2>4, <2>5, StakeMoved
<1>8. ASSUME NEW u, NEW rate, SetRewardRate(u, a, rate) PROVE StakesCounted'
  <2> DEFINE p == [pool EXCEPT !.reward_rate = rate]
  <2>1. reward_pools' = Put(reward_pools, a, p) /\ UNCHANGED <<stakes, pools>>
    BY <1>8 DEF SetRewardRate, poolVars, pool
  <2>2. IsRewardPool(p) /\ p.total_staked = StakedIn(a)
    BY <1>2 DEF IsRewardPool, RewardFields
  <2> HIDE DEF p
  <2>3. DOMAIN pools \subseteq DOMAIN pools'
    BY <2>1
  <2> QED BY <2>1, <2>2, <2>3, RewardsWritten
<1>9. ASSUME GetPendingRewards(a) PROVE StakesCounted'
  <2>1. reward_pools' = Put(reward_pools, a, pool) /\ UNCHANGED <<stakes, pools>>
    BY <1>9 DEF GetPendingRewards, poolVars, pool
  <2>2. DOMAIN pools \subseteq DOMAIN pools'
    BY <2>1
  <2> QED BY <1>2, <2>1, <2>2, RewardsWritten
<1> QED BY <1>1, <1>5, <1>6, <1>7, <1>8, <1>9

(* A new pool shares rewards over nothing, and nothing is staked in it.    *)
LEMMA NewPoolCounts ==
  ASSUME PoolsTyped, StakesCounted, NEW u, NEW a, AddAssetPool(u, a)
  PROVE  StakesCounted'
<1> DEFINE p == NewRewardPool(clock)
<1>1. /\ ~InSeq(assets, a) /\ pools' = Put(pools, a, NewPool)
      /\ reward_pools' = Put(reward_pools, a, p) /\ UNCHANGED stakes
  BY DEF AddAssetPool
<1>2. IsRewardPool(p) /\ p.total_staked = 0
  BY DEF NewRewardPool, IsRewardPool, RewardFields
<1> HIDE DEF p
<1>3. a \notin DOMAIN pools /\ DOMAIN pools \subseteq DOMAIN pools'
  BY <1>1 DEF PoolsTyped, Put
<1>4. \A key \in DOMAIN StakesIn(a) : StakesIn(a)[key] = 0
  BY <1>3, StakesTable DEF StakesCounted
<1>5. Total(StakesIn(a)) = 0
  BY <1>4, StakesTable, TotalOfZeros
<1>6. p.total_staked = StakedIn(a)
  BY <1>2, <1>5 DEF StakesCounted
<1> QED BY <1>1, <1>2, <1>3, <1>6, RewardsWritten

(* What calls other than those of stakers keep of pools and of the rates.  *)
Onward ==
  /\ DOMAIN pools \subseteq DOMAIN pools'
  /\ UNCHANGED rate_model \/ rate_model' \in RateModel

(* A written pool stays. *)
LEMMA WrittenOnward ==
  ASSUME NEW a, NEW pool, SetPool(a, pool), UNCHANGED rate_model
  PROVE  Onward
BY DEF SetPool, Put, Onward

(* Depositors, yield and liquidations. *)
LEMMA TradesOnward ==
  ASSUME ShareNext \/ YieldNext \/ LiquidateNext
  PROVE  Onward /\ UNCHANGED stakeVars
<1>1. CASE ShareNext
  <2>1. PICK a \in Tokens, u \in Account :
          \/ \E amount \in PoolAmount : PoolDeposit(u, a, amount)
          \/ \E n \in ShareAmount : PoolWithdraw(u, a, n)
    BY <1>1 DEF ShareNext
  <2>2. \E pool : SetPool(a, pool)
    BY <2>1 DEF PoolDeposit, PoolWithdraw
  <2>3. UNCHANGED <<rate_model, stakeVars>>
    BY <2>1 DEF PoolDeposit, PoolWithdraw, lendingAdminVars
  <2> QED BY <2>2, <2>3, WrittenOnward
<1>2. CASE YieldNext
  <2>1. PICK a \in Tokens, u \in Account :
          \/ \E amount \in PriorityAmount : WithdrawPriority(u, a, amount)
          \/ \E amount \in ReserveAmount, to \in Account : PayReserves(u, a, amount, to)
          \/ \E amount \in FlashAmount, returned \in FlashReturn :
               FlashLoan(u, a, amount, returned)
    BY <1>2 DEF YieldNext
  <2>2. ASSUME NEW amount, WithdrawPriority(u, a, amount) PROVE Onward /\ UNCHANGED stakeVars
    BY <2>2, WrittenOnward DEF WithdrawPriority, lendingAdminVars
  <2>3. ASSUME NEW amount, NEW to, PayReserves(u, a, amount, to)
        PROVE  Onward /\ UNCHANGED stakeVars
    BY <2>3, WrittenOnward DEF PayReserves, lendingAdminVars
  <2>4. ASSUME NEW amount, NEW returned, FlashLoan(u, a, amount, returned)
        PROVE  Onward /\ UNCHANGED stakeVars
    BY <2>4, WrittenOnward DEF FlashLoan, lendingAdminVars
  <2> QED BY <2>1, <2>2, <2>3, <2>4
<1>3. CASE LiquidateNext
  <2>1. PICK u \in Account, liquidator \in Account, amount \in LiquidationAmount :
          LendingLiquidate(liquidator, u, amount)
    BY <1>3 DEF LiquidateNext
  <2> QED BY <2>1, WrittenOnward DEF LendingLiquidate, lendingAdminVars
<1> QED BY <1>1, <1>2, <1>3

(* Borrowers. *)
LEMMA BorrowersOnward ==
  ASSUME BorrowNext \/ RefinanceNext
  PROVE  Onward /\ UNCHANGED stakeVars
<1>1. ASSUME NEW u, NEW a, NEW amount, NEW t, NEW collateral, NEW days,
             Borrow(u, a, amount, t, collateral, days)
      PROVE  Onward /\ UNCHANGED stakeVars
  <2>1. (\E pool : SetPool(a, pool)) /\ UNCHANGED <<rate_model, stakeVars>>
    BY <1>1 DEF Borrow, lendingAdminVars
  <2> QED BY <2>1, WrittenOnward
<1>2. ASSUME NEW u, Repay(u) PROVE Onward /\ UNCHANGED stakeVars
  BY <1>2, WrittenOnward DEF Repay, lendingAdminVars
<1>3. ASSUME NEW u, NEW a, NEW fee, PayFee(u, a, fee), UNCHANGED rate_model PROVE Onward
  BY <1>3, WrittenOnward DEF PayFee
<1>4. ASSUME NEW u, NEW days, RefinanceLoan(u, days) PROVE Onward /\ UNCHANGED stakeVars
  <2>1. (\E a, fee : PayFee(u, a, fee)) /\ UNCHANGED <<rate_model, stakeVars>>
    BY <1>4 DEF RefinanceLoan, lendingAdminVars
  <2> QED BY <1>3, <2>1
<1>5. ASSUME NEW u, NEW ids, NEW days, ConsolidateLoans(u, ids, days)
      PROVE  Onward /\ UNCHANGED stakeVars
  <2>1. (\E a, fee : PayFee(u, a, fee)) /\ UNCHANGED <<rate_model, stakeVars>>
    BY <1>5 DEF ConsolidateLoans, lendingAdminVars
  <2> QED BY <1>3, <2>1
<1>6. ASSUME NEW u, NEW parts, NEW days, SplitLoan(u, parts, days)
      PROVE  Onward /\ UNCHANGED stakeVars
  <2>1. (\E a, fee : PayFee(u, a, fee)) /\ UNCHANGED <<rate_model, stakeVars>>
    BY <1>6 DEF SplitLoan, lendingAdminVars
  <2> QED BY <1>3, <2>1
<1>7. CASE BorrowNext
  BY <1>1, <1>2, <1>7 DEF BorrowNext
<1>8. CASE RefinanceNext
  <2>1. PICK u \in Account, days \in LoanDays :
          \/ RefinanceLoan(u, days)
          \/ \E ids \in LoanIds : ConsolidateLoans(u, ids, days)
          \/ \E parts \in SplitParts : SplitLoan(u, parts, days)
    BY <1>8 DEF RefinanceNext
  <2> QED BY <1>4, <1>5, <1>6, <2>1
<1> QED BY <1>7, <1>8

(* Stakers write no pool. *)
LEMMA StakersOnward ==
  ASSUME StakingNext
  PROVE  UNCHANGED <<pools, rate_model>>
<1>1. PICK a \in Tokens :
        \/ \E u \in Account :
             \/ \E n \in ShareAmount : StakeLpTokens(u, a, n) \/ UnstakeLpTokens(u, a, n)
             \/ ClaimRewards(u, a)
             \/ \E rate \in RewardRate : SetRewardRate(u, a, rate)
        \/ GetPendingRewards(a)
  BY DEF StakingNext
<1> QED BY <1>1 DEF StakeLpTokens, UnstakeLpTokens, ClaimRewards, SetRewardRate,
              GetPendingRewards, poolVars, lendingAdminVars

(* Settings keep the pools, and a rate model is set as a whole.            *)
LEMMA SettingsOnward ==
  ASSUME AdminNext
  PROVE  Onward /\ (UNCHANGED stakeVars \/ \E u, a : AddAssetPool(u, a))
<1>1. PICK u \in Account :
        \/ \E a \in NewAsset : AddAssetPool(u, a)
        \/ \E account \in Account, role \in RoleGrant, granted \in BOOLEAN :
             SetLendingRole(u, account, role, granted)
        \/ \E value \in BOOLEAN : SetLendingPaused(u, value)
        \/ \E a \in Tokens, s \in PoolSetting : SetPoolField(u, a, s.field, s.value)
        \/ SetNftToken(u)
        \/ \E t \in CollateralToken, listed \in BOOLEAN : SetCollateral(u, t, listed)
  BY DEF AdminNext
<1>2. ASSUME NEW a, AddAssetPool(u, a)
      PROVE  Onward /\ (UNCHANGED stakeVars \/ \E v, t : AddAssetPool(v, t))
  <2>1. DOMAIN pools \subseteq DOMAIN pools' /\ UNCHANGED rate_model
    BY <1>2 DEF AddAssetPool, Put
  <2> QED BY <1>2, <2>1 DEF Onward
<1>3. ASSUME NEW account, NEW role, NEW granted, SetLendingRole(u, account, role, granted)
      PROVE  Onward /\ UNCHANGED stakeVars
  BY <1>3 DEF SetLendingRole, poolVars, Onward
<1>4. ASSUME NEW value, SetLendingPaused(u, value) PROVE Onward /\ UNCHANGED stakeVars
  BY <1>4 DEF SetLendingPaused, poolVars, Onward
<1>5. ASSUME NEW a, NEW field, NEW value, SetPoolField(u, a, field, value)
      PROVE  Onward /\ UNCHANGED stakeVars
  BY <1>5 DEF SetPoolField, lendingAdminVars, Onward
<1>6. ASSUME SetNftToken(u) PROVE Onward /\ UNCHANGED stakeVars
  BY <1>6 DEF SetNftToken, poolVars, Onward
<1>7. ASSUME NEW t, NEW listed, SetCollateral(u, t, listed) PROVE Onward /\ UNCHANGED stakeVars
  BY <1>7 DEF SetCollateral, poolVars, Onward
<1> QED BY <1>1, <1>2, <1>3, <1>4, <1>5, <1>6, <1>7

(* Fees, rates and the fund. *)
LEMMA FeesOnward ==
  ASSUME FeeNext
  PROVE  Onward /\ UNCHANGED stakeVars
<1>1. PICK u \in Account :
        \/ \E bps \in FeeBps :
             \/ SetFlashLoanFee(u, bps) \/ SetInsurancePremiumRate(u, bps)
             \/ \E a \in Tokens : SetReserveFactor(u, a, bps)
        \/ \E amount \in InsuranceAmount :
             DepositToInsuranceFund(u, amount) \/ WithdrawFromInsuranceFund(u, amount)
        \/ \E model \in CurveModel : SetRateModel(u, model)
  BY DEF FeeNext
<1>2. ASSUME NEW bps, SetFlashLoanFee(u, bps) PROVE Onward /\ UNCHANGED stakeVars
  BY <1>2 DEF SetFlashLoanFee, poolVars, Onward
<1>3. ASSUME NEW bps, SetInsurancePremiumRate(u, bps) PROVE Onward /\ UNCHANGED stakeVars
  BY <1>3 DEF SetInsurancePremiumRate, poolVars, Onward
<1>4. ASSUME NEW a, NEW bps, SetReserveFactor(u, a, bps) PROVE Onward /\ UNCHANGED stakeVars
  BY <1>4, WrittenOnward DEF SetReserveFactor, lendingAdminVars
<1>5. ASSUME NEW amount, DepositToInsuranceFund(u, amount) PROVE Onward /\ UNCHANGED stakeVars
  BY <1>5 DEF DepositToInsuranceFund, poolVars, lendingAdminVars, Onward
<1>6. ASSUME NEW amount, WithdrawFromInsuranceFund(u, amount) PROVE Onward /\ UNCHANGED stakeVars
  BY <1>6 DEF WithdrawFromInsuranceFund, poolVars, lendingAdminVars, Onward
<1>7. ASSUME NEW model, SetRateModel(u, model) PROVE Onward /\ UNCHANGED stakeVars
  BY <1>7 DEF SetRateModel, poolVars, Onward
<1> QED BY <1>1, <1>2, <1>3, <1>4, <1>5, <1>6, <1>7

(* Every call goes onward, and what it writes of stakes stays counted.     *)
LEMMA EveryOnward ==
  ASSUME PoolsSound, StakesCounted, [LendingNext]_<<clock, lendingVars>>
  PROVE  Onward /\ StakesCounted'
<1>1. ASSUME Onward, UNCHANGED stakeVars PROVE StakesCounted'
  BY <1>1, StakesUnwritten DEF Onward
<1>2. CASE ShareNext \/ YieldNext \/ LiquidateNext
  BY <1>1, <1>2, TradesOnward
<1>3. CASE BorrowNext \/ RefinanceNext
  BY <1>1, <1>3, BorrowersOnward
<1>4. CASE StakingNext
  <2>1. Onward
    BY <1>4, StakersOnward DEF Onward
  <2> QED BY <1>4, <2>1, StakingCounts DEF PoolsSound
<1>5. CASE NftNext
  <2>1. Onward /\ UNCHANGED stakeVars
    BY <1>5 DEF NftNext, lendingAdminVars, poolVars, Onward
  <2> QED BY <1>1, <2>1
<1>6. CASE AdminNext
  <2>1. Onward /\ (UNCHANGED stakeVars \/ \E u, a : AddAssetPool(u, a))
    BY <1>6, SettingsOnward
  <2>2. ASSUME NEW u, NEW a, AddAssetPool(u, a) PROVE StakesCounted'
    BY <2>2, NewPoolCounts DEF PoolsSound
  <2> QED BY <1>1, <2>1, <2>2
<1>7. CASE FeeNext
  BY <1>1, <1>7, FeesOnward
<1>8. CASE UNCHANGED lendingVars
  <2>1. Onward /\ UNCHANGED stakeVars
    BY <1>8 DEF lendingVars, lendingAdminVars, poolVars, Onward
  <2> QED BY <1>1, <2>1
<1> QED BY <1>2, <1>3, <1>4, <1>5, <1>6, <1>7, <1>8 DEF LendingNext

(* Nothing is staked at first.                                             *)
LEMMA StakesStart == LendingStart => StakesCounted
<1> SUFFICES ASSUME LendingStart PROVE StakesCounted
  OBVIOUS
<1>1. /\ DOMAIN stakes = {} /\ DOMAIN reward_pools = {MainToken}
      /\ reward_pools[MainToken] = NewRewardPool(clock)
  BY DEF LendingStart, LendingInit, Put, EmptyMap
<1>2. IsRewardPool(NewRewardPool(clock)) /\ NewRewardPool(clock).total_staked = 0
  BY DEF NewRewardPool, IsRewardPool, RewardFields
<1>3. \A a : StakedIn(a) = 0
  BY <1>1, <1>2 DEF StakedIn
<1>4. ASSUME NEW a PROVE Total(StakesIn(a)) = 0
  <2>1. DOMAIN StakesIn(a) = {}
    BY <1>1 DEF StakesIn
  <2> QED BY <2>1, TotalOfNothing
<1> QED BY <1>1, <1>2, <1>3, <1>4, FS_EmptySet DEF StakesCounted

(* The rewards are shared out over what is staked, whoever stakes,         *)
(* unstakes and claims, and when pools are added.                          *)
THEOREM StakesAreCounted == LendingSpec => []StakesAddUp
<1> DEFINE Books == PoolsSound /\ StakesCounted
<1>1. LendingStart => Books
  BY LendingStarts, StakesStart
<1>2. Books /\ [LendingNext]_<<clock, lendingVars>> => Books'
  BY LendingStep, EveryOnward DEF StepKeeps
<1>3. Books => StakesAddUp
  BY CountedAddUp
<1> QED BY <1>1, <1>2, <1>3, PTL DEF LendingSpec

-----------------------------------------------------------------------------
(* What the rates are read from. *)
Rated == MainToken \in DOMAIN pools /\ rate_model \in RateModel \cup {Absent}

(* A part, in ten-thousandths. *)
Points(x) == x \in Nat /\ x <= 10000

(* Of a pool that lends what it has, at most all is used.                  *)
LEMMA UsedPart ==
  ASSUME NEW b, NEW d, b \in Nat, d \in Nat, b <= d
  PROVE  Points(Utilization(b, d))
<1>1. CASE d = 0
  <2>1. Utilization(b, d) = 0
    BY <1>1 DEF Utilization
  <2> QED BY <2>1 DEF Points
<1>2. CASE d # 0
  <2> DEFINE q == (b * 10000) \div d
  <2>1. q \in Nat /\ d * q <= b * 10000
    BY <1>2, QuotientBelow
  <2>2. Utilization(b, d) = q
    BY <1>2 DEF Utilization
  <2> HIDE DEF q
  <2>3. q <= 10000
    <3> SUFFICES ASSUME q > 10000 PROVE FALSE
      BY <2>1
    <3>1. d * q >= d * 10001
      BY <1>2, <2>1
    <3>2. d * 10001 > b * 10000
      BY <1>2
    <3> QED BY <2>1, <3>1, <3>2
  <2> QED BY <2>1, <2>2, <2>3 DEF Points
<1> QED BY <1>1, <1>2

(* The curve of the deployment gives a rate.                               *)
LEMMA DynamicTyped ==
  ASSUME NEW used, Points(used)
  PROVE  DynamicRate(used) \in Nat
<1>1. used \in Nat /\ RateAtZero \in Nat /\ RateMultiplier \in Nat
  BY LendingAssumption DEF Points
<1> DEFINE q == (used * RateMultiplier) \div 10000
<1>2. q \in Nat
  BY <1>1, QuotientBelow
<1>3. DynamicRate(used) = RateAtZero + q
  BY DEF DynamicRate
<1> HIDE DEF q
<1> QED BY <1>1, <1>2, <1>3

(* The fields of a model of two slopes.                                    *)
LEMMA ModelFields ==
  ASSUME NEW model, model \in RateModel
  PROVE  /\ model.base_rate_bps \in Nat
         /\ model.optimal_utilization_bps \in Nat \ {0}
         /\ model.optimal_utilization_bps < 10000
         /\ model.slope1_bps \in Nat
         /\ model.slope2_bps \in Nat
         /\ Points(model.reserve_factor_bps)
<1>1. /\ model.base_rate_bps \in Nat
      /\ model.slope1_bps \in Nat
      /\ model.slope2_bps \in Nat
  BY DEF RateModel
<1>2. /\ model.optimal_utilization_bps \in OptimalUtilization
      /\ model.reserve_factor_bps \in ModelFactor
  BY DEF RateModel
<1> DEFINE optimal == model.optimal_utilization_bps
           factor == model.reserve_factor_bps
<1>3. optimal \in OptimalUtilization /\ factor \in ModelFactor
  BY <1>2
<1> HIDE DEF optimal, factor
<1>4. optimal \in Nat \ {0} /\ optimal < 10000
  BY <1>3 DEF OptimalUtilization
<1>5. Points(factor)
  BY <1>3 DEF ModelFactor, Points
<1> QED BY <1>1, <1>4, <1>5 DEF optimal, factor

(* The curve an admin sets gives a rate, on either side of its kink.       *)
LEMMA CurveTyped ==
  ASSUME NEW model, NEW used, model \in RateModel, Points(used)
  PROVE  TwoSlopeRate(model, used) \in Nat
<1> DEFINE base == model.base_rate_bps
           optimal == model.optimal_utilization_bps
           s1 == model.slope1_bps
           s2 == model.slope2_bps
           over == used - optimal
           rest == 10000 - optimal
           low == (used * s1) \div optimal
           high == (over * s2) \div rest
<1>1. TwoSlopeRate(model, used) = IF used <= optimal THEN base + low ELSE base + s1 + high
  BY DEF TwoSlopeRate
<1>2. base \in Nat /\ optimal \in Nat \ {0} /\ optimal < 10000 /\ s1 \in Nat /\ s2 \in Nat
  BY ModelFields
<1>3. used \in Nat
  BY DEF Points
<1> HIDE DEF base, optimal, s1, s2
<1>4. CASE used <= optimal
  <2>1. low \in Nat
    BY <1>2, <1>3, QuotientBelow
  <2> HIDE DEF low, high
  <2> QED BY <1>1, <1>2, <1>4, <2>1
<1>5. CASE ~(used <= optimal)
  <2>1. over \in Nat /\ rest \in Nat \ {0}
    BY <1>2, <1>3, <1>5
  <2> HIDE DEF over, rest
  <2>2. high \in Nat
    BY <1>2, <2>1, QuotientBelow
  <2> HIDE DEF low, high
  <2> QED BY <1>1, <1>2, <1>5, <2>2
<1> QED BY <1>4, <1>5

(* What lenders get of a rate r, of which part ten-thousandths of          *)
(* ten-thousandths are theirs, is no more than r.                          *)
LEMMA PartOfRate ==
  ASSUME NEW r \in Nat, NEW part \in Nat, part <= 10000 * 10000
  PROVE  (r * (part \div 10000) + BasisPoints(r, part % 10000)) \div 10000 <= r
<1> DEFINE h == part \div 10000
           l == part % 10000
           rest == BasisPoints(r, l)
           sum == r * h + rest
           q == sum \div 10000
<1>1. h \in Nat /\ l \in Nat /\ l < 10000 /\ part = 10000 * h + l
  OBVIOUS
<1> HIDE DEF h, l
<1>2. rest \in Nat /\ rest <= r
  BY <1>1, PointsBelow
<1>3. h <= 10000 /\ (h = 10000 => l = 0)
  BY <1>1
<1>4. l = 0 => rest = 0
  <2>1. r * 0 = 0
    OBVIOUS
  <2>2. 0 \div 10000 = 0
    OBVIOUS
  <2> QED BY <2>1, <2>2 DEF BasisPoints
<1> HIDE DEF rest
<1>5. sum \in Nat /\ sum <= r * 10000
  <2>1. CASE h = 10000
    BY <1>2, <1>3, <1>4, <2>1
  <2>2. CASE h # 10000
    <3>1. r * h <= r * 9999 /\ r * h \in Nat
      BY <1>1, <1>3, <2>2
    <3> DEFINE rh == r * h
    <3> HIDE DEF rh
    <3>2. rh + rest <= r * 10000 /\ rh + rest \in Nat
      BY <1>2, <3>1 DEF rh
    <3> QED BY <3>2 DEF rh
  <2> QED BY <2>1, <2>2
<1> HIDE DEF sum
<1>6. q \in Int /\ 10000 * q <= sum
  BY <1>5
<1> HIDE DEF q
<1>7. q <= r
  BY <1>5, <1>6
<1> QED BY <1>7 DEF q, sum, rest, h, l

(* Lenders are shown no more than what borrowers pay.                      *)
LEMMA LendersEarn ==
  ASSUME PoolsTyped, DebtsOwed, Rated
  PROVE  LendersEarnWhatIsPaid
<1> DEFINE pool == pools[MainToken]
           used == Utilization(pool.total_borrowed, pool.total_deposits)
           factor == IF rate_model = Absent THEN pool.reserve_factor_bps
                     ELSE rate_model.reserve_factor_bps
           kept == SaturatingSub(10000, factor)
           part == used * kept
<1>1. /\ pool \in PoolState /\ pool.total_borrowed \in Nat /\ pool.total_deposits \in Nat
      /\ pool.total_borrowed <= pool.total_deposits
  BY PoolAmounts DEF Rated
<1>2. SupplyRate = (BorrowRate * (part \div 10000) + BasisPoints(BorrowRate, part % 10000)) \div 10000
  BY DEF SupplyRate
<1>3. BorrowRate = IF rate_model = Absent THEN DynamicRate(used) ELSE TwoSlopeRate(rate_model, used)
  BY DEF BorrowRate
<1>4. Points(factor)
  <2>1. CASE rate_model = Absent
    <3>1. factor = pool.reserve_factor_bps
      BY <2>1
    <3> HIDE DEF pool
    <3>2. pool.reserve_factor_bps \in ReserveFactor
      BY <1>1 DEF PoolState
    <3>3. factor \in ReserveFactor
      BY <3>1, <3>2
    <3> HIDE DEF factor
    <3> QED BY <3>3 DEF ReserveFactor, Points
  <2>2. CASE rate_model # Absent
    <3>1. factor = rate_model.reserve_factor_bps /\ rate_model \in RateModel
      BY <2>2 DEF Rated
    <3> QED BY <3>1, ModelFields
  <2> QED BY <2>1, <2>2
<1>5. Points(used)
  <2> DEFINE b == pool.total_borrowed
             d == pool.total_deposits
  <2>1. b \in Nat /\ d \in Nat /\ b <= d
    BY <1>1
  <2>2. used = Utilization(b, d)
    OBVIOUS
  <2> HIDE DEF b, d, used
  <2> QED BY <2>1, <2>2, UsedPart
<1> HIDE DEF pool, used, factor
<1>6. BorrowRate \in Nat
  <2>1. CASE rate_model = Absent
    BY <1>3, <1>5, <2>1, DynamicTyped
  <2>2. CASE rate_model # Absent
    <3>1. rate_model \in RateModel
      BY <2>2 DEF Rated
    <3> QED BY <1>3, <1>5, <2>2, <3>1, CurveTyped
  <2> QED BY <2>1, <2>2
<1>7. kept \in Nat /\ kept <= 10000
  BY <1>4 DEF SaturatingSub, Points
<1> HIDE DEF kept
<1>8. part \in Nat /\ part <= 10000 * 10000
  <2>0. used \in Nat /\ used <= 10000
    BY <1>5 DEF Points
  <2>1. used * kept <= used * 10000 /\ used * kept \in Nat
    BY <1>7, <2>0
  <2>2. used * 10000 <= 10000 * 10000
    BY <2>0
  <2> QED BY <2>0, <2>1, <2>2
<1> HIDE DEF part
<1>9. SupplyRate <= BorrowRate
  BY <1>2, <1>6, <1>8, PartOfRate
<1> QED BY <1>9 DEF LendersEarnWhatIsPaid

(* The books of the lending contract agree: loans with the lists and NFTs  *)
(* that name them, pools with the loans and stakes they count, and the     *)
(* rates with each other.                                                  *)
THEOREM LendingBooks == LendingSpec => []LendingBooksAgree
<1> DEFINE Books == PoolsSound /\ LoanBook /\ NftsSound /\ DebtsOwed /\ StakesCounted /\ Rated
<1>1. LendingStart => Rated
  BY DEF LendingStart, LendingInit, Rated, Put
<1>2. LendingStart => Books
  BY <1>1, LendingStarts, BookStarts, NftsStart, DebtsStart, StakesStart
<1>3. Books /\ [LendingNext]_<<clock, lendingVars>> => Books'
  <2> SUFFICES ASSUME Books, [LendingNext]_<<clock, lendingVars>> PROVE Books'
    OBVIOUS
  <2>1. PoolsSound' /\ PoolsTyped'
    BY LendingStep DEF StepKeeps, PoolsSound
  <2>2. LoanBook' /\ NftsSound'
    BY EveryCall, CallKeepsBook, CallKeepsNfts
  <2>3. DebtsOwed'
    BY <2>1, EveryDebtCall, CallKeepsDebts
  <2>4. Onward /\ StakesCounted'
    BY EveryOnward
  <2>5. Rated'
    BY <2>4 DEF Onward, Rated
  <2> QED BY <2>1, <2>2, <2>3, <2>4, <2>5
<1>4. Books => LendingBooksAgree
  <2> SUFFICES ASSUME Books PROVE LendingBooksAgree
    OBVIOUS
  <2>1. LoanIndexAgrees /\ NftFollowsLoan /\ BorrowedIsOwed /\ StakesAddUp
    BY BookAgrees, NftsFollow, DebtsAreOwed, CountedAddUp
  <2>2. LendersEarnWhatIsPaid
    BY LendersEarn DEF PoolsSound
  <2> QED BY <2>1, <2>2 DEF LendingBooksAgree
<1> QED BY <1>2, <1>3, <1>4, PTL DEF LendingSpec

-----------------------------------------------------------------------------
(* Lending: what the books promise is in the vault. *)

(* The vault has an entry for every token, and the fund is an amount.      *)
Balances == [Account \cup {Vault} -> Nat]

VaultTyped == wallet \in [Tokens -> Balances] /\ insurance \in Nat

(* An amount of the token t, seen from the token s. *)
InToken(s, t, n) == IF s = t THEN n ELSE 0

PoolBooks(pool) ==
  pool.total_deposits - pool.total_borrowed + pool.retained_yield + pool.bad_debt_reserve

Booked(t) == IF t \in DOMAIN pools THEN PoolBooks(pools[t]) ELSE 0

FundIn(t) == IF t = MainToken THEN insurance ELSE 0

(* What the vault holds besides the pool of a token and the fund. *)
Free(t) == wallet[t][Vault] - Booked(t) - FundIn(t)

CollateralOf(t) ==
  [id \in DOMAIN loan_by_id |->
     IF loan_by_id[id].collateral_token = t THEN loan_by_id[id].collateral_amount ELSE 0]

(* The books of a pool are an integer. *)
LEMMA PoolBooksTyped ==
  ASSUME NEW pool \in PoolState
  PROVE  PoolBooks(pool) \in Int
<1>1. /\ pool.total_deposits \in Nat /\ pool.total_borrowed \in Nat
      /\ pool.retained_yield \in Nat /\ pool.bad_debt_reserve \in Nat
  BY DEF PoolState
<1> QED BY <1>1 DEF PoolBooks

(* What is free of a token is an integer. *)
LEMMA FreeTyped ==
  ASSUME PoolsTyped, VaultTyped, NEW t \in Tokens
  PROVE  /\ wallet[t][Vault] \in Nat /\ Booked(t) \in Int /\ FundIn(t) \in Nat
         /\ Free(t) \in Int
<1>1. wallet[t][Vault] \in Nat
  BY DEF VaultTyped, Balances
<1>2. Booked(t) \in Int
  BY PoolFields, PoolBooksTyped DEF Booked
<1>3. FundIn(t) \in Nat
  BY DEF FundIn, VaultTyped
<1> QED BY <1>1, <1>2, <1>3 DEF Free

(* The slack is what is free beyond the collateral. *)
LEMMA SlackIs ==
  ASSUME PoolsTyped, VaultTyped, NEW t \in Tokens, Total(CollateralOf(t)) \in Int
  PROVE  Slack(t) = Free(t) - Total(CollateralOf(t))
<1> DEFINE c == Total(CollateralOf(t))
           w == wallet[t][Vault]
<1>1. Owed(t) = Booked(t) + FundIn(t) + c
  BY DEF Owed, Booked, PoolBooks, FundIn, CollateralOf, Supported
<1>2. w \in Nat /\ Booked(t) \in Int /\ FundIn(t) \in Nat /\ c \in Int
  BY FreeTyped
<1>3. Slack(t) = w - Owed(t) /\ Free(t) = w - Booked(t) - FundIn(t)
  BY DEF Slack, Free
<1> HIDE DEF c, w
<1> QED BY <1>1, <1>2, <1>3 DEF c

(* An account pays into the vault. *)
LEMMA PaidIn ==
  ASSUME NEW w, w \in [Tokens -> Balances], NEW t, t \in Tokens, NEW u, u \in Account,
         NEW n, n \in Nat, w[t][u] >= n
  PROVE  /\ Pay(w, t, u, Vault, n) \in [Tokens -> Balances]
         /\ \A s \in Tokens : Pay(w, t, u, Vault, n)[s][Vault] = w[s][Vault] + InToken(s, t, n)
         /\ Pay(w, t, u, Vault, n)[t][Vault] = w[t][Vault] + n
<1> DEFINE A == Account \cup {Vault}
           b == w[t]
           b1 == [b EXCEPT ![u] = b[u] - n]
           b2 == [b1 EXCEPT ![Vault] = b1[Vault] + n]
           p == [w EXCEPT ![t] = b2]
<1>1. u # Vault /\ u \in A /\ Vault \in A
  BY LendingAssumption
<1>2. b \in [A -> Nat] /\ b[u] \in Nat /\ b[Vault] \in Nat
  BY <1>1 DEF Balances
<1>3. Pay(w, t, u, Vault, n) = p
  <2>1. Transfer(b, u, Vault, n) = b2
    <3> HIDE DEF b
    <3>1. \A q \in A : Transfer(b, u, Vault, n)[q] = b2[q]
      BY <1>1, <1>2 DEF Transfer
    <3>2. DOMAIN Transfer(b, u, Vault, n) = A /\ DOMAIN b2 = A
      BY <1>2 DEF Transfer
    <3> QED BY <1>2, <3>1, <3>2 DEF Transfer
  <2>2. Pay(w, t, u, Vault, n) = [w EXCEPT ![t] = Transfer(w[t], u, Vault, n)]
    BY DEF Pay
  <2> HIDE DEF b2
  <2> QED BY <2>1, <2>2 DEF b
<1>4. b[u] - n \in Nat
  BY <1>2
<1>5. \A s \in Tokens : w[s][Vault] \in Nat
  BY <1>1 DEF Balances
<1> HIDE DEF b
<1>6. b1 \in [A -> Nat] /\ b1[Vault] = b[Vault]
  BY <1>1, <1>2, <1>4
<1> HIDE DEF b1
<1>7. b1[Vault] + n \in Nat
  BY <1>2, <1>6
<1>8. b2 \in [A -> Nat] /\ b2[Vault] = b[Vault] + n
  BY <1>1, <1>6, <1>7
<1> HIDE DEF b2, A
<1>9. p \in [Tokens -> Balances] /\ p[t] = b2 /\ \A s \in Tokens : s # t => p[s] = w[s]
  BY <1>8 DEF Balances, A
<1> HIDE DEF p
<1>10. ASSUME NEW s \in Tokens PROVE p[s][Vault] = w[s][Vault] + InToken(s, t, n)
  <2>1. CASE s = t
    BY <1>8, <1>9, <2>1 DEF InToken, b
  <2>2. CASE s # t
    BY <1>5, <1>9, <2>2 DEF InToken
  <2> QED BY <2>1, <2>2
<1> QED BY <1>3, <1>8, <1>9, <1>10 DEF b

(* The vault pays an account. *)
LEMMA PaidOut ==
  ASSUME NEW w, w \in [Tokens -> Balances], NEW t, t \in Tokens, NEW u, u \in Account,
         NEW n, n \in Nat, w[t][Vault] >= n
  PROVE  /\ Pay(w, t, Vault, u, n) \in [Tokens -> Balances]
         /\ \A s \in Tokens : Pay(w, t, Vault, u, n)[s][Vault] = w[s][Vault] - InToken(s, t, n)
         /\ Pay(w, t, Vault, u, n)[t][u] = w[t][u] + n
<1> DEFINE A == Account \cup {Vault}
           b == w[t]
           b1 == [b EXCEPT ![Vault] = b[Vault] - n]
           b2 == [b1 EXCEPT ![u] = b1[u] + n]
           p == [w EXCEPT ![t] = b2]
<1>1. u # Vault /\ u \in A /\ Vault \in A
  BY LendingAssumption
<1>2. b \in [A -> Nat] /\ b[u] \in Nat /\ b[Vault] \in Nat
  BY <1>1 DEF Balances
<1>3. Pay(w, t, Vault, u, n) = p
  <2>1. Transfer(b, Vault, u, n) = b2
    <3> HIDE DEF b
    <3>1. \A q \in A : Transfer(b, Vault, u, n)[q] = b2[q]
      BY <1>1, <1>2 DEF Transfer
    <3>2. DOMAIN Transfer(b, Vault, u, n) = A /\ DOMAIN b2 = A
      BY <1>2 DEF Transfer
    <3> QED BY <1>2, <3>1, <3>2 DEF Transfer
  <2>2. Pay(w, t, Vault, u, n) = [w EXCEPT ![t] = Transfer(w[t], Vault, u, n)]
    BY DEF Pay
  <2> HIDE DEF b2
  <2> QED BY <2>1, <2>2 DEF b
<1>4. b[Vault] - n \in Nat
  BY <1>2
<1>5. \A s \in Tokens : w[s][Vault] \in Nat
  BY <1>1 DEF Balances
<1> HIDE DEF b
<1>6. b1 \in [A -> Nat] /\ b1[Vault] = b[Vault] - n /\ b1[u] = b[u]
  BY <1>1, <1>2, <1>4
<1> HIDE DEF b1
<1>7. b1[u] + n \in Nat
  BY <1>2, <1>6
<1>8. b2 \in [A -> Nat] /\ b2[Vault] = b[Vault] - n /\ b2[u] = b[u] + n
  BY <1>1, <1>6, <1>7
<1> HIDE DEF b2, A
<1>9. p \in [Tokens -> Balances] /\ p[t] = b2 /\ \A s \in Tokens : s # t => p[s] = w[s]
  BY <1>8 DEF Balances, A
<1> HIDE DEF p
<1>10. ASSUME NEW s \in Tokens PROVE p[s][Vault] = w[s][Vault] - InToken(s, t, n)
  <2>1. CASE s = t
    BY <1>8, <1>9, <2>1 DEF InToken, b
  <2>2. CASE s # t
    BY <1>5, <1>9, <2>2 DEF InToken
  <2> QED BY <2>1, <2>2
<1> QED BY <1>3, <1>8, <1>9, <1>10 DEF b

(* A pool is written whose books grow by n, which is at most what the      *)
(* vault gains of its asset besides m of the token c.                      *)
LEMMA VaultMoves ==
  ASSUME PoolsTyped, VaultTyped, VaultTyped', UNCHANGED insurance,
         NEW a, a \in DOMAIN pools, NEW pool, SetPool(a, pool),
         NEW n, n \in Int, NEW c, NEW m, m \in Int,
         PoolBooks(pool) = PoolBooks(pools[a]) + n,
         \A t \in Tokens : wallet'[t][Vault] >= wallet[t][Vault] + InToken(t, a, n) + InToken(t, c, m)
  PROVE  \A t \in Tokens : Free(t)' >= Free(t) + InToken(t, c, m)
<1>1. DOMAIN pools' = DOMAIN pools /\ pools'[a] = pool
      /\ \A t \in DOMAIN pools : t # a => pools'[t] = pools[t]
  BY DEF SetPool, Put
<1> SUFFICES ASSUME NEW t \in Tokens PROVE Free(t)' >= Free(t) + InToken(t, c, m)
  OBVIOUS
<1> DEFINE b == Booked(t)
           f == FundIn(t)
           w == wallet[t][Vault]
           v == wallet'[t][Vault]
           k == InToken(t, c, m)
           g == InToken(t, a, n)
<1>2. w \in Nat /\ b \in Int /\ f \in Nat
  BY FreeTyped
<1>3. v \in Nat
  BY LendingAssumption DEF VaultTyped, Balances
<1>4. k \in Int /\ g \in Int
  BY DEF InToken
<1>5. Booked(t)' = b + g
  <2>1. CASE t = a
    BY <1>1, <2>1 DEF Booked, InToken
  <2>2. CASE t # a
    <3>1. Booked(t)' = Booked(t) /\ g = 0
      BY <1>1, <2>2 DEF Booked, InToken
    <3> HIDE DEF b, g
    <3> QED BY <1>2, <3>1 DEF b
  <2> QED BY <2>1, <2>2
<1>6. FundIn(t)' = f
  BY DEF FundIn
<1>7. v >= w + g + k
  OBVIOUS
<1>8. Free(t)' = v - (b + g) - f /\ Free(t) = w - b - f
  BY <1>5, <1>6 DEF Free
<1> HIDE DEF b, f, w, v, k, g
<1>9. v - (b + g) - f >= w - b - f + k
  BY <1>2, <1>3, <1>4, <1>7
<1> QED BY <1>8, <1>9 DEF k

(* Nothing of a token changes nothing. *)
LEMMA FreeSame ==
  ASSUME PoolsTyped, VaultTyped, \A t \in Tokens : Free(t)' >= Free(t), NEW c
  PROVE  \A t \in Tokens : Free(t)' >= Free(t) + InToken(t, c, 0)
<1> SUFFICES ASSUME NEW t \in Tokens PROVE Free(t)' >= Free(t) + InToken(t, c, 0)
  OBVIOUS
<1> DEFINE x == Free(t)
           y == Free(t)'
<1>1. x \in Int /\ y >= x /\ InToken(t, c, 0) = 0
  BY FreeTyped DEF InToken
<1> HIDE DEF x, y
<1>2. x + 0 = x
  BY <1>1
<1> QED BY <1>1, <1>2 DEF x, y

(* So it is when no other token moves. *)
LEMMA VaultStill ==
  ASSUME PoolsTyped, VaultTyped, VaultTyped', UNCHANGED insurance,
         NEW a, a \in DOMAIN pools, NEW pool, SetPool(a, pool),
         NEW n, n \in Int, PoolBooks(pool) = PoolBooks(pools[a]) + n,
         \A t \in Tokens : wallet'[t][Vault] >= wallet[t][Vault] + InToken(t, a, n)
  PROVE  \A t \in Tokens : Free(t)' >= Free(t)
<1> DEFINE m == 0
<1>1. ASSUME NEW t \in Tokens
      PROVE  wallet'[t][Vault] >= wallet[t][Vault] + InToken(t, a, n) + InToken(t, a, m)
  <2> DEFINE w == wallet[t][Vault]
             v == wallet'[t][Vault]
             g == InToken(t, a, n)
  <2>1. w \in Nat /\ g \in Int /\ v >= w + g /\ InToken(t, a, m) = 0
    BY FreeTyped DEF InToken
  <2>2. v \in Nat
    BY LendingAssumption DEF VaultTyped, Balances
  <2> HIDE DEF w, v, g
  <2>3. v >= w + g + 0
    BY <2>1, <2>2
  <2> QED BY <2>1, <2>3 DEF w, v, g
<1>2. m \in Int
  OBVIOUS
<1> HIDE DEF m
<1>3. \A t \in Tokens : Free(t)' >= Free(t) + InToken(t, a, m)
  BY <1>1, <1>2, VaultMoves
<1>4. ASSUME NEW t \in Tokens PROVE Free(t)' >= Free(t)
  <2>1. InToken(t, a, m) = 0 /\ Free(t) \in Int
    BY FreeTyped DEF InToken, m
  <2>2. Free(t)' >= Free(t) + InToken(t, a, m)
    BY <1>3
  <2> DEFINE x == Free(t)
             y == Free(t)'
  <2> HIDE DEF x, y
  <2>3. x + 0 = x
    BY <2>1 DEF x
  <2> QED BY <2>1, <2>2, <2>3 DEF x, y
<1> QED BY <1>4

(* The amounts of a pool that its books are made of. *)
LEMMA BookedAmounts ==
  ASSUME NEW pool \in PoolState
  PROVE  /\ pool.total_deposits \in Nat /\ pool.total_borrowed \in Nat
         /\ pool.retained_yield \in Nat /\ pool.bad_debt_reserve \in Nat
         /\ pool.total_shares \in Nat
BY DEF PoolState

(* What the books of a pool change by. *)
Rebooked(old, new, d, b, y, r) ==
  /\ new.total_deposits = old.total_deposits + d
  /\ new.total_borrowed = old.total_borrowed + b
  /\ new.retained_yield = old.retained_yield + y
  /\ new.bad_debt_reserve = old.bad_debt_reserve + r

(* It is what its amounts change by. *)
LEMMA BooksChange ==
  ASSUME NEW old \in PoolState, NEW new, NEW d, NEW b, NEW y, NEW r,
         d \in Int /\ b \in Int /\ y \in Int /\ r \in Int, Rebooked(old, new, d, b, y, r)
  PROVE  PoolBooks(new) = PoolBooks(old) + (d - b + y + r)
<1>1. /\ old.total_deposits \in Nat /\ old.total_borrowed \in Nat
      /\ old.retained_yield \in Nat /\ old.bad_debt_reserve \in Nat
  BY BookedAmounts
<1> QED BY <1>1 DEF PoolBooks, Rebooked

(* Calls that leave the loans and book no more than the vault gains. *)
BackingStays == VaultTyped' /\ UNCHANGED loan_by_id /\ \A t \in Tokens : Free(t)' >= Free(t)

(* A payment into the vault that the pool books. *)
LEMMA PaymentBooked ==
  ASSUME PoolsTyped, VaultTyped, UNCHANGED insurance,
         NEW a, a \in DOMAIN pools, NEW pool, SetPool(a, pool),
         NEW u, u \in Account, NEW n, n \in Nat, CanPay(u, a, n),
         PoolBooks(pool) = PoolBooks(pools[a]) + n,
         wallet' = Pay(wallet, a, u, Vault, n)
  PROVE  VaultTyped' /\ \A t \in Tokens : Free(t)' >= Free(t)
<1>1. a \in Tokens /\ wallet \in [Tokens -> Balances] /\ wallet[a][u] >= n
  BY PoolFields DEF VaultTyped, CanPay
<1>2. /\ wallet' \in [Tokens -> Balances]
      /\ \A t \in Tokens : wallet'[t][Vault] = wallet[t][Vault] + InToken(t, a, n)
  BY <1>1, PaidIn
<1>3. VaultTyped'
  BY <1>2 DEF VaultTyped
<1>4. ASSUME NEW t \in Tokens PROVE wallet'[t][Vault] >= wallet[t][Vault] + InToken(t, a, n)
  <2>1. wallet[t][Vault] \in Nat /\ InToken(t, a, n) \in Nat
    BY FreeTyped DEF InToken
  <2> QED BY <1>2, <2>1
<1>5. n \in Int
  OBVIOUS
<1>6. \A t \in Tokens : Free(t)' >= Free(t)
  BY <1>3, <1>4, <1>5, VaultStill
<1> QED BY <1>3, <1>6

(* So it is when no loan is written. *)
LEMMA BookedIn ==
  ASSUME PoolsTyped, VaultTyped, UNCHANGED <<insurance, loan_by_id>>,
         NEW a, a \in DOMAIN pools, NEW pool, SetPool(a, pool),
         NEW u, u \in Account, NEW n, n \in Nat, CanPay(u, a, n),
         PoolBooks(pool) = PoolBooks(pools[a]) + n,
         wallet' = Pay(wallet, a, u, Vault, n)
  PROVE  BackingStays
BY PaymentBooked DEF BackingStays

(* A payment out of the vault that the pool has booked. *)
LEMMA BookedOut ==
  ASSUME PoolsTyped, VaultTyped, UNCHANGED <<insurance, loan_by_id>>,
         NEW a, a \in DOMAIN pools, NEW pool, SetPool(a, pool),
         NEW u, u \in Account, NEW n, n \in Nat, CanPay(Vault, a, n),
         PoolBooks(pool) = PoolBooks(pools[a]) - n,
         wallet' = Pay(wallet, a, Vault, u, n)
  PROVE  BackingStays
<1>1. a \in Tokens /\ wallet \in [Tokens -> Balances] /\ wallet[a][Vault] >= n
  BY PoolFields DEF VaultTyped, CanPay
<1>2. /\ wallet' \in [Tokens -> Balances]
      /\ \A t \in Tokens : wallet'[t][Vault] = wallet[t][Vault] - InToken(t, a, n)
  BY <1>1, PaidOut
<1>3. VaultTyped'
  BY <1>2 DEF VaultTyped
<1> DEFINE k == 0 - n
<1>4. ASSUME NEW t \in Tokens PROVE wallet'[t][Vault] >= wallet[t][Vault] + InToken(t, a, k)
  <2> DEFINE w == wallet[t][Vault]
  <2>1. w \in Nat /\ InToken(t, a, n) \in Nat /\ InToken(t, a, k) = 0 - InToken(t, a, n)
    BY FreeTyped DEF InToken
  <2> HIDE DEF k, w
  <2>2. w - InToken(t, a, n) >= w + InToken(t, a, k)
    BY <2>1
  <2> QED BY <1>2, <2>2 DEF w
<1>5. k \in Int
  OBVIOUS
<1>6. PoolBooks(pool) = PoolBooks(pools[a]) + k
  <2>1. PoolBooks(pools[a]) \in Int
    BY PoolFields, PoolBooksTyped
  <2> QED BY <2>1
<1> HIDE DEF k
<1>7. \A t \in Tokens : Free(t)' >= Free(t)
  BY <1>3, <1>4, <1>5, <1>6, VaultStill
<1> QED BY <1>3, <1>7 DEF BackingStays

(* No token moves and the books keep their sums. *)
LEMMA BookedSame ==
  ASSUME PoolsTyped, VaultTyped, UNCHANGED <<insurance, loan_by_id, wallet>>,
         NEW a, a \in DOMAIN pools, NEW pool, SetPool(a, pool),
         PoolBooks(pool) = PoolBooks(pools[a])
  PROVE  BackingStays
<1>1. VaultTyped'
  BY DEF VaultTyped
<1> DEFINE n == 0
<1>2. n \in Int
  OBVIOUS
<1>3. PoolBooks(pool) = PoolBooks(pools[a]) + n
  <2>1. PoolBooks(pools[a]) \in Int
    BY PoolFields, PoolBooksTyped
  <2> QED BY <2>1
<1>4. ASSUME NEW t \in Tokens PROVE wallet'[t][Vault] >= wallet[t][Vault] + InToken(t, a, n)
  <2>1. wallet[t][Vault] \in Nat /\ InToken(t, a, n) = 0
    BY FreeTyped DEF InToken
  <2> HIDE DEF n
  <2> QED BY <2>1
<1> HIDE DEF n
<1>5. \A t \in Tokens : Free(t)' >= Free(t)
  BY <1>1, <1>2, <1>3, <1>4, VaultStill
<1> QED BY <1>1, <1>5 DEF BackingStays

(* What depositors do. *)
LEMMA SharesBacked ==
  ASSUME PoolsSound, VaultTyped, ShareNext
  PROVE  BackingStays
<1>1. PICK a \in Tokens, u \in Account :
        \/ \E amount \in PoolAmount : PoolDeposit(u, a, amount)
        \/ \E n \in ShareAmount : PoolWithdraw(u, a, n)
  BY DEF ShareNext
<1>2. PoolAmount \subseteq Nat /\ ShareAmount \subseteq Nat /\ PoolsTyped
  BY LendingArguments DEF PoolsSound
<1>3. UNCHANGED <<insurance, loan_by_id>>
  BY <1>1 DEF PoolDeposit, PoolWithdraw, loanVars
<1>4. a \in DOMAIN pools
  BY <1>1 DEF PoolDeposit, PoolWithdraw, Running, Supported
<1> DEFINE old == pools[a]
<1>5. old \in PoolState /\ old.total_deposits \in Nat /\ old.total_shares \in Nat
  BY <1>2, <1>4, PoolFields
<1>6. ASSUME NEW d \in Int, NEW s
      PROVE  PoolBooks(WithTotals(old, old.total_deposits + d, s)) = PoolBooks(old) + d
  <2> DEFINE v == old.total_deposits + d
             new == WithTotals(old, v, s)
             z == 0
  <2> HIDE DEF old
  <2>1. /\ old.total_deposits \in Nat /\ old.total_borrowed \in Nat
        /\ old.retained_yield \in Nat /\ old.bad_debt_reserve \in Nat
    BY <1>5, BookedAmounts
  <2> HIDE DEF v
  <2>2. /\ new.total_deposits = v /\ new.total_borrowed = old.total_borrowed
        /\ new.retained_yield = old.retained_yield
        /\ new.bad_debt_reserve = old.bad_debt_reserve
    BY <1>5 DEF WithTotals, PoolState
  <2> HIDE DEF new
  <2>3. Rebooked(old, new, d, z, z, z)
    BY <2>1, <2>2 DEF Rebooked, v
  <2>4. z \in Int /\ d - z + z + z = d
    OBVIOUS
  <2> HIDE DEF z
  <2>5. PoolBooks(new) = PoolBooks(old) + (d - z + z + z)
    BY <1>5, <2>3, <2>4, BooksChange
  <2> QED BY <2>4, <2>5 DEF new, v
<1>7. ASSUME NEW amount \in PoolAmount, PoolDeposit(u, a, amount) PROVE BackingStays
  <2> DEFINE s == old.total_shares + LockedShares(old) + MintedFor(old, amount)
             pool == WithTotals(old, old.total_deposits + amount, s)
  <2>1. /\ SetPool(a, pool) /\ CanPay(u, a, amount)
        /\ wallet' = Pay(wallet, a, u, Vault, amount)
    BY <1>7 DEF PoolDeposit, WithTotals, MintedFor
  <2>2. amount \in Nat /\ amount \in Int
    BY <1>2
  <2> HIDE DEF s, old
  <2>3. PoolBooks(pool) = PoolBooks(old) + amount
    BY <1>6, <2>2
  <2> HIDE DEF pool
  <2> QED BY <1>2, <1>3, <1>4, <2>1, <2>2, <2>3, BookedIn DEF old
<1>8. ASSUME NEW n \in ShareAmount, PoolWithdraw(u, a, n) PROVE BackingStays
  <2> DEFINE paid == AssetsForShares(old, n)
             k == 0 - paid
             d == old.total_deposits - paid
             s == old.total_shares - n
             pool == WithTotals(old, d, s)
  <2>1. /\ SetPool(a, pool) /\ paid > 0 /\ CanPay(Vault, a, paid)
        /\ wallet' = Pay(wallet, a, Vault, u, paid)
    BY <1>8 DEF PoolWithdraw, WithTotals
  <2>2. paid \in Nat
    <3>1. CASE old.total_shares = 0
      BY <3>1 DEF AssetsForShares
    <3>2. CASE old.total_shares # 0
      <4> HIDE DEF old
      <4>1. paid = (n * old.total_deposits) \div old.total_shares
        BY <3>2 DEF AssetsForShares
      <4>2. (n * old.total_deposits) \div old.total_shares \in Nat
        BY <1>2, <1>5, <3>2, QuotientBelow
      <4> QED BY <4>1, <4>2
    <3> QED BY <3>1, <3>2
  <2> HIDE DEF paid
  <2>3. k \in Int /\ d = old.total_deposits + k
    <3> HIDE DEF old
    <3> QED BY <1>5, <2>2
  <2> HIDE DEF k, d, s, old
  <2>4. PoolBooks(pool) = PoolBooks(old) + k
    BY <1>6, <2>3
  <2>5. PoolBooks(pool) = PoolBooks(old) - paid
    <3>1. PoolBooks(old) \in Int
      BY <1>5, PoolBooksTyped
    <3> HIDE DEF pool
    <3> QED BY <2>2, <2>4, <3>1 DEF k
  <2> HIDE DEF pool
  <2> QED BY <1>2, <1>3, <1>4, <2>1, <2>2, <2>5, BookedOut DEF old
<1> QED BY <1>1, <1>7, <1>8

(* What is taken from yield and reserves, and lent for one call. *)
LEMMA YieldBacked ==
  ASSUME PoolsSound, VaultTyped, YieldNext
  PROVE  BackingStays
<1>1. PICK a \in Tokens, u \in Account :
        \/ \E amount \in PriorityAmount : WithdrawPriority(u, a, amount)
        \/ \E amount \in ReserveAmount, to \in Account : PayReserves(u, a, amount, to)
        \/ \E amount \in FlashAmount, returned \in FlashReturn :
             FlashLoan(u, a, amount, returned)
  BY DEF YieldNext
<1>2. /\ PriorityAmount \subseteq Nat /\ ReserveAmount \subseteq Nat /\ FlashAmount \subseteq Nat
      /\ FlashReturn \subseteq Nat /\ flash_fee \in Nat /\ PoolsTyped
  BY LendingArguments DEF PoolsSound, LoansTyped
<1> DEFINE old == pools[a]
<1>3. ASSUME a \in DOMAIN pools
      PROVE  /\ old \in PoolState /\ old.total_deposits \in Nat /\ old.total_borrowed \in Nat
             /\ old.retained_yield \in Nat /\ old.bad_debt_reserve \in Nat
             /\ PoolBooks(old) \in Int
  BY <1>2, <1>3, PoolFields, BookedAmounts, PoolBooksTyped
<1>4. ASSUME NEW amount \in PriorityAmount, WithdrawPriority(u, a, amount) PROVE BackingStays
  <2> DEFINE v == old.retained_yield - amount
             pool == [old EXCEPT !.retained_yield = v]
  <2>1. /\ a \in DOMAIN pools /\ SetPool(a, pool) /\ CanPay(Vault, a, amount)
        /\ wallet' = Pay(wallet, a, Vault, u, amount) /\ UNCHANGED <<insurance, loan_by_id>>
    BY <1>4 DEF WithdrawPriority, Supported, loanVars
  <2>2. amount \in Nat
    BY <1>2
  <2>3. PoolBooks(pool) = PoolBooks(old) - amount
    <3>1. old \in PoolState
      BY <1>3, <2>1
    <3> HIDE DEF old
    <3>2. /\ old.total_deposits \in Nat /\ old.total_borrowed \in Nat
          /\ old.retained_yield \in Nat /\ old.bad_debt_reserve \in Nat
      BY <3>1, BookedAmounts
    <3> HIDE DEF v
    <3>3. /\ pool.total_deposits = old.total_deposits /\ pool.total_borrowed = old.total_borrowed
          /\ pool.retained_yield = v /\ pool.bad_debt_reserve = old.bad_debt_reserve
      BY <3>1 DEF PoolState
    <3> HIDE DEF pool
    <3> QED BY <2>2, <3>2, <3>3 DEF PoolBooks, v
  <2> HIDE DEF pool
  <2> QED BY <1>2, <2>1, <2>2, <2>3, BookedOut
<1>5. ASSUME NEW amount \in ReserveAmount, NEW to \in Account, PayReserves(u, a, amount, to)
      PROVE  BackingStays
  <2> DEFINE v == old.bad_debt_reserve - amount
             pool == [old EXCEPT !.bad_debt_reserve = v]
  <2>1. /\ a \in DOMAIN pools /\ SetPool(a, pool) /\ CanPay(Vault, a, amount)
        /\ wallet' = Pay(wallet, a, Vault, to, amount) /\ UNCHANGED <<insurance, loan_by_id>>
    BY <1>5 DEF PayReserves, Supported, loanVars
  <2>2. amount \in Nat
    BY <1>2
  <2>3. PoolBooks(pool) = PoolBooks(old) - amount
    <3>1. old \in PoolState
      BY <1>3, <2>1
    <3> HIDE DEF old
    <3>2. /\ old.total_deposits \in Nat /\ old.total_borrowed \in Nat
          /\ old.retained_yield \in Nat /\ old.bad_debt_reserve \in Nat
      BY <3>1, BookedAmounts
    <3> HIDE DEF v
    <3>3. /\ pool.total_deposits = old.total_deposits /\ pool.total_borrowed = old.total_borrowed
          /\ pool.retained_yield = old.retained_yield /\ pool.bad_debt_reserve = v
      BY <3>1 DEF PoolState
    <3> HIDE DEF pool
    <3> QED BY <2>2, <3>2, <3>3 DEF PoolBooks, v
  <2> HIDE DEF pool
  <2> QED BY <1>2, <2>1, <2>2, <2>3, BookedOut
<1>6. ASSUME NEW amount \in FlashAmount, NEW returned \in FlashReturn,
             FlashLoan(u, a, amount, returned)
      PROVE  BackingStays
  <2> DEFINE fee == BasisPoints(amount, flash_fee)
             v == old.total_deposits + fee
             pool == [old EXCEPT !.total_deposits = v]
             lent == Pay(wallet, a, Vault, u, amount)
  <2>1. /\ a \in DOMAIN pools /\ SetPool(a, pool) /\ CanPay(Vault, a, amount)
        /\ returned <= wallet[a][u] + amount /\ returned >= amount + fee
        /\ wallet' = Pay(lent, a, u, Vault, returned) /\ UNCHANGED <<insurance, loan_by_id>>
    BY <1>6 DEF FlashLoan, Running, Supported, loanVars
  <2>2. amount \in Nat /\ returned \in Nat /\ fee \in Nat
    <3>1. amount \in Nat /\ returned \in Nat /\ flash_fee \in Nat
      BY <1>2
    <3> HIDE DEF old, v, pool
    <3> QED BY <3>1, FlashFeeTyped
  <2> HIDE DEF fee
  <2>3. PoolBooks(pool) = PoolBooks(old) + fee
    <3>1. old \in PoolState
      BY <1>3, <2>1
    <3> HIDE DEF old
    <3>2. /\ old.total_deposits \in Nat /\ old.total_borrowed \in Nat
          /\ old.retained_yield \in Nat /\ old.bad_debt_reserve \in Nat
      BY <3>1, BookedAmounts
    <3> HIDE DEF v
    <3>3. /\ pool.total_deposits = v /\ pool.total_borrowed = old.total_borrowed
          /\ pool.retained_yield = old.retained_yield
          /\ pool.bad_debt_reserve = old.bad_debt_reserve
      BY <3>1 DEF PoolState
    <3> HIDE DEF pool
    <3> QED BY <2>2, <3>2, <3>3 DEF PoolBooks, v
  <2> HIDE DEF pool, lent, old
  <2>4. a \in Tokens /\ wallet \in [Tokens -> Balances] /\ wallet[a][Vault] >= amount
    BY <2>1 DEF VaultTyped, CanPay
  <2>5. /\ lent \in [Tokens -> Balances] /\ lent[a][u] = wallet[a][u] + amount
        /\ \A t \in Tokens : lent[t][Vault] = wallet[t][Vault] - InToken(t, a, amount)
    BY <2>2, <2>4, PaidOut DEF lent
  <2>6. lent[a][u] >= returned
    BY <2>1, <2>2, <2>4, <2>5 DEF Balances
  <2>7. /\ wallet' \in [Tokens -> Balances]
        /\ \A t \in Tokens : wallet'[t][Vault] = lent[t][Vault] + InToken(t, a, returned)
    BY <2>1, <2>2, <2>4, <2>5, <2>6, PaidIn
  <2>8. VaultTyped'
    BY <2>1, <2>7 DEF VaultTyped
  <2>9. ASSUME NEW t \in Tokens PROVE wallet'[t][Vault] >= wallet[t][Vault] + InToken(t, a, fee)
    <3> DEFINE w == wallet[t][Vault]
    <3>1. /\ w \in Nat
          /\ wallet'[t][Vault] = w - InToken(t, a, amount) + InToken(t, a, returned)
      BY <1>2, <2>5, <2>7, FreeTyped
    <3> HIDE DEF w
    <3>2. w - InToken(t, a, amount) + InToken(t, a, returned) >= w + InToken(t, a, fee)
      BY <2>1, <2>2, <3>1 DEF InToken
    <3> QED BY <3>1, <3>2 DEF w
  <2>10. fee \in Int /\ UNCHANGED insurance
    BY <2>1, <2>2
  <2>11. \A t \in Tokens : Free(t)' >= Free(t)
    BY <1>2, <2>1, <2>3, <2>8, <2>9, <2>10, VaultStill DEF old
  <2> QED BY <2>1, <2>8, <2>11 DEF BackingStays
<1> QED BY <1>1, <1>4, <1>5, <1>6

(* Nothing of it moves. *)
LEMMA BackingUnmoved ==
  ASSUME PoolsTyped, VaultTyped, UNCHANGED <<pools, insurance, loan_by_id, wallet>>
  PROVE  BackingStays
<1>1. VaultTyped'
  BY DEF VaultTyped
<1>2. ASSUME NEW t \in Tokens PROVE Free(t)' >= Free(t)
  <2>1. Free(t)' = Free(t) /\ Free(t) \in Int
    BY FreeTyped DEF Free, Booked, FundIn
  <2> DEFINE x == Free(t)
  <2> HIDE DEF x
  <2>2. x >= x
    BY <2>1 DEF x
  <2> QED BY <2>1, <2>2 DEF x
<1> QED BY <1>1, <1>2 DEF BackingStays

(* A new pool starts empty, and the fund starts again.                     *)
LEMMA NewPoolBacked ==
  ASSUME PoolsSound, VaultTyped, NEW u, NEW a, AddAssetPool(u, a)
  PROVE  BackingStays
<1>1. /\ ~InSeq(assets, a) /\ pools' = Put(pools, a, NewPool)
      /\ insurance' = 0 /\ UNCHANGED <<loan_by_id, wallet>>
  BY DEF AddAssetPool, loanVars
<1>2. PoolsTyped
  BY DEF PoolsSound
<1>3. a \notin DOMAIN pools
  BY <1>1, <1>2 DEF PoolsTyped
<1>4. /\ DOMAIN pools' = DOMAIN pools \cup {a} /\ pools'[a] = NewPool
      /\ \A t \in DOMAIN pools : pools'[t] = pools[t]
  BY <1>1, <1>3 DEF Put
<1>5. PoolBooks(NewPool) = 0
  BY DEF NewPool, PoolBooks
<1>6. VaultTyped'
  BY <1>1 DEF VaultTyped
<1>7. ASSUME NEW t \in Tokens PROVE Free(t)' >= Free(t)
  <2> DEFINE w == wallet[t][Vault]
             b == Booked(t)
             f == FundIn(t)
  <2>1. w \in Nat /\ b \in Int /\ f \in Nat
    BY <1>2, FreeTyped
  <2>2. Booked(t)' = b
    BY <1>3, <1>4, <1>5 DEF Booked
  <2>3. FundIn(t)' = 0
    BY <1>1 DEF FundIn
  <2>4. Free(t)' = w - b - 0 /\ Free(t) = w - b - f
    BY <1>1, <2>2, <2>3 DEF Free
  <2> HIDE DEF w, b, f
  <2> QED BY <2>1, <2>4
<1> QED BY <1>1, <1>6, <1>7 DEF BackingStays

(* What the admin sets of a pool is none of its amounts.                   *)
LEMMA PoolFieldBacked ==
  ASSUME PoolsSound, VaultTyped, NEW u, NEW a, NEW s \in PoolSetting,
         SetPoolField(u, a, s.field, s.value)
  PROVE  BackingStays
<1> DEFINE old == pools[a]
           v == s.value
           f == s.field
           pool == [old EXCEPT ![f] = v]
<1>1. /\ a \in DOMAIN pools /\ pools' = [pools EXCEPT ![a][f] = v]
      /\ UNCHANGED <<insurance, loan_by_id, wallet>>
  BY DEF SetPoolField, Supported, loanVars
<1>2. PoolsTyped /\ f \in {"is_paused", "grace_period", "late_fee_rate_bps"}
  BY LendingArguments DEF PoolsSound
<1>3. old \in PoolState
  BY <1>1, <1>2, PoolFields
<1>4. PoolBooks(pool) = PoolBooks(old)
  <2> HIDE DEF old, v, f
  <2>1. /\ pool.total_deposits = old.total_deposits /\ pool.total_borrowed = old.total_borrowed
        /\ pool.retained_yield = old.retained_yield
        /\ pool.bad_debt_reserve = old.bad_debt_reserve
    BY <1>2, <1>3 DEF PoolState
  <2> HIDE DEF pool
  <2> QED BY <2>1 DEF PoolBooks
<1>5. SetPool(a, pool)
  BY <1>1 DEF SetPool, Put
<1> HIDE DEF pool
<1> QED BY <1>1, <1>2, <1>4, <1>5, BookedSame

(* What the admin does. *)
LEMMA AdminBacked ==
  ASSUME PoolsSound, VaultTyped, AdminNext
  PROVE  BackingStays
<1>1. PICK u \in Account :
        \/ \E a \in NewAsset : AddAssetPool(u, a)
        \/ \E account \in Account, role \in RoleGrant, granted \in BOOLEAN :
             SetLendingRole(u, account, role, granted)
        \/ \E value \in BOOLEAN : SetLendingPaused(u, value)
        \/ \E a \in Tokens, s \in PoolSetting : SetPoolField(u, a, s.field, s.value)
        \/ SetNftToken(u)
        \/ \E t \in CollateralToken, listed \in BOOLEAN : SetCollateral(u, t, listed)
  BY DEF AdminNext
<1>2. ASSUME NEW a, AddAssetPool(u, a) PROVE BackingStays
  BY <1>2, NewPoolBacked
<1>3. ASSUME NEW a, NEW s \in PoolSetting, SetPoolField(u, a, s.field, s.value)
      PROVE  BackingStays
  BY <1>3, PoolFieldBacked
<1>4. ASSUME UNCHANGED <<loanVars, poolVars, insurance, wallet>> PROVE BackingStays
  <2>1. UNCHANGED <<pools, insurance, loan_by_id, wallet>> /\ PoolsTyped
    BY <1>4 DEF loanVars, poolVars, PoolsSound
  <2> QED BY <2>1, BackingUnmoved
<1>5. ASSUME NEW account, NEW role, NEW granted, SetLendingRole(u, account, role, granted)
      PROVE  BackingStays
  BY <1>4, <1>5 DEF SetLendingRole
<1>6. ASSUME NEW value, SetLendingPaused(u, value) PROVE BackingStays
  BY <1>4, <1>6 DEF SetLendingPaused
<1>7. ASSUME SetNftToken(u) PROVE BackingStays
  BY <1>4, <1>7 DEF SetNftToken
<1>8. ASSUME NEW t, NEW listed, SetCollateral(u, t, listed) PROVE BackingStays
  BY <1>4, <1>8 DEF SetCollateral
<1> QED BY <1>1, <1>2, <1>3, <1>5, <1>6, <1>7, <1>8

(* A reserve factor concerns no amount of the pool.                        *)
LEMMA FactorBacked ==
  ASSUME PoolsSound, VaultTyped, NEW u, NEW a, NEW bps, SetReserveFactor(u, a, bps)
  PROVE  BackingStays
<1> DEFINE old == pools[a]
           pool == [old EXCEPT !.reserve_factor_bps = bps]
<1>1. /\ a \in DOMAIN pools /\ SetPool(a, pool) /\ UNCHANGED <<insurance, loan_by_id, wallet>>
  BY DEF SetReserveFactor, Supported, loanVars
<1>2. PoolsTyped
  BY DEF PoolsSound
<1>3. old \in PoolState
  BY <1>1, <1>2, PoolFields
<1>4. PoolBooks(pool) = PoolBooks(old)
  <2> HIDE DEF old
  <2>1. /\ pool.total_deposits = old.total_deposits /\ pool.total_borrowed = old.total_borrowed
        /\ pool.retained_yield = old.retained_yield
        /\ pool.bad_debt_reserve = old.bad_debt_reserve
    BY <1>3 DEF PoolState
  <2> HIDE DEF pool
  <2> QED BY <2>1 DEF PoolBooks
<1> HIDE DEF pool
<1> QED BY <1>1, <1>2, <1>4, BookedSame

(* A payment into the insurance fund or out of it.                         *)
LEMMA FundBacked ==
  ASSUME PoolsSound, VaultTyped, NEW u \in Account, NEW n \in InsuranceAmount,
         DepositToInsuranceFund(u, n) \/ WithdrawFromInsuranceFund(u, n)
  PROVE  BackingStays
<1>1. n \in Nat /\ MainToken \in Tokens /\ PoolsTyped
  BY LendingArguments, LendingAssumption DEF PoolsSound
<1>2. UNCHANGED <<pools, loan_by_id>>
  BY DEF DepositToInsuranceFund, WithdrawFromInsuranceFund, poolVars, loanVars
<1>3. ASSUME NEW g \in Int, insurance' = insurance + g, insurance' \in Nat,
             wallet' \in [Tokens -> Balances],
             \A t \in Tokens : wallet'[t][Vault] = wallet[t][Vault] + InToken(t, MainToken, g)
      PROVE  BackingStays
  <2>1. VaultTyped'
    BY <1>3 DEF VaultTyped
  <2>2. ASSUME NEW t \in Tokens PROVE Free(t)' >= Free(t)
    <3> DEFINE w == wallet[t][Vault]
               b == Booked(t)
               f == FundIn(t)
               k == InToken(t, MainToken, g)
    <3>1. w \in Nat /\ b \in Int /\ f \in Nat
      BY <1>1, FreeTyped
    <3>2. k \in Int
      BY DEF InToken
    <3>3. Booked(t)' = b
      BY <1>2 DEF Booked
    <3>4. FundIn(t)' = f + k
      <4>1. CASE t = MainToken
        BY <1>3, <4>1 DEF FundIn, InToken
      <4>2. CASE t # MainToken
        BY <4>2 DEF FundIn, InToken
      <4> QED BY <4>1, <4>2
    <3>5. wallet'[t][Vault] = w + k
      BY <1>3
    <3>6. Free(t)' = (w + k) - b - (f + k) /\ Free(t) = w - b - f
      BY <3>3, <3>4, <3>5 DEF Free
    <3> HIDE DEF w, b, f, k
    <3>7. (w + k) - b - (f + k) >= w - b - f
      BY <3>1, <3>2
    <3> QED BY <3>6, <3>7
  <2> QED BY <1>2, <2>1, <2>2 DEF BackingStays
<1>4. wallet \in [Tokens -> Balances] /\ insurance \in Nat
  BY DEF VaultTyped
<1>5. CASE DepositToInsuranceFund(u, n)
  <2>1. /\ wallet[MainToken][u] >= n /\ wallet' = Pay(wallet, MainToken, u, Vault, n)
        /\ insurance' = insurance + n
    BY <1>5 DEF DepositToInsuranceFund, CanPay
  <2>2. /\ wallet' \in [Tokens -> Balances]
        /\ \A t \in Tokens : wallet'[t][Vault] = wallet[t][Vault] + InToken(t, MainToken, n)
    BY <1>1, <1>4, <2>1, PaidIn
  <2>3. insurance' \in Nat /\ n \in Int
    BY <1>1, <1>4, <2>1
  <2> QED BY <1>3, <2>1, <2>2, <2>3
<1>6. CASE WithdrawFromInsuranceFund(u, n)
  <2> DEFINE g == 0 - n
  <2>1. /\ wallet[MainToken][Vault] >= n /\ wallet' = Pay(wallet, MainToken, Vault, u, n)
        /\ insurance' = insurance - n /\ n <= insurance
    BY <1>6 DEF WithdrawFromInsuranceFund, CanPay
  <2>2. /\ wallet' \in [Tokens -> Balances]
        /\ \A t \in Tokens : wallet'[t][Vault] = wallet[t][Vault] - InToken(t, MainToken, n)
    BY <1>1, <1>4, <2>1, PaidOut
  <2>3. g \in Int /\ insurance' = insurance + g /\ insurance' \in Nat
    BY <1>1, <1>4, <2>1
  <2>4. ASSUME NEW t \in Tokens
        PROVE  wallet'[t][Vault] = wallet[t][Vault] + InToken(t, MainToken, g)
    <3> DEFINE w == wallet[t][Vault]
    <3>1. w \in Nat /\ wallet'[t][Vault] = w - InToken(t, MainToken, n)
      BY <1>1, <2>2, FreeTyped
    <3> HIDE DEF w
    <3>2. w - InToken(t, MainToken, n) = w + InToken(t, MainToken, g)
      BY <1>1, <3>1 DEF InToken
    <3> QED BY <3>1, <3>2 DEF w
  <2> HIDE DEF g
  <2> QED BY <1>3, <2>2, <2>3, <2>4
<1> QED BY <1>5, <1>6

(* Rates, fees and the insurance fund. *)
LEMMA FeeBacked ==
  ASSUME PoolsSound, VaultTyped, FeeNext
  PROVE  BackingStays
<1>1. PICK u \in Account :
        \/ \E bps \in FeeBps :
             \/ SetFlashLoanFee(u, bps) \/ SetInsurancePremiumRate(u, bps)
             \/ \E a \in Tokens : SetReserveFactor(u, a, bps)
        \/ \E amount \in InsuranceAmount :
             DepositToInsuranceFund(u, amount) \/ WithdrawFromInsuranceFund(u, amount)
        \/ \E model \in CurveModel : SetRateModel(u, model)
  BY DEF FeeNext
<1>2. ASSUME UNCHANGED <<loanVars, poolVars, insurance, wallet>> PROVE BackingStays
  <2>1. UNCHANGED <<pools, insurance, loan_by_id, wallet>> /\ PoolsTyped
    BY <1>2 DEF loanVars, poolVars, PoolsSound
  <2> QED BY <2>1, BackingUnmoved
<1>3. ASSUME NEW bps, SetFlashLoanFee(u, bps) PROVE BackingStays
  BY <1>2, <1>3 DEF SetFlashLoanFee
<1>4. ASSUME NEW bps, SetInsurancePremiumRate(u, bps) PROVE BackingStays
  BY <1>2, <1>4 DEF SetInsurancePremiumRate
<1>5. ASSUME NEW model, SetRateModel(u, model) PROVE BackingStays
  BY <1>2, <1>5 DEF SetRateModel
<1>6. ASSUME NEW n \in InsuranceAmount,
             DepositToInsuranceFund(u, n) \/ WithdrawFromInsuranceFund(u, n)
      PROVE  BackingStays
  BY <1>6, FundBacked
<1>7. ASSUME NEW a, NEW bps, SetReserveFactor(u, a, bps) PROVE BackingStays
  BY <1>7, FactorBacked
<1> QED BY <1>1, <1>3, <1>4, <1>5, <1>6, <1>7

(* Staking, the tokens of loans, and time. *)
LEMMA AsideBacked ==
  ASSUME PoolsSound, VaultTyped, Aside
  PROVE  BackingStays
<1>1. ASSUME UNCHANGED <<pools, insurance, loan_by_id, wallet>> PROVE BackingStays
  <2>1. PoolsTyped
    BY DEF PoolsSound
  <2> QED BY <1>1, <2>1, BackingUnmoved
<1>2. CASE StakingNext
  <2>1. PICK a \in Tokens :
          \/ \E u \in Account :
               \/ \E n \in ShareAmount : StakeLpTokens(u, a, n) \/ UnstakeLpTokens(u, a, n)
               \/ ClaimRewards(u, a)
               \/ \E rate \in RewardRate : SetRewardRate(u, a, rate)
          \/ GetPendingRewards(a)
    BY <1>2 DEF StakingNext
  <2>2. ASSUME NEW u, NEW n, StakeLpTokens(u, a, n) PROVE BackingStays
    BY <1>1, <2>2 DEF StakeLpTokens, loanVars, poolVars
  <2>3. ASSUME NEW u, NEW n, UnstakeLpTokens(u, a, n) PROVE BackingStays
    BY <1>1, <2>3 DEF UnstakeLpTokens, loanVars, poolVars
  <2>4. ASSUME NEW u, ClaimRewards(u, a) PROVE BackingStays
    BY <1>1, <2>4 DEF ClaimRewards, loanVars, poolVars
  <2>5. ASSUME NEW u, NEW rate, SetRewardRate(u, a, rate) PROVE BackingStays
    BY <1>1, <2>5 DEF SetRewardRate, loanVars, poolVars
  <2>6. ASSUME GetPendingRewards(a) PROVE BackingStays
    BY <1>1, <2>6 DEF GetPendingRewards, loanVars, poolVars
  <2> QED BY <2>1, <2>2, <2>3, <2>4, <2>5, <2>6
<1>3. CASE NftNext
  BY <1>1, <1>3 DEF NftNext, poolVars
<1>4. CASE UNCHANGED lendingVars
  BY <1>1, <1>4 DEF lendingVars, loanVars, poolVars
<1> QED BY <1>2, <1>3, <1>4 DEF Aside

(* Collateral that is given back and that is taken. *)
ClosedPledges(closed) == [id \in closed |-> loan_by_id[id].collateral_amount]
MadePledges(recs) == [id \in DOMAIN recs |-> recs[id].collateral_amount]

(* Loans with collateral of one token, closed and made. *)
OfToken(c, closed, recs) ==
  /\ \A id \in closed : loan_by_id[id].collateral_token = c
  /\ \A id \in DOMAIN recs : recs[id].collateral_token = c

(* A turnover concerns finitely many loans. *)
LEMMA TurnedLoans ==
  ASSUME LoanBook, IsMap(loan_by_id, Nat, LoanRecord),
         NEW u, NEW closed, NEW recs, Turnover(u, closed, recs)
  PROVE  /\ IsFiniteSet(DOMAIN loan_by_id) /\ closed \subseteq DOMAIN loan_by_id
         /\ IsFiniteSet(closed) /\ IsFiniteSet(DOMAIN recs)
         /\ \A id \in DOMAIN loan_by_id : loan_by_id[id].collateral_amount \in Nat
         /\ \A id \in DOMAIN recs : recs[id].collateral_amount \in Nat /\ id \notin DOMAIN loan_by_id
         /\ DOMAIN loan_by_id' = (DOMAIN loan_by_id \ closed) \cup DOMAIN recs
         /\ \A id \in DOMAIN recs : loan_by_id'[id] = recs[id]
         /\ \A id \in DOMAIN loan_by_id \ closed : loan_by_id'[id] = loan_by_id[id]
<1> DEFINE D == DOMAIN loan_by_id
           N == DOMAIN recs
<1>1. /\ next_loan_id \in Nat /\ next_loan_id' \in Nat
      /\ \A id \in N : /\ id \in Nat /\ next_loan_id <= id /\ id < next_loan_id'
                       /\ recs[id] \in LoanRecord
  BY DEF Turnover, Fresh
<1>2. /\ IsFiniteSet(D)
      /\ \A id \in D : loan_by_id[id] \in LoanRecord /\ id < next_loan_id
  BY <1>1, DebtsTyped DEF LoanBook, LoansNumbered
<1>3. closed \subseteq D
  BY DEF Turnover, OwnLoans
<1>4. IsFiniteSet(N)
  <2>1. N \in SUBSET Nat /\ \A id \in N : id <= next_loan_id'
    BY <1>1
  <2> QED BY <1>1, <2>1, FS_BoundedSetOfNaturals
<1>5. \A id \in N : id \notin D
  <2>1. \A id \in N : ~(id < next_loan_id)
    BY <1>1
  <2> QED BY <1>2, <2>1
<1>6. /\ DOMAIN loan_by_id' = (D \ closed) \cup N
      /\ \A id \in N : loan_by_id'[id] = recs[id]
      /\ \A id \in D \ closed : loan_by_id'[id] = loan_by_id[id]
  BY <1>5 DEF Turnover, RecordsReplaced
<1>7. /\ \A id \in D : loan_by_id[id].collateral_amount \in Nat
      /\ \A id \in N : recs[id].collateral_amount \in Nat
  BY <1>1, <1>2 DEF LoanRecord
<1>8. IsFiniteSet(closed)
  BY <1>2, <1>3, FS_Subset
<1> QED BY <1>2, <1>3, <1>4, <1>5, <1>6, <1>7, <1>8

(* Finitely many loans have a total of collateral. *)
LEMMA CollateralTyped ==
  ASSUME LoanBook, IsMap(loan_by_id, Nat, LoanRecord), next_loan_id \in Nat, NEW t
  PROVE  IntMap(CollateralOf(t)) /\ Total(CollateralOf(t)) \in Int
<1> DEFINE f == CollateralOf(t)
<1>1. /\ IsFiniteSet(DOMAIN loan_by_id)
      /\ \A id \in DOMAIN loan_by_id : loan_by_id[id] \in LoanRecord
  BY DebtsTyped
<1>2. \A id \in DOMAIN loan_by_id : loan_by_id[id].collateral_amount \in Nat
  BY <1>1 DEF LoanRecord
<1>3. DOMAIN f = DOMAIN loan_by_id /\ \A id \in DOMAIN f : f[id] \in Int
  BY <1>2 DEF CollateralOf
<1> HIDE DEF f
<1>4. IntMap(f)
  BY <1>1, <1>3 DEF IntMap
<1> QED BY <1>4, TotalIsInt DEF f

(* How a turnover changes the collateral.                                  *)
LEMMA CollateralTurned ==
  ASSUME LoanBook, IsMap(loan_by_id, Nat, LoanRecord),
         NEW u, NEW closed, NEW recs, Turnover(u, closed, recs),
         NEW c, OfToken(c, closed, recs), NEW t
  PROVE  /\ Total(ClosedPledges(closed)) \in Nat /\ Total(MadePledges(recs)) \in Nat
         /\ Total(CollateralOf(t)) \in Int
         /\ Total(CollateralOf(t)') =
              Total(CollateralOf(t))
                + InToken(t, c, Total(MadePledges(recs)) - Total(ClosedPledges(closed)))
<1> DEFINE D == DOMAIN loan_by_id
           N == DOMAIN recs
           E == (D \ closed) \cup N
           f == CollateralOf(t)
           e == CollateralOf(t)'
           x == Total(ClosedPledges(closed))
           y == Total(MadePledges(recs))
<1>1. /\ IsFiniteSet(D) /\ closed \subseteq D /\ IsFiniteSet(closed) /\ IsFiniteSet(N)
      /\ \A id \in D : loan_by_id[id].collateral_amount \in Nat
      /\ \A id \in N : recs[id].collateral_amount \in Nat /\ id \notin D
      /\ DOMAIN loan_by_id' = E
      /\ \A id \in N : loan_by_id'[id] = recs[id]
      /\ \A id \in D \ closed : loan_by_id'[id] = loan_by_id[id]
  BY TurnedLoans
<1>2. x \in Nat /\ y \in Nat
  <2>1. /\ DOMAIN ClosedPledges(closed) = closed
        /\ \A id \in closed : ClosedPledges(closed)[id] \in Nat
    BY <1>1 DEF ClosedPledges
  <2>2. DOMAIN MadePledges(recs) = N /\ \A id \in N : MadePledges(recs)[id] \in Nat
    BY <1>1 DEF MadePledges
  <2> HIDE DEF N
  <2> QED BY <1>1, <2>1, <2>2, TotalOfNats
<1>3. IntMap(f) /\ DOMAIN f = D /\ Total(f) \in Int
  <2>1. next_loan_id \in Nat
    BY DEF Turnover
  <2> QED BY <2>1, CollateralTyped DEF CollateralOf
<1>4. /\ DOMAIN e = E
      /\ \A id \in N : e[id] = IF recs[id].collateral_token = t
                               THEN recs[id].collateral_amount ELSE 0
      /\ \A id \in D \ closed : e[id] = f[id]
  BY <1>1 DEF CollateralOf
<1>5. \A id \in closed : f[id] = IF t = c THEN loan_by_id[id].collateral_amount ELSE 0
  BY <1>1 DEF CollateralOf, OfToken
<1>6. \A id \in N : recs[id].collateral_token = c
  BY DEF OfToken
<1> HIDE DEF D, N, E, f, e, x, y
<1>7. IntMap(e)
  <2>1. IsFiniteSet(E)
    BY <1>1, FS_Union, FS_Difference DEF E
  <2>2. \A id \in E : e[id] \in Int
    BY <1>1, <1>3, <1>4 DEF E, IntMap
  <2> QED BY <1>4, <2>1, <2>2 DEF IntMap
<1>8. N \subseteq E /\ E \ N = D \ closed
  BY <1>1 DEF E
<1>9. /\ Total(e) = Total(Portion(e, E \ N)) + Total(Portion(e, N))
      /\ Total(Portion(e, N)) \in Int
  BY <1>4, <1>7, <1>8, PortionsTotal
<1>10. /\ Total(f) = Total(Portion(f, D \ closed)) + Total(Portion(f, closed))
       /\ Total(Portion(f, closed)) \in Int /\ Total(Portion(f, D \ closed)) \in Int
  BY <1>1, <1>3, PortionsTotal
<1>11. Portion(e, E \ N) = Portion(f, D \ closed)
  BY <1>4, <1>8 DEF Portion
<1> DEFINE k == Total(Portion(f, D \ closed))
<1>12. CASE t = c
  <2>1. Portion(f, closed) = ClosedPledges(closed)
    BY <1>5, <1>12 DEF Portion, ClosedPledges
  <2>2. Portion(e, N) = MadePledges(recs)
    BY <1>4, <1>6, <1>12 DEF Portion, MadePledges, N
  <2>3. k \in Int /\ Total(f) = k + x /\ Total(e) = k + y
    BY <1>9, <1>10, <1>11, <2>1, <2>2 DEF x, y
  <2> HIDE DEF k
  <2>4. Total(e) = Total(f) + (y - x)
    BY <1>2, <2>3
  <2> QED BY <1>2, <1>3, <1>12, <2>4 DEF InToken, e, f, x, y
<1>13. CASE t # c
  <2>1. /\ DOMAIN Portion(f, closed) = closed
        /\ \A id \in closed : Portion(f, closed)[id] = 0
    BY <1>5, <1>13 DEF Portion
  <2>2. DOMAIN Portion(e, N) = N /\ \A id \in N : Portion(e, N)[id] = 0
    BY <1>4, <1>6, <1>13 DEF Portion
  <2>3. Total(Portion(f, closed)) = 0 /\ Total(Portion(e, N)) = 0
    BY <1>1, <2>1, <2>2, TotalOfZeros
  <2>4. k \in Int /\ Total(f) = k + 0 /\ Total(e) = k + 0
    BY <1>9, <1>10, <1>11, <2>3
  <2> HIDE DEF k
  <2>5. Total(e) = Total(f) + 0
    BY <2>4
  <2> QED BY <1>2, <1>3, <1>13, <2>5 DEF InToken, e, f, x, y
<1> QED BY <1>12, <1>13

(* A call that turns loans over, and leaves in the vault what it takes.    *)
BackingTurns(u, closed, recs, c, m) ==
  /\ VaultTyped' /\ Turnover(u, closed, recs) /\ OfToken(c, closed, recs)
  /\ m \in Int /\ Total(MadePledges(recs)) <= Total(ClosedPledges(closed)) + m
  /\ \A t \in Tokens : Free(t)' >= Free(t) + InToken(t, c, m)

BackedCall == BackingStays \/ \E u, closed, recs, c, m : BackingTurns(u, closed, recs, c, m)

(* Such a call uses up no slack. *)
LEMMA CallIsBacked ==
  ASSUME PoolsSound, LoanBook, VaultTyped, PoolsTyped', BackedCall
  PROVE  VaultTyped' /\ \A t \in Tokens : Slack(t)' >= Slack(t)
<1>1. /\ IsMap(loan_by_id, Nat, LoanRecord) /\ next_loan_id \in Nat /\ PoolsTyped
  BY BookTyped
<1>2. VaultTyped'
  BY DEF BackedCall, BackingStays, BackingTurns
<1>3. ASSUME NEW t \in Tokens
      PROVE  /\ Free(t) \in Int /\ Free(t)' \in Int
             /\ Total(CollateralOf(t)) \in Int
             /\ Slack(t) = Free(t) - Total(CollateralOf(t))
             /\ (Total(CollateralOf(t)') \in Int =>
                   Slack(t)' = Free(t)' - Total(CollateralOf(t)'))
  <2>1. Total(CollateralOf(t)) \in Int
    BY <1>1, CollateralTyped
  <2>2. Free(t) \in Int /\ Slack(t) = Free(t) - Total(CollateralOf(t))
    BY <1>1, <2>1, FreeTyped, SlackIs
  <2> DEFINE c == Total(CollateralOf(t)')
             w == wallet'[t][Vault]
             b == Booked(t)'
             f == FundIn(t)'
  <2>3. w \in Nat /\ f \in Nat
    BY <1>2 DEF VaultTyped, Balances, FundIn
  <2>4. b \in Int
    <3>1. CASE t \in DOMAIN pools'
      <4> DEFINE pool == pools'[t]
      <4>1. pool \in PoolState /\ b = PoolBooks(pool)
        BY <3>1 DEF PoolsTyped, IsMap, Booked
      <4> HIDE DEF pool
      <4> QED BY <4>1, PoolBooksTyped
    <3>2. CASE t \notin DOMAIN pools'
      BY <3>2 DEF Booked
    <3> QED BY <3>1, <3>2
  <2>5. Owed(t)' = b + f + c
    BY DEF Owed, Booked, PoolBooks, FundIn, CollateralOf, Supported
  <2>6. Slack(t)' = w - Owed(t)' /\ Free(t)' = w - b - f
    BY DEF Slack, Free
  <2> HIDE DEF c, w, b, f
  <2>7. Free(t)' \in Int /\ (c \in Int => Slack(t)' = Free(t)' - c)
    BY <2>3, <2>4, <2>5, <2>6
  <2> QED BY <2>1, <2>2, <2>7 DEF c
<1>4. CASE BackingStays
  <2>1. ASSUME NEW t \in Tokens PROVE Slack(t)' >= Slack(t)
    <3> DEFINE x == Free(t)
               y == Free(t)'
               c == Total(CollateralOf(t))
    <3>1. Total(CollateralOf(t)') = c
      BY <1>4 DEF BackingStays, CollateralOf
    <3>2. y >= x /\ x \in Int /\ y \in Int /\ c \in Int
      BY <1>3, <1>4 DEF BackingStays
    <3>3. Slack(t) = x - c /\ Slack(t)' = y - c
      BY <1>3, <3>1, <3>2
    <3> HIDE DEF x, y, c
    <3> QED BY <3>2, <3>3
  <2> QED BY <1>2, <2>1
<1>5. ASSUME NEW u, NEW closed, NEW recs, NEW c, NEW m, BackingTurns(u, closed, recs, c, m)
      PROVE  \A t \in Tokens : Slack(t)' >= Slack(t)
  <2> SUFFICES ASSUME NEW t \in Tokens PROVE Slack(t)' >= Slack(t)
    OBVIOUS
  <2> DEFINE x == Free(t)
             y == Free(t)'
             p == Total(CollateralOf(t))
             q == Total(CollateralOf(t)')
             a == Total(ClosedPledges(closed))
             b == Total(MadePledges(recs))
  <2>1. /\ a \in Nat /\ b \in Nat /\ p \in Int /\ q = p + InToken(t, c, b - a)
    BY <1>1, <1>5, CollateralTurned DEF BackingTurns
  <2>2. m \in Int /\ b <= a + m /\ y >= x + InToken(t, c, m)
    BY <1>5 DEF BackingTurns
  <2>3. x \in Int /\ y \in Int
    BY <1>3
  <2> HIDE DEF a, b
  <2>4. InToken(t, c, b - a) \in Int /\ InToken(t, c, m) \in Int
        /\ InToken(t, c, b - a) <= InToken(t, c, m)
    BY <2>1, <2>2 DEF InToken
  <2>5. q \in Int
    <3> HIDE DEF p, q
    <3> QED BY <2>1, <2>4
  <2>6. Slack(t) = x - p /\ Slack(t)' = y - q
    BY <1>3, <2>5
  <2> HIDE DEF x, y, p, q
  <2>7. y - q >= x - p
    BY <2>1, <2>2, <2>3, <2>4
  <2> QED BY <2>6, <2>7
<1> QED BY <1>2, <1>4, <1>5 DEF BackedCall

(* New loans whose collateral is in the vault. *)
LEMMA NewLoansBacked ==
  ASSUME LoanBook, NEW u, NEW closed, NEW made, NEW n, NewLoans(u, closed, made, n), VaultTyped',
         NEW c, OfToken(c, closed, ById(made)), NEW m, m \in Int,
         Total(MadePledges(ById(made))) <= Total(ClosedPledges(closed)) + m,
         \A t \in Tokens : Free(t)' >= Free(t) + InToken(t, c, m)
  PROVE  BackedCall
<1>1. Turnover(u, closed, ById(made))
  BY LoansTurned DEF NewLoans
<1>2. BackingTurns(u, closed, ById(made), c, m)
  BY <1>1 DEF BackingTurns
<1> QED BY <1>2 DEF BackedCall

(* The collateral of one new loan. *)
LEMMA OnePledge ==
  ASSUME NEW loan, Numbered(<<loan>>, 1), loan.principal \in Nat, loan.collateral_amount \in Nat
  PROVE  /\ Total(MadePledges(ById(<<loan>>))) = loan.collateral_amount
         /\ \A id \in DOMAIN ById(<<loan>>) : ById(<<loan>>)[id] = loan
<1> DEFINE made == <<loan>>
           recs == ById(made)
           m == next_loan_id
<1>1. made[1] = loan
  OBVIOUS
<1> HIDE DEF made
<1>2. m \in Nat
  BY DEF Numbered, made
<1>3. /\ m + 1 - 1 \in DOMAIN recs
      /\ \A id \in DOMAIN recs : \E i \in 1..1 : id = m + i - 1 /\ recs[id] = made[i]
  BY IdsMade DEF made
<1> HIDE DEF recs
<1>4. DOMAIN recs = {m} /\ \A id \in DOMAIN recs : recs[id] = loan
  BY <1>1, <1>2, <1>3
<1>5. DOMAIN MadePledges(recs) = {m} /\ MadePledges(recs)[m] = loan.collateral_amount
  BY <1>4 DEF MadePledges
<1>6. Total(MadePledges(recs)) = loan.collateral_amount
  BY <1>5, TotalOfOne
<1> QED BY <1>4, <1>6 DEF recs, made

(* That of one closed loan. *)
LEMMA ClosedPledge ==
  ASSUME NEW id, loan_by_id[id].collateral_amount \in Nat
  PROVE  Total(ClosedPledges({id})) = loan_by_id[id].collateral_amount
<1>1. DOMAIN ClosedPledges({id}) = {id} /\ ClosedPledges({id})[id] = loan_by_id[id].collateral_amount
  BY DEF ClosedPledges
<1> QED BY <1>1, TotalOfOne

(* The tokens of a loan. *)
LEMMA LoanTokens ==
  ASSUME NEW loan \in LoanRecord
  PROVE  /\ loan.asset \in Tokens /\ loan.collateral_token \in Tokens
         /\ loan.principal \in Nat /\ loan.collateral_amount \in Nat
BY DEF LoanRecord

(* A fee is paid into the vault and booked as yield. *)
LEMMA FeeBooked ==
  ASSUME PoolsSound, VaultTyped, NEW u \in Account, NEW a, a \in DOMAIN pools,
         NEW fee \in Nat, PayFee(u, a, fee), UNCHANGED insurance
  PROVE  VaultTyped' /\ \A t \in Tokens : Free(t)' >= Free(t)
<1> DEFINE old == pools[a]
           v == old.retained_yield + fee
           pool == [old EXCEPT !.retained_yield = v]
<1>1. SetPool(a, pool) /\ CanPay(u, a, fee) /\ wallet' = Pay(wallet, a, u, Vault, fee)
  BY DEF PayFee
<1>2. PoolsTyped /\ old \in PoolState
  BY PoolFields DEF PoolsSound
<1>3. PoolBooks(pool) = PoolBooks(old) + fee
  <2> HIDE DEF old
  <2>1. /\ old.total_deposits \in Nat /\ old.total_borrowed \in Nat
        /\ old.retained_yield \in Nat /\ old.bad_debt_reserve \in Nat
    BY <1>2, BookedAmounts
  <2> HIDE DEF v
  <2>2. /\ pool.total_deposits = old.total_deposits /\ pool.total_borrowed = old.total_borrowed
        /\ pool.retained_yield = v /\ pool.bad_debt_reserve = old.bad_debt_reserve
    BY <1>2 DEF PoolState
  <2> HIDE DEF pool
  <2> QED BY <2>1, <2>2 DEF PoolBooks, v
<1> HIDE DEF pool
<1>4. fee \in Nat /\ u \in Account
  OBVIOUS
<1> QED BY <1>1, <1>2, <1>3, <1>4, PaymentBooked

(* A loan is made for collateral. *)
LEMMA BorrowBacked ==
  ASSUME PoolsSound, LoanBook, VaultTyped, NEW u \in Account, NEW a \in Tokens,
         NEW request \in LoanRequest, NEW t \in CollateralToken, NEW days \in LoanDays,
         Borrow(u, a, request.amount, t, request.collateral, days)
  PROVE  BackedCall
<1> DEFINE amount == request.amount
           pledge == request.collateral
           old == pools[a]
           b == old.total_borrowed + amount
           pool == [old EXCEPT !.total_borrowed = b]
           paid == Pay(wallet, t, u, Vault, pledge)
           n == 0 - amount
<1>1. PICK loan : /\ NewLoans(u, {}, <<loan>>, 1)
                  /\ loan.asset = a /\ loan.principal = request.amount
                  /\ loan.collateral_token = t /\ loan.collateral_amount = request.collateral
  BY BorrowMakes
<1>2. /\ a \in DOMAIN pools /\ SetPool(a, pool) /\ wallet[t][u] >= pledge
      /\ paid[a][Vault] >= amount /\ wallet' = Pay(paid, a, Vault, u, amount)
      /\ UNCHANGED insurance
  BY DEF Borrow, Running, Supported, CanPay
<1>3. amount \in Nat /\ pledge \in Nat /\ t \in Tokens /\ PoolsTyped
  BY LendingArguments DEF PoolsSound
<1>4. old \in PoolState /\ PoolBooks(old) \in Int
  BY <1>2, <1>3, PoolFields, PoolBooksTyped
<1>5. PoolBooks(pool) = PoolBooks(old) + n
  <2> HIDE DEF old
  <2>1. /\ old.total_deposits \in Nat /\ old.total_borrowed \in Nat
        /\ old.retained_yield \in Nat /\ old.bad_debt_reserve \in Nat
    BY <1>4, BookedAmounts
  <2> HIDE DEF b
  <2>2. /\ pool.total_deposits = old.total_deposits /\ pool.total_borrowed = b
        /\ pool.retained_yield = old.retained_yield
        /\ pool.bad_debt_reserve = old.bad_debt_reserve
    BY <1>4 DEF PoolState
  <2> HIDE DEF pool, amount
  <2> QED BY <1>3, <2>1, <2>2 DEF PoolBooks, b
<1> HIDE DEF pool, old, amount, pledge, paid
<1>6. /\ paid \in [Tokens -> Balances]
      /\ \A s \in Tokens : paid[s][Vault] = wallet[s][Vault] + InToken(s, t, pledge)
  BY <1>2, <1>3, PaidIn DEF VaultTyped, paid
<1>7. /\ wallet' \in [Tokens -> Balances]
      /\ \A s \in Tokens : wallet'[s][Vault] = paid[s][Vault] - InToken(s, a, amount)
  BY <1>2, <1>3, <1>6, PaidOut
<1>8. VaultTyped'
  BY <1>2, <1>7 DEF VaultTyped
<1>9. ASSUME NEW s \in Tokens
      PROVE  wallet'[s][Vault] >= wallet[s][Vault] + InToken(s, a, n) + InToken(s, t, pledge)
  <2> DEFINE w == wallet[s][Vault]
  <2>1. w \in Nat
    BY <1>3, FreeTyped
  <2>3. wallet'[s][Vault] = w + InToken(s, t, pledge) - InToken(s, a, amount)
    <3>1. paid[s][Vault] = w + InToken(s, t, pledge)
      BY <1>6
    <3>2. wallet'[s][Vault] = paid[s][Vault] - InToken(s, a, amount)
      BY <1>7
    <3>3. InToken(s, t, pledge) \in Int /\ InToken(s, a, amount) \in Int
      BY <1>3 DEF InToken
    <3> HIDE DEF w
    <3> QED BY <2>1, <3>1, <3>2, <3>3
  <2> HIDE DEF w
  <2>2. w + InToken(s, t, pledge) - InToken(s, a, amount) >= w + InToken(s, a, n) + InToken(s, t, pledge)
    BY <1>3, <2>1 DEF InToken
  <2> QED BY <2>2, <2>3 DEF w
<1>10. n \in Int /\ pledge \in Int
  BY <1>3
<1> HIDE DEF n
<1>11. \A s \in Tokens : Free(s)' >= Free(s) + InToken(s, t, pledge)
  BY <1>2, <1>3, <1>5, <1>8, <1>9, <1>10, VaultMoves DEF old
<1>12. /\ Total(MadePledges(ById(<<loan>>))) = pledge
       /\ \A id \in DOMAIN ById(<<loan>>) : ById(<<loan>>)[id] = loan
  <2>1. /\ Numbered(<<loan>>, 1) /\ loan.principal \in Nat
        /\ loan.collateral_amount \in Nat /\ loan.collateral_amount = pledge
    BY <1>1, <1>3 DEF NewLoans, MadeFor, amount, pledge
  <2> QED BY <2>1, OnePledge
<1>13. Total(ClosedPledges({})) = 0
  BY TotalOfNothing DEF ClosedPledges
<1>14. OfToken(t, {}, ById(<<loan>>))
  BY <1>1, <1>12 DEF OfToken
<1>15. Total(MadePledges(ById(<<loan>>))) <= Total(ClosedPledges({})) + pledge
  BY <1>3, <1>12, <1>13
<1> QED BY <1>1, <1>8, <1>10, <1>11, <1>14, <1>15, NewLoansBacked

(* The new terms keep the collateral. *)
LEMMA RefinanceBacked ==
  ASSUME PoolsSound, LoanBook, VaultTyped, NEW u \in Account, NEW days \in Nat,
         RefinanceLoan(u, days)
  PROVE  BackedCall
<1> DEFINE old == Primary(u)
           a == old.asset
           c == old.collateral_token
           id == old.loan_id
           fee == BasisPoints(OutstandingBalance(old), REFINANCING_FEE_BPS)
           m == 0
<1>1. PICK loan : /\ HasLoan(u) /\ NewLoans(u, {id}, <<loan>>, 1)
                  /\ loan.collateral_token = c /\ loan.collateral_amount = old.collateral_amount
  BY RefinanceMakes
<1>2. PayFee(u, a, fee) /\ UNCHANGED insurance
  BY DEF RefinanceLoan
<1>3. /\ a \in DOMAIN pools /\ old \in LoanRecord /\ old.collateral_amount \in Nat
      /\ loan_by_id[id] = old
  BY <1>1, PrimaryTyped, PrimaryListed DEF Served
<1>4. fee \in Nat
  <2>1. clock \in Nat
    BY BookTyped
  <2> HIDE DEF old
  <2>2. OutstandingBalance(old) \in Nat
    BY <1>3, <2>1, LoanAmounts
  <2> QED BY <2>2, FeeTyped
<1> HIDE DEF old, a, id, fee, c
<1>5. VaultTyped' /\ \A t \in Tokens : Free(t)' >= Free(t)
  BY <1>2, <1>3, <1>4, FeeBooked
<1>6. Numbered(<<loan>>, 1) /\ loan.principal \in Nat
  <2>1. MadeFor(u, <<loan>>, 1)
    BY <1>1 DEF NewLoans
  <2>2. <<loan>>[1] \in LoanRecord /\ <<loan>>[1] = loan
    BY <2>1 DEF MadeFor
  <2> QED BY <2>1, <2>2 DEF MadeFor, LoanRecord
<1>7. /\ Total(MadePledges(ById(<<loan>>))) = old.collateral_amount
      /\ \A k \in DOMAIN ById(<<loan>>) : ById(<<loan>>)[k] = loan
  BY <1>1, <1>3, <1>6, OnePledge
<1>8. Total(ClosedPledges({id})) = old.collateral_amount
  BY <1>3, ClosedPledge
<1>9. OfToken(c, {id}, ById(<<loan>>))
  BY <1>1, <1>3, <1>7 DEF OfToken, c
<1>10. m \in Int /\ Total(MadePledges(ById(<<loan>>))) <= Total(ClosedPledges({id})) + m
  BY <1>3, <1>7, <1>8
<1>11. \A t \in Tokens : Free(t)' >= Free(t) + InToken(t, c, m)
  BY <1>5, FreeSame DEF PoolsSound
<1> HIDE DEF m
<1> QED BY <1>1, <1>5, <1>9, <1>10, <1>11, NewLoansBacked

(* Ids that are as many as the list that gives them are given once. *)
LEMMA DistinctIds ==
  ASSUME NEW ids, ids \in Seq(Nat), ~(Cardinality(Gathered(ids)) < Len(ids))
  PROVE  \A i \in DOMAIN ids, j \in DOMAIN ids : ids[i] = ids[j] => i = j
<1> DEFINE S == DOMAIN ids
           T == Gathered(ids)
           n == Len(ids)
<1>1. n \in Nat /\ S = 1..n
  OBVIOUS
<1>2. IsFiniteSet(S) /\ Cardinality(S) = n
  <2> HIDE DEF n, S
  <2>1. 1 \in Int /\ n \in Int
    BY <1>1
  <2>2. IsFiniteSet(1..n) /\ Cardinality(1..n) = IF 1 > n THEN 0 ELSE n - 1 + 1
    BY <2>1, FS_Interval
  <2>3. (IF 1 > n THEN 0 ELSE n - 1 + 1) = n
    BY <1>1
  <2> QED BY <1>1, <2>2, <2>3
<1>3. ids \in Surjection(S, T)
  <2>1. ids = [i \in S |-> ids[i]]
    OBVIOUS
  <2>2. \A i \in S : ids[i] \in T
    BY DEF Gathered
  <2>3. \A t \in T : \E i \in S : ids[i] = t
    BY DEF Gathered
  <2> HIDE DEF S, T
  <2>4. ids \in [S -> T]
    BY <2>1, <2>2
  <2> QED BY <2>3, <2>4 DEF Surjection
<1> HIDE DEF S, T
<1>4. /\ IsFiniteSet(T) /\ Cardinality(T) <= Cardinality(S)
      /\ Cardinality(T) = Cardinality(S) <=> ids \in Injection(S, T)
  BY <1>2, <1>3, FS_Surjection
<1>5. Cardinality(T) \in Nat
  BY <1>4, FS_CardinalityType
<1>6. ~(Cardinality(T) < n)
  BY DEF T
<1> HIDE DEF n
<1>7. Cardinality(T) = Cardinality(S)
  BY <1>1, <1>2, <1>4, <1>5, <1>6
<1>8. ids \in Injection(S, T)
  BY <1>4, <1>7
<1> QED BY <1>8 DEF Injection, IsInjective, S

(* Loans put together keep the collateral of each of them. *)
LEMMA ConsolidateBacked ==
  ASSUME PoolsSound, LoanBook, VaultTyped, NEW u \in Account, NEW ids \in Seq(Nat),
         NEW days \in Nat, ConsolidateLoans(u, ids, days)
  PROVE  VaultTyped' /\ (Cardinality(Gathered(ids)) < Len(ids) \/ BackedCall)
<1>1. PICK loan : MadeOfLoans(u, ids, loan)
  BY ConsolidateMakes
<1> DEFINE closed == Gathered(ids)
           debts == DebtsGathered(ids)
           kept == PledgesGathered(ids)
           a == loan_by_id[ids[1]].asset
           c == loan.collateral_token
           fee == BasisPoints(Total(debts), REFINANCING_FEE_BPS)
           back == ClosedPledges(closed)
           m == 0
<1>2. /\ NewLoans(u, closed, <<loan>>, 1)
      /\ \A id \in closed : loan_by_id[id].collateral_token = c
      /\ Total(debts) \in Nat /\ loan.principal \in Nat
      /\ loan.collateral_amount = Total(kept)
  BY <1>1 DEF MadeOfLoans
<1>3. PayFee(u, a, fee) /\ UNCHANGED insurance
  BY DEF ConsolidateLoans, DebtsGathered
<1>4. 1 \in DOMAIN ids /\ \A i \in DOMAIN ids : ids[i] \in DOMAIN loan_by_id
  <2>1. Len(ids) >= 1 /\ \A i \in DOMAIN ids : ids[i] \in DOMAIN loan_by_id
    BY DEF ConsolidateLoans
  <2> QED BY <2>1
<1>5. IsMap(loan_by_id, Nat, LoanRecord) /\ PoolsTyped
  BY BookTyped
<1>6. a \in DOMAIN pools
  BY <1>4 DEF PoolsSound, LoansTyped, Served
<1>7. VaultTyped' /\ \A t \in Tokens : Free(t)' >= Free(t)
  <2>1. fee \in Nat
    <3> HIDE DEF debts
    <3> QED BY <1>2, FeeTyped
  <2> HIDE DEF a, fee
  <2> QED BY <1>3, <1>6, <2>1, FeeBooked
<1>8. \A i \in DOMAIN ids : loan_by_id[ids[i]].collateral_amount \in Nat
  BY <1>4, <1>5 DEF IsMap, LoanRecord
<1>9. /\ DOMAIN kept = DOMAIN ids /\ IsFiniteSet(DOMAIN ids)
      /\ \A i \in DOMAIN ids : /\ kept[i] \in Nat
                               /\ kept[i] = loan_by_id[ids[i]].collateral_amount
  <2>1. IsFiniteSet(DOMAIN ids)
    BY RowsAreFinite DEF IsSeq
  <2> QED BY <1>8, <2>1 DEF PledgesGathered
<1>10. /\ DOMAIN back = closed /\ IsFiniteSet(closed)
       /\ \A id \in closed : /\ back[id] \in Nat
                             /\ back[id] = loan_by_id[id].collateral_amount
  <2>1. closed \subseteq DOMAIN loan_by_id /\ IsFiniteSet(DOMAIN loan_by_id)
    BY <1>4, <1>5, DebtsTyped, BookTyped DEF Gathered
  <2>2. \A id \in closed : loan_by_id[id].collateral_amount \in Nat
    BY <1>8 DEF Gathered
  <2> QED BY <2>1, <2>2, FS_Subset DEF ClosedPledges
<1>11. loan.collateral_amount \in Nat
  <2>1. MadeFor(u, <<loan>>, 1)
    BY <1>2 DEF NewLoans
  <2>2. <<loan>>[1] \in LoanRecord /\ <<loan>>[1] = loan
    BY <2>1 DEF MadeFor
  <2> QED BY <2>2 DEF LoanRecord
<1>12. ASSUME ~(Cardinality(closed) < Len(ids)) PROVE BackedCall
  <2> DEFINE h == [id \in closed |-> CHOOSE i \in DOMAIN ids : ids[i] = id]
  <2>1. \A i \in DOMAIN ids, j \in DOMAIN ids : ids[i] = ids[j] => i = j
    BY <1>12, DistinctIds
  <2>2. ASSUME NEW i \in DOMAIN ids
        PROVE  \E id \in closed : h[id] = i /\ kept[i] <= back[id]
    <3>1. ids[i] \in closed
      BY DEF Gathered
    <3>2. h[ids[i]] = i
      BY <2>1, <3>1
    <3>3. kept[i] <= back[ids[i]]
      <4> HIDE DEF kept, back
      <4> QED BY <1>9, <1>10, <3>1
    <3> HIDE DEF h, kept, back, closed
    <3> QED BY <3>1, <3>2, <3>3
  <2> HIDE DEF h, kept, back
  <2>3. Total(kept) <= Total(back) /\ Total(kept) \in Nat /\ Total(back) \in Nat
    BY <1>9, <1>10, <2>2, ImageTotal
  <2>4. /\ Total(MadePledges(ById(<<loan>>))) = loan.collateral_amount
        /\ \A k \in DOMAIN ById(<<loan>>) : ById(<<loan>>)[k] = loan
    <3>1. Numbered(<<loan>>, 1)
      BY <1>2 DEF NewLoans, MadeFor
    <3> QED BY <1>2, <1>11, <3>1, OnePledge
  <2>5. OfToken(c, closed, ById(<<loan>>))
    BY <1>2, <2>4 DEF OfToken
  <2>6. m \in Int /\ Total(MadePledges(ById(<<loan>>))) <= Total(back) + m
    BY <1>2, <2>3, <2>4
  <2>7. \A t \in Tokens : Free(t)' >= Free(t) + InToken(t, c, m)
    BY <1>5, <1>7, FreeSame
  <2> HIDE DEF m, c, closed
  <2> QED BY <1>2, <1>7, <2>5, <2>6, <2>7, NewLoansBacked DEF back
<1> QED BY <1>7, <1>12

(* A part of the collateral is to the whole at most what the part of the   *)
(* debt is to the debt.                                                    *)
LEMMA PartBelow ==
  ASSUME NEW loan \in LoanRecord, NEW part, part \in Nat, NEW out, out \in Nat
  PROVE  Scaled(out, SplitCollateral(loan, part, out), loan.collateral_amount, part)
<1> DEFINE C == loan.collateral_amount
           r == (part * 10000) \div out
           s == BasisPoints(C, r)
<1>1. C \in Nat
  BY DEF LoanRecord
<1> HIDE DEF C
<1>2. CASE out = 0
  <2>1. SplitCollateral(loan, part, out) = 0
    BY <1>2 DEF SplitCollateral
  <2>2. 0 * 0 <= C * part
    BY <1>1
  <2> QED BY <1>2, <2>1, <2>2 DEF Scaled, C
<1>3. CASE out # 0
  <2>1. r \in Nat /\ out * r <= part * 10000
    BY <1>3, QuotientBelow
  <2> HIDE DEF r
  <2>2. s \in Nat /\ 10000 * s <= C * r
    BY <1>1, <2>1, QuotientBelow DEF BasisPoints
  <2> HIDE DEF s
  <2>3. out * (10000 * s) <= out * (C * r)
    BY <1>1, <2>1, <2>2
  <2>4. C * (out * r) <= C * (part * 10000)
    BY <1>1, <2>1
  <2>5. /\ out * (10000 * s) = 10000 * (out * s)
        /\ out * (C * r) = C * (out * r)
        /\ C * (part * 10000) = 10000 * (C * part)
    BY <1>1, <2>1, <2>2
  <2> DEFINE x == out * s
             y == C * part
  <2>6. x \in Nat /\ y \in Nat
    BY <1>1, <2>2
  <2>7. 10000 * x <= C * (out * r) /\ C * (out * r) <= 10000 * y /\ C * (out * r) \in Nat
    BY <1>1, <2>1, <2>3, <2>4, <2>5
  <2> DEFINE z == C * (out * r)
  <2> HIDE DEF x, y, z
  <2>8. x <= y
    <3>1. 10000 * x <= z /\ z <= 10000 * y /\ z \in Nat
      BY <2>7 DEF z
    <3> QED BY <2>6, <3>1
  <2>9. SplitCollateral(loan, part, out) = s
    BY <1>3 DEF SplitCollateral, s, r, C
  <2> QED BY <2>8, <2>9 DEF Scaled, x, y, C
<1> QED BY <1>2, <1>3

(* What is in such a proportion to no more than the debt is no more than   *)
(* the collateral.                                                         *)
LEMMA ScaledBelow ==
  ASSUME NEW K, NEW a, NEW M, NEW b,
         K \in Nat /\ a \in Nat /\ M \in Nat /\ b \in Nat, K # 0, b <= K, Scaled(K, a, M, b)
  PROVE  a <= M
<1>1. K * a <= M * b
  BY DEF Scaled
<1>2. M * b <= M * K /\ M * K = K * M
  OBVIOUS
<1>3. K * a <= K * M
  <2>1. K * a \in Nat /\ M * b \in Nat /\ M * K \in Nat
    OBVIOUS
  <2> QED BY <1>1, <1>2, <2>1
<1>4. ASSUME ~(a <= M) PROVE FALSE
  <2>1. a >= M + 1
    BY <1>4
  <2>2. K * a >= K * (M + 1) /\ K * (M + 1) = K * M + K
    BY <2>1
  <2>3. K * M \in Nat /\ K * a \in Nat
    OBVIOUS
  <2> QED BY <1>3, <2>2, <2>3
<1> QED BY <1>4

(* The parts have together no more collateral than the whole.              *)
LEMMA SplitBacked ==
  ASSUME PoolsSound, LoanBook, VaultTyped, NEW u \in Account, NEW parts \in Seq(Nat),
         NEW days \in Nat, SplitLoan(u, parts, days)
  PROVE  BackedCall
<1>1. HasLoan(u) /\ Total(parts) \in Nat
  BY SplitMakes
<1>2. PICK made : MadeOfParts(u, parts, made)
  BY SplitMakes
<1> DEFINE old == Primary(u)
           a == old.asset
           c == old.collateral_token
           C == old.collateral_amount
           id == old.loan_id
           n == Len(parts)
           out == Total(parts)
           fee == BasisPoints(OutstandingBalance(old), REFINANCING_FEE_BPS)
           z == 0
<1>3. /\ NewLoans(u, {id}, made, n) /\ DOMAIN made = DOMAIN parts
      /\ \A i \in DOMAIN parts :
           /\ made[i].principal = parts[i] /\ made[i].collateral_token = c
           /\ made[i].collateral_amount = SplitCollateral(old, parts[i], out)
  BY <1>2 DEF MadeOfParts
<1>4. PayFee(u, a, fee) /\ UNCHANGED insurance
  BY DEF SplitLoan
<1>5. /\ a \in DOMAIN pools /\ loan_by_id[id] = old /\ old \in LoanRecord /\ C \in Nat
  BY <1>1, PrimaryTyped, PrimaryListed DEF Served
<1>6. fee \in Nat
  <2>1. clock \in Nat
    BY BookTyped
  <2> HIDE DEF old
  <2>2. OutstandingBalance(old) \in Nat
    BY <1>5, <2>1, LoanAmounts
  <2> QED BY <2>2, FeeTyped
<1>7. out \in Nat
  BY <1>1
<1> HIDE DEF old, a, id, fee, c, out
<1>8. VaultTyped' /\ \A t \in Tokens : Free(t)' >= Free(t)
  BY <1>4, <1>5, <1>6, FeeBooked
<1> DEFINE recs == ById(made)
           m == next_loan_id
           adds == MadeDebts(recs)
           gets == MadePledges(recs)
<1>9. /\ m \in Nat /\ n \in Nat /\ DOMAIN parts = 1..n /\ Numbered(made, n)
      /\ \A i \in 1..n : parts[i] \in Nat
  BY <1>3 DEF NewLoans, MadeFor, Numbered
<1>10. \A k \in DOMAIN recs : /\ k \in Nat /\ m <= k /\ k < m + n
                              /\ \E i \in 1..n : k = m + i - 1 /\ recs[k] = made[i]
  BY <1>9, IdsMade
<1> HIDE DEF recs, n, m
<1>11. ASSUME NEW k \in DOMAIN recs
       PROVE  /\ k \in Nat /\ m <= k /\ k < m + n /\ recs[k].collateral_token = c
              /\ recs[k].principal \in Nat /\ recs[k].collateral_amount \in Nat
              /\ Scaled(out, recs[k].collateral_amount, C, recs[k].principal)
              /\ \E i \in DOMAIN parts : k = m + i - 1 /\ recs[k].principal = parts[i]
  <2>1. PICK i \in 1..n : k = m + i - 1 /\ recs[k] = made[i]
    BY <1>10
  <2> DEFINE part == parts[i]
  <2>2. /\ recs[k].principal = part /\ part \in Nat /\ recs[k].collateral_token = c
        /\ recs[k].collateral_amount = SplitCollateral(old, part, out) /\ i \in DOMAIN parts
    BY <1>3, <1>9, <2>1
  <2> HIDE DEF part
  <2>3. SplitCollateral(old, part, out) \in Nat
    BY <1>5, <1>7, <2>2, PartTyped
  <2>4. Scaled(out, SplitCollateral(old, part, out), C, part)
    BY <1>5, <1>7, <2>2, PartBelow
  <2> QED BY <1>10, <2>1, <2>2, <2>3, <2>4 DEF part
<1> HIDE DEF C
<1>12. /\ DOMAIN adds = DOMAIN recs /\ DOMAIN gets = DOMAIN recs /\ IsFiniteSet(DOMAIN recs)
       /\ \A k \in DOMAIN recs : /\ adds[k] = recs[k].principal /\ adds[k] \in Nat
                                 /\ gets[k] = recs[k].collateral_amount /\ gets[k] \in Nat
  <2>1. DOMAIN recs \subseteq m..(m + n)
    BY <1>9, <1>11
  <2>2. IsFiniteSet(m..(m + n))
    BY <1>9, FS_Interval
  <2>3. IsFiniteSet(DOMAIN recs)
    BY <2>1, <2>2, FS_Subset
  <2> QED BY <1>11, <2>3 DEF MadeDebts, MadePledges
<1> HIDE DEF adds, gets
<1>13. Total(adds) \in Nat /\ Total(adds) <= out
  <2> DEFINE h == [i \in DOMAIN parts |-> m + i - 1]
  <2>1. IsFiniteSet(DOMAIN parts) /\ \A i \in DOMAIN parts : parts[i] \in Nat
    BY <1>9, FS_Interval
  <2>2. ASSUME NEW k \in DOMAIN adds
        PROVE  \E i \in DOMAIN parts : h[i] = k /\ adds[k] <= parts[i]
    <3>1. PICK i \in DOMAIN parts : k = m + i - 1 /\ recs[k].principal = parts[i]
      BY <1>11, <1>12
    <3>2. h[i] = k
      BY <3>1
    <3>3. adds[k] = parts[i] /\ parts[i] \in Nat
      BY <1>12, <2>1, <3>1
    <3>4. adds[k] <= parts[i]
      BY <3>3
    <3> HIDE DEF h
    <3> QED BY <3>2, <3>4
  <2>3. IsFiniteSet(DOMAIN adds) /\ \A k \in DOMAIN adds : adds[k] \in Nat
    BY <1>12
  <2> HIDE DEF h
  <2> QED BY <2>1, <2>2, <2>3, ImageTotal DEF out
<1>14. Total(gets) \in Nat
  BY <1>12, TotalOfNats
<1>15. Total(gets) <= C
  <2>1. CASE out = 0
    <3>1. \A k \in DOMAIN recs : gets[k] = 0
      <4>1. ASSUME NEW k \in DOMAIN recs PROVE gets[k] = 0
        <5>1. PICK i \in 1..n : recs[k] = made[i]
          BY <1>10
        <5>2. recs[k].collateral_amount = SplitCollateral(old, parts[i], out)
          BY <1>3, <1>9, <5>1 DEF C
        <5> QED BY <1>12, <2>1, <5>2 DEF SplitCollateral
      <4> QED BY <4>1
    <3>2. Total(gets) = 0
      BY <1>12, <3>1, TotalOfZeros
    <3> QED BY <1>5, <3>2
  <2>2. CASE out # 0
    <3>1. \A k \in DOMAIN adds : Scaled(out, gets[k], C, adds[k])
      BY <1>11, <1>12
    <3>2. out \in Nat /\ C \in Nat
      BY <1>5, <1>7
    <3>3. Scaled(out, Total(gets), C, Total(adds))
      <4>1. /\ IsFiniteSet(DOMAIN adds) /\ \A k \in DOMAIN adds : adds[k] \in Nat
            /\ DOMAIN gets = DOMAIN adds /\ \A k \in DOMAIN adds : gets[k] \in Nat
        BY <1>12
      <4> QED BY <3>1, <3>2, <4>1, ScaledTotals
    <3> QED BY <1>13, <1>14, <2>2, <3>2, <3>3, ScaledBelow
  <2> QED BY <2>1, <2>2
<1>16. Total(ClosedPledges({id})) = C
  <2>1. loan_by_id[id].collateral_amount \in Nat /\ loan_by_id[id].collateral_amount = C
    BY <1>5 DEF C
  <2> QED BY <2>1, ClosedPledge
<1>17. OfToken(c, {id}, recs)
  BY <1>5, <1>11 DEF OfToken, c
<1>18. z \in Int /\ Total(MadePledges(recs)) <= Total(ClosedPledges({id})) + z
  <2>1. Total(gets) <= C + 0
    BY <1>5, <1>14, <1>15
  <2> QED BY <1>16, <2>1 DEF gets
<1>19. \A t \in Tokens : Free(t)' >= Free(t) + InToken(t, c, z)
  BY <1>8, FreeSame DEF PoolsSound
<1> HIDE DEF z
<1> QED BY <1>3, <1>8, <1>17, <1>18, <1>19, NewLoansBacked DEF recs

(* An edit of the four amounts gives the books of the four amounts.        *)
LEMMA DebtBooked ==
  ASSUME NEW pool \in PoolState, NEW b, NEW d, NEW y, NEW r, Amounts(b, d, y, r)
  PROVE  PoolBooks(WithDebt(pool, b, d, y, r)) = d - b + y + r
<1> DEFINE F == DOMAIN pool
           p1 == [pool EXCEPT !.total_borrowed = b]
           p2 == [p1 EXCEPT !.total_deposits = d]
           p3 == [p2 EXCEPT !.retained_yield = y]
           p4 == [p3 EXCEPT !.bad_debt_reserve = r]
<1>1. WithDebt(pool, b, d, y, r) = p4
  BY DEF WithDebt
<1>2. {"total_borrowed", "total_deposits", "retained_yield", "bad_debt_reserve"} \subseteq F
  BY DEF PoolState
<1> HIDE DEF F
<1>3. DOMAIN p1 = F /\ p1.total_borrowed = b
  BY <1>2 DEF F
<1> HIDE DEF p1
<1>4. DOMAIN p2 = F /\ p2.total_borrowed = b /\ p2.total_deposits = d
  BY <1>2, <1>3
<1> HIDE DEF p2
<1>5. DOMAIN p3 = F /\ p3.total_borrowed = b /\ p3.total_deposits = d /\ p3.retained_yield = y
  BY <1>2, <1>4
<1> HIDE DEF p3
<1>6. /\ p4.total_borrowed = b /\ p4.total_deposits = d /\ p4.retained_yield = y
      /\ p4.bad_debt_reserve = r
  BY <1>2, <1>5
<1> HIDE DEF p4
<1> QED BY <1>1, <1>6 DEF PoolBooks

(* What a loan costs to pay back. *)
AmountDue(loan) ==
  loan.principal + (OutstandingBalance(loan) - loan.principal) + CalculateLateFee(loan)

(* All of it is booked. *)
LEMMA RepaidBooks ==
  ASSUME PoolsSound, NEW u, HasLoan(u), NEW loan, loan = Primary(u),
         pools[loan.asset].total_borrowed >= loan.principal
  PROVE  /\ AmountDue(loan) \in Nat
         /\ PoolBooks(Repaid(loan)) = PoolBooks(pools[loan.asset]) + AmountDue(loan)
<1> DEFINE a == loan.asset
           owed == loan.principal
           interest == OutstandingBalance(loan) - loan.principal
           fee == CalculateLateFee(loan)
           old == pools[a]
           p == ProtocolShare(interest)
           q == ReserveShare(interest)
           b == old.total_borrowed - owed
           d == old.total_deposits + (interest - p)
           y == old.retained_yield + (p - q) + fee
           r == old.bad_debt_reserve + q
<1>1. old.total_borrowed >= owed /\ Repaid(loan) = PoolAfterRepay(old, loan, interest, fee)
  BY DEF Repaid
<1>2. loan \in LoanRecord /\ Served(a, pools) /\ owed \in Nat
  BY <1>1, PrimaryTyped
<1>3. clock \in Nat /\ PoolsTyped /\ a \in DOMAIN pools
  BY <1>2 DEF PoolsSound, LoansTyped, Served
<1>4. interest \in Nat /\ fee \in Nat
  BY <1>2, <1>3, LoanAmounts, LateFeeTyped
<1>5. old \in PoolState
  BY <1>3, PoolFields
<1>6. /\ old.total_borrowed \in Nat /\ old.total_deposits \in Nat
      /\ old.retained_yield \in Nat /\ old.bad_debt_reserve \in Nat
  <2> HIDE DEF old
  <2> QED BY <1>5, BookedAmounts
<1>7. AmountDue(loan) = owed + interest + fee
  BY DEF AmountDue
<1> HIDE DEF interest, fee
<1>8. Repaid(loan) = WithDebt(old, b, d, y, r)
  <2> HIDE DEF old
  <2> QED BY <1>1, <1>5 DEF PoolAfterRepay, WithDebt, PoolState
<1> HIDE DEF old, owed
<1>9. p \in Nat /\ p <= interest
  BY <1>4, PointsBelow DEF ProtocolShare, PROTOCOL_INTEREST_BPS
<1>10. q \in Nat /\ q <= p
  BY <1>9, PointsBelow DEF ReserveShare, BAD_DEBT_RESERVE_BPS
<1> HIDE DEF p, q
<1>11. b \in Nat /\ d \in Nat /\ y \in Nat /\ r \in Nat
  <2>1. b \in Nat
    BY <1>1, <1>2, <1>6
  <2>2. d \in Nat
    BY <1>4, <1>6, <1>9
  <2>3. y \in Nat /\ r \in Nat
    BY <1>4, <1>6, <1>9, <1>10
  <2> QED BY <2>1, <2>2, <2>3
<1>12. d - b + y + r = PoolBooks(old) + (owed + interest + fee)
  <2>1. PoolBooks(old) = old.total_deposits - old.total_borrowed + old.retained_yield
                           + old.bad_debt_reserve
    BY DEF PoolBooks
  <2>2. d - b + y + r =
          old.total_deposits - old.total_borrowed + old.retained_yield
            + old.bad_debt_reserve + (owed + interest + fee)
    BY <1>2, <1>4, <1>6, <1>9, <1>10
  <2> QED BY <2>1, <2>2
<1> HIDE DEF b, d, y, r
<1>13. Amounts(b, d, y, r)
  BY <1>11 DEF Amounts
<1>14. PoolBooks(Repaid(loan)) = d - b + y + r
  BY <1>5, <1>8, <1>13, DebtBooked
<1>15. owed + interest + fee \in Nat
  BY <1>2, <1>4
<1> QED BY <1>7, <1>12, <1>14, <1>15 DEF old

(* A loan paid back is booked, and its collateral given back.              *)
LEMMA RepayBacked ==
  ASSUME PoolsSound, LoanBook, VaultTyped, NEW u, Repay(u)
  PROVE  BackedCall
<1> DEFINE loan == Primary(u)
           a == loan.asset
           id == loan.loan_id
           c == loan.collateral_token
           pledge == loan.collateral_amount
           total == AmountDue(loan)
           pool == Repaid(loan)
           recs == ById(<< >>)
           paid == Pay(wallet, a, u, Vault, total)
           m == 0 - pledge
<1>1. /\ HasLoan(u) /\ pools[a].total_borrowed >= loan.principal /\ SetPool(a, pool)
      /\ loans' = Drop(loans, u) /\ Replace(u, {id}, << >>) /\ UNCHANGED next_loan_id
      /\ CanPay(u, a, total) /\ paid[c][Vault] >= pledge
      /\ wallet' = Pay(paid, c, Vault, u, pledge) /\ UNCHANGED insurance
  BY DEF Repay, Repaid, AmountDue
<1>2. /\ a \in DOMAIN pools /\ loan_by_id[id] = loan /\ OwnLoans(u, {id})
      /\ PoolsTyped /\ next_loan_id \in Nat /\ u \in Account /\ loan \in LoanRecord
  BY <1>1, PrimaryTyped, PrimaryListed, BookTyped DEF Served
<1>3. a \in Tokens /\ c \in Tokens /\ pledge \in Nat
  BY <1>2, LoanTokens
<1>4. total \in Nat /\ PoolBooks(pool) = PoolBooks(pools[a]) + total
  BY <1>1, RepaidBooks
<1> HIDE DEF loan, pool, recs, total, paid, pledge, a, c, id
<1>5. wallet \in [Tokens -> Balances] /\ wallet[a][u] >= total
  BY <1>1 DEF VaultTyped, CanPay
<1>6. /\ paid \in [Tokens -> Balances]
      /\ \A s \in Tokens : paid[s][Vault] = wallet[s][Vault] + InToken(s, a, total)
  BY <1>2, <1>3, <1>4, <1>5, PaidIn DEF paid
<1>7. /\ wallet' \in [Tokens -> Balances]
      /\ \A s \in Tokens : wallet'[s][Vault] = paid[s][Vault] - InToken(s, c, pledge)
  BY <1>1, <1>2, <1>3, <1>6, PaidOut
<1>8. VaultTyped'
  BY <1>1, <1>7 DEF VaultTyped
<1>9. ASSUME NEW s \in Tokens
      PROVE  wallet'[s][Vault] >= wallet[s][Vault] + InToken(s, a, total) + InToken(s, c, m)
  <2> DEFINE w == wallet[s][Vault]
             k == InToken(s, a, total)
             g == InToken(s, c, pledge)
  <2>1. w \in Nat /\ k \in Int /\ g \in Int
    BY <1>2, <1>3, <1>4, FreeTyped DEF InToken
  <2>2. paid[s][Vault] = w + k /\ wallet'[s][Vault] = paid[s][Vault] - g
    BY <1>6, <1>7
  <2>3. InToken(s, c, m) = 0 - g
    BY <1>3 DEF InToken
  <2> HIDE DEF w, k, g, m
  <2>4. wallet'[s][Vault] = w + k - g
    BY <2>1, <2>2
  <2>5. w + k - g >= w + k + (0 - g)
    BY <2>1
  <2> QED BY <2>3, <2>4, <2>5 DEF w, k
<1>10. total \in Int /\ m \in Int
  BY <1>3, <1>4
<1> HIDE DEF m
<1>11. \A t \in Tokens : Free(t)' >= Free(t) + InToken(t, c, m)
  BY <1>1, <1>2, <1>4, <1>8, <1>9, <1>10, VaultMoves
<1>12. Turnover(u, {id}, recs) /\ DOMAIN recs = {}
  BY <1>1, <1>2, LoanTurned DEF recs
<1>13. Total(ClosedPledges({id})) = pledge
  <2>1. loan_by_id[id].collateral_amount = pledge
    BY <1>2 DEF pledge
  <2> QED BY <1>3, <2>1, ClosedPledge
<1>14. Total(MadePledges(recs)) = 0
  BY <1>12, TotalOfNothing DEF MadePledges
<1>15. OfToken(c, {id}, recs)
  BY <1>2, <1>12 DEF OfToken, c
<1>16. Total(MadePledges(recs)) <= Total(ClosedPledges({id})) + m
  BY <1>3, <1>13, <1>14 DEF m
<1>17. BackingTurns(u, {id}, recs, c, m)
  BY <1>8, <1>10, <1>11, <1>12, <1>15, <1>16 DEF BackingTurns
<1> QED BY <1>17 DEF BackedCall

(* A liquidation pays in and pays out. *)
LEMMA LiquidationBacked ==
  ASSUME PoolsSound, VaultTyped, LiquidateNext
  PROVE  VaultTyped' /\ DoubleBooking
<1>1. PICK u \in Account, liquidator \in Account, amount \in LiquidationAmount :
        LendingLiquidate(liquidator, u, amount)
  BY DEF LiquidateNext
<1> DEFINE loan == Primary(u)
           a == loan.asset
           c == loan.collateral_token
           seized == CollateralToSeize(amount)
           paid == Pay(wallet, a, liquidator, Vault, amount)
<1>2. /\ HasLoan(u) /\ CanPay(liquidator, a, amount) /\ paid[c][Vault] >= seized
      /\ wallet' = Pay(paid, c, Vault, liquidator, seized) /\ UNCHANGED insurance
  BY <1>1 DEF LendingLiquidate
<1>3. a \in Tokens /\ c \in Tokens /\ amount \in Nat
  BY <1>2, PrimaryTyped, LoanTokens, LendingArguments
<1>4. seized \in Nat
  BY <1>3, PointsBelow DEF CollateralToSeize, LIQUIDATION_THRESHOLD_BPS
<1> HIDE DEF a, c, seized, paid
<1>5. wallet \in [Tokens -> Balances] /\ wallet[a][liquidator] >= amount
  BY <1>2 DEF VaultTyped, CanPay
<1>6. paid \in [Tokens -> Balances]
  BY <1>3, <1>5, PaidIn DEF paid
<1>7. wallet' \in [Tokens -> Balances]
  BY <1>2, <1>3, <1>4, <1>6, PaidOut
<1>8. VaultTyped'
  BY <1>2, <1>7 DEF VaultTyped
<1>9. DoubleBooking
  BY <1>1 DEF DoubleBooking
<1> QED BY <1>8, <1>9

(* Whatever borrowers do. *)
LEMMA BorrowersBacked ==
  ASSUME PoolsSound, LoanBook, VaultTyped, BorrowNext \/ RefinanceNext
  PROVE  (VaultTyped' /\ DoubleBooking) \/ BackedCall
<1>1. ASSUME NEW u \in Account, NEW a \in Tokens, NEW request \in LoanRequest,
             NEW t \in CollateralToken, NEW days \in LoanDays,
             Borrow(u, a, request.amount, t, request.collateral, days)
      PROVE  BackedCall
  BY <1>1, BorrowBacked
<1>2. ASSUME NEW u, Repay(u) PROVE BackedCall
  BY <1>2, RepayBacked
<1>3. LoanDays \subseteq Nat /\ LoanIds \subseteq Seq(Nat) /\ SplitParts \subseteq Seq(Nat)
  BY LendingArguments
<1>4. ASSUME NEW u \in Account, NEW days \in Nat, RefinanceLoan(u, days) PROVE BackedCall
  BY <1>4, RefinanceBacked
<1>5. ASSUME NEW u \in Account, NEW days \in LoanDays, NEW ids \in LoanIds,
             ConsolidateLoans(u, ids, days)
      PROVE  (VaultTyped' /\ DoubleBooking) \/ BackedCall
  <2>1. days \in Nat /\ ids \in Seq(Nat)
    BY <1>3
  <2>2. VaultTyped' /\ (Cardinality(Gathered(ids)) < Len(ids) \/ BackedCall)
    BY <1>5, <2>1, ConsolidateBacked
  <2>3. Cardinality(Gathered(ids)) < Len(ids) => DoubleBooking
    BY <1>5 DEF DoubleBooking, Gathered
  <2> QED BY <2>2, <2>3
<1>6. ASSUME NEW u \in Account, NEW days \in Nat, NEW parts \in Seq(Nat),
             SplitLoan(u, parts, days)
      PROVE  BackedCall
  BY <1>6, SplitBacked
<1>7. CASE BorrowNext
  BY <1>1, <1>2, <1>7 DEF BorrowNext
<1>8. CASE RefinanceNext
  <2>1. PICK u \in Account, days \in LoanDays :
          \/ RefinanceLoan(u, days)
          \/ \E ids \in LoanIds : ConsolidateLoans(u, ids, days)
          \/ \E parts \in SplitParts : SplitLoan(u, parts, days)
    BY <1>8 DEF RefinanceNext
  <2> QED BY <1>3, <1>4, <1>5, <1>6, <2>1
<1> QED BY <1>7, <1>8

(* Every call but the two that book more than they leave is backed.        *)
LEMMA EveryBacked ==
  ASSUME PoolsSound, LoanBook, VaultTyped, [LendingNext]_<<clock, lendingVars>>
  PROVE  /\ VaultTyped'
         /\ DoubleBooking \/ \A t \in Tokens : Slack(t)' >= Slack(t)
<1>1. (VaultTyped' /\ DoubleBooking) \/ BackedCall
  <2>1. CASE BorrowNext \/ RefinanceNext
    BY <2>1, BorrowersBacked
  <2>2. CASE ShareNext \/ YieldNext
    BY <2>2, SharesBacked, YieldBacked DEF BackedCall
  <2>3. CASE LiquidateNext
    BY <2>3, LiquidationBacked
  <2>4. CASE AdminNext \/ FeeNext
    BY <2>4, AdminBacked, FeeBacked DEF BackedCall
  <2>5. CASE Aside
    BY <2>5, AsideBacked DEF BackedCall
  <2> QED BY <2>1, <2>2, <2>3, <2>4, <2>5 DEF LendingNext, Aside
<1>2. PoolsTyped'
  BY LendingStep DEF StepKeeps, PoolsSound
<1>3. CASE BackedCall
  BY <1>2, <1>3, CallIsBacked
<1> QED BY <1>1, <1>3

(* The vault starts empty, and the accounts with what they have.           *)
LEMMA VaultStarts == LendingStart => VaultTyped
<1> SUFFICES ASSUME LendingStart PROVE VaultTyped
  OBVIOUS
<1> DEFINE held(t) == [a \in Account \cup {Vault} |-> IF a = Vault THEN 0 ELSE Funds[t][a]]
<1>1. insurance = 0 /\ wallet = [t \in Tokens |-> held(t)]
  BY DEF LendingStart, LendingInit
<1>2. ASSUME NEW t \in Tokens PROVE held(t) \in Balances
  <2>1. \A a \in Account : Funds[t][a] \in Nat
    BY LendingAssumption
  <2> QED BY <2>1 DEF Balances
<1> HIDE DEF held
<1> QED BY <1>1, <1>2 DEF VaultTyped

(* What the books promise of a token never grows by more than the vault    *)
(* gains of it, for any amounts, parts, rates and order of the calls, but  *)
(* in the two calls that are known to count the same tokens twice.         *)
THEOREM BooksStayBacked == LendingSpec => BooksAreBacked
<1> DEFINE Books == PoolsSound /\ LoanBook /\ VaultTyped
<1>1. LendingStart => Books
  BY LendingStarts, BookStarts, VaultStarts
<1>2. Books /\ [LendingNext]_<<clock, lendingVars>>
        => Books' /\ (DoubleBooking \/ \A t \in Tokens : Slack(t)' >= Slack(t))
  <2> SUFFICES ASSUME Books, [LendingNext]_<<clock, lendingVars>>
               PROVE  Books' /\ (DoubleBooking \/ \A t \in Tokens : Slack(t)' >= Slack(t))
    OBVIOUS
  <2>1. PoolsSound'
    BY LendingStep DEF StepKeeps
  <2>2. LoanBook'
    BY EveryCall, CallKeepsBook
  <2> QED BY <2>1, <2>2, EveryBacked
<1> HIDE DEF Books
<1> QED BY <1>1, <1>2, PTL DEF LendingSpec, BooksAreBacked

-----------------------------------------------------------------------------
(* Lending: the types. *)

(* What the admin sets.                                                    *)
AdminTyped ==
  /\ lending_roles \subseteq Account \X Role
  /\ lending_paused \in BOOLEAN /\ nft_token \in BOOLEAN
  /\ whitelist \subseteq Tokens
  /\ premium_rate \in Nat

(* A call of no admin leaves the settings alone.                           *)
LEMMA AdminUnmoved ==
  ASSUME AdminTyped, UNCHANGED lendingAdminVars
  PROVE  AdminTyped'
BY DEF AdminTyped, lendingAdminVars

(* Settings are set to what they may be.                                   *)
LEMMA AdminKeeps ==
  ASSUME AdminTyped, AdminNext
  PROVE  AdminTyped'
<1>1. PICK u \in Account :
        \/ \E a \in NewAsset : AddAssetPool(u, a)
        \/ \E account \in Account, role \in RoleGrant, granted \in BOOLEAN :
             SetLendingRole(u, account, role, granted)
        \/ \E value \in BOOLEAN : SetLendingPaused(u, value)
        \/ \E a \in Tokens, s \in PoolSetting : SetPoolField(u, a, s.field, s.value)
        \/ SetNftToken(u)
        \/ \E t \in CollateralToken, listed \in BOOLEAN : SetCollateral(u, t, listed)
  BY DEF AdminNext
<1>2. RoleGrant \subseteq Role /\ CollateralToken \subseteq Tokens
  BY LendingArguments
<1>3. ASSUME NEW a, AddAssetPool(u, a) PROVE AdminTyped'
  <2>1. <<u, "Admin">> \in Account \X Role /\ DEFAULT_PREMIUM_RATE_BPS \in Nat
    BY DEF Role, DEFAULT_PREMIUM_RATE_BPS
  <2>2. /\ lending_roles' = lending_roles \cup {<<u, "Admin">>}
        /\ premium_rate' = DEFAULT_PREMIUM_RATE_BPS
        /\ UNCHANGED <<lending_paused, nft_token, whitelist>>
    BY <1>3 DEF AddAssetPool
  <2> QED BY <2>1, <2>2 DEF AdminTyped
<1>4. ASSUME NEW account \in Account, NEW role \in RoleGrant, NEW granted,
             SetLendingRole(u, account, role, granted)
      PROVE  AdminTyped'
  <2>1. <<account, role>> \in Account \X Role
    BY <1>2
  <2>2. /\ lending_roles' \subseteq lending_roles \cup {<<account, role>>}
        /\ UNCHANGED <<lending_paused, nft_token, whitelist, premium_rate>>
    BY <1>4 DEF SetLendingRole, WithRole
  <2> QED BY <2>1, <2>2 DEF AdminTyped
<1>5. ASSUME NEW value \in BOOLEAN, SetLendingPaused(u, value) PROVE AdminTyped'
  BY <1>5 DEF SetLendingPaused, AdminTyped
<1>6. ASSUME NEW a, NEW field, NEW value, SetPoolField(u, a, field, value) PROVE AdminTyped'
  BY <1>6, AdminUnmoved DEF SetPoolField
<1>7. ASSUME SetNftToken(u) PROVE AdminTyped'
  BY <1>7 DEF SetNftToken, AdminTyped
<1>8. ASSUME NEW t \in CollateralToken, NEW listed, SetCollateral(u, t, listed) PROVE AdminTyped'
  <2>1. /\ whitelist' \subseteq whitelist \cup {t} /\ t \in Tokens
        /\ UNCHANGED <<lending_roles, lending_paused, nft_token, premium_rate>>
    BY <1>2, <1>8 DEF SetCollateral
  <2> QED BY <2>1 DEF AdminTyped
<1> QED BY <1>1, <1>3, <1>4, <1>5, <1>6, <1>7, <1>8

(* So are the fees and rates.                                              *)
LEMMA FeesKeep ==
  ASSUME AdminTyped, FeeNext
  PROVE  AdminTyped'
<1>1. PICK u \in Account :
        \/ \E bps \in FeeBps :
             \/ SetFlashLoanFee(u, bps) \/ SetInsurancePremiumRate(u, bps)
             \/ \E a \in Tokens : SetReserveFactor(u, a, bps)
        \/ \E amount \in InsuranceAmount :
             DepositToInsuranceFund(u, amount) \/ WithdrawFromInsuranceFund(u, amount)
        \/ \E model \in CurveModel : SetRateModel(u, model)
  BY DEF FeeNext
<1>2. FeeBps \subseteq Nat
  BY LendingArguments
<1>3. ASSUME NEW bps, SetFlashLoanFee(u, bps) PROVE AdminTyped'
  BY <1>3 DEF SetFlashLoanFee, AdminTyped
<1>4. ASSUME NEW bps \in FeeBps, SetInsurancePremiumRate(u, bps) PROVE AdminTyped'
  BY <1>2, <1>4 DEF SetInsurancePremiumRate, AdminTyped
<1>5. ASSUME NEW a, NEW bps, SetReserveFactor(u, a, bps) PROVE AdminTyped'
  BY <1>5, AdminUnmoved DEF SetReserveFactor
<1>6. ASSUME NEW amount, DepositToInsuranceFund(u, amount) PROVE AdminTyped'
  BY <1>6, AdminUnmoved DEF DepositToInsuranceFund
<1>7. ASSUME NEW amount, WithdrawFromInsuranceFund(u, amount) PROVE AdminTyped'
  BY <1>7, AdminUnmoved DEF WithdrawFromInsuranceFund
<1>8. ASSUME NEW model, SetRateModel(u, model) PROVE AdminTyped'
  BY <1>8 DEF SetRateModel, AdminTyped
<1> QED BY <1>1, <1>3, <1>4, <1>5, <1>6, <1>7, <1>8

(* The calls of borrowers, depositors and stakers set nothing.             *)
LEMMA OthersSetNothing ==
  ASSUME ShareNext \/ YieldNext \/ BorrowNext \/ LiquidateNext \/ RefinanceNext
           \/ StakingNext \/ NftNext
  PROVE  UNCHANGED lendingAdminVars
<1> DEFINE Same == UNCHANGED lendingAdminVars
<1>1. CASE ShareNext
  <2>1. \A u, a, n : PoolDeposit(u, a, n) => Same
    BY DEF PoolDeposit
  <2>2. \A u, a, n : PoolWithdraw(u, a, n) => Same
    BY DEF PoolWithdraw
  <2> HIDE DEF Same
  <2>3. Same
    BY <1>1, <2>1, <2>2 DEF ShareNext
  <2> QED BY <2>3 DEF Same
<1>2. CASE YieldNext
  <2>1. \A u, a, n : WithdrawPriority(u, a, n) => Same
    BY DEF WithdrawPriority
  <2>2. \A u, a, n, to : PayReserves(u, a, n, to) => Same
    BY DEF PayReserves
  <2>3. \A u, a, n, m : FlashLoan(u, a, n, m) => Same
    BY DEF FlashLoan
  <2> HIDE DEF Same
  <2>4. Same
    BY <1>2, <2>1, <2>2, <2>3 DEF YieldNext
  <2> QED BY <2>4 DEF Same
<1>3. CASE BorrowNext
  <2>1. \A u, a, n, t, c, days : Borrow(u, a, n, t, c, days) => Same
    BY DEF Borrow
  <2>2. \A u : Repay(u) => Same
    BY DEF Repay
  <2> HIDE DEF Same
  <2>3. Same
    BY <1>3, <2>1, <2>2 DEF BorrowNext
  <2> QED BY <2>3 DEF Same
<1>4. CASE LiquidateNext
  BY <1>4 DEF LiquidateNext, LendingLiquidate
<1>5. CASE RefinanceNext
  <2>1. \A u, days : RefinanceLoan(u, days) => Same
    BY DEF RefinanceLoan
  <2>2. \A u, ids, days : ConsolidateLoans(u, ids, days) => Same
    BY DEF ConsolidateLoans
  <2>3. \A u, parts, days : SplitLoan(u, parts, days) => Same
    BY DEF SplitLoan
  <2> HIDE DEF Same
  <2>4. Same
    BY <1>5, <2>1, <2>2, <2>3 DEF RefinanceNext
  <2> QED BY <2>4 DEF Same
<1>6. CASE StakingNext
  <2>1. \A u, a, n : StakeLpTokens(u, a, n) => Same
    BY DEF StakeLpTokens
  <2>2. \A u, a, n : UnstakeLpTokens(u, a, n) => Same
    BY DEF UnstakeLpTokens
  <2>3. \A u, a : ClaimRewards(u, a) => Same
    BY DEF ClaimRewards
  <2>4. \A u, a, n : SetRewardRate(u, a, n) => Same
    BY DEF SetRewardRate
  <2>5. \A a : GetPendingRewards(a) => Same
    BY DEF GetPendingRewards
  <2> HIDE DEF Same
  <2>6. Same
    BY <1>6, <2>1, <2>2, <2>3, <2>4, <2>5 DEF StakingNext
  <2> QED BY <2>6 DEF Same
<1>7. CASE NftNext
  BY <1>7 DEF NftNext
<1> QED BY <1>1, <1>2, <1>3, <1>4, <1>5, <1>6, <1>7

(* The settings keep their types in every step.                            *)
LEMMA EverySetting ==
  ASSUME AdminTyped, [LendingNext]_<<clock, lendingVars>>
  PROVE  AdminTyped'
<1>1. UNCHANGED lendingVars => UNCHANGED lendingAdminVars
  BY DEF lendingVars
<1> QED BY <1>1, AdminUnmoved, AdminKeeps, FeesKeep, OthersSetNothing DEF LendingNext

(* The lists of loans are those of accounts, and ids start above 0.        *)
ListsTyped ==
  /\ user_loans = [u \in DOMAIN user_loans |-> user_loans[u]]
  /\ DOMAIN user_loans \subseteq Account
  /\ next_loan_id # 0

(* What a replacement leaves of the lists.                                 *)
LEMMA ListsReplaced ==
  ASSUME ListsTyped, NEW u \in Account, NEW closed, NEW made, Replace(u, closed, made)
  PROVE  /\ user_loans' = [b \in DOMAIN user_loans' |-> user_loans'[b]]
         /\ DOMAIN user_loans' \subseteq Account
<1> DEFINE left == Without(Stored(user_loans, u, << >>), closed)
           kept == IF left = << >> THEN Drop(user_loans, u) ELSE Put(user_loans, u, left)
           more == Stored(kept, u, << >>) \o IdsOf(made)
<1>1. user_loans' = IF made = << >> THEN kept ELSE Put(kept, u, more)
  BY DEF Replace, WithoutUserLoans, WithUserLoans
<1>2. /\ kept = [b \in DOMAIN kept |-> kept[b]]
      /\ DOMAIN kept \subseteq Account
  <2> HIDE DEF left
  <2>1. CASE left = << >>
    BY <2>1 DEF ListsTyped, Drop
  <2>2. CASE left # << >>
    BY <2>2 DEF ListsTyped, Put
  <2> QED BY <2>1, <2>2
<1> HIDE DEF kept, more
<1>3. CASE made = << >>
  BY <1>1, <1>2, <1>3
<1>4. CASE made # << >>
  BY <1>1, <1>2, <1>4 DEF Put
<1> QED BY <1>3, <1>4

(* Such a call keeps them.                                                 *)
LEMMA CallKeepsLists ==
  ASSUME PoolsSound, ListsTyped, LoanCall
  PROVE  ListsTyped'
<1>1. next_loan_id \in Nat /\ DOMAIN loans \subseteq Account
  BY DEF PoolsSound, LoansTyped, IsMap
<1>2. CASE OnlyNftsMove
  BY <1>2 DEF OnlyNftsMove, LoansStay, ListsTyped
<1>3. ASSUME NEW u, NEW closed, NEW made, NEW n, NewLoans(u, closed, made, n)
      PROVE  ListsTyped'
  <2>1. /\ n \in Nat /\ n # 0 /\ Len(made) = n /\ next_loan_id' = next_loan_id + Len(made)
        /\ Replace(u, closed, made)
        /\ \A i \in 1..n : made[i] \in LoanRecord /\ made[i].borrower = u
    BY <1>3 DEF NewLoans, MadeFor, Numbered, Opened
  <2>2. u \in Account
    <3>1. 1 \in 1..n
      BY <2>1
    <3> QED BY <2>1, <3>1 DEF LoanRecord
  <2>3. next_loan_id' # 0
    BY <1>1, <2>1
  <2> QED BY <2>1, <2>2, <2>3, ListsReplaced DEF ListsTyped
<1>4. ASSUME NEW u, LoanPaid(u) PROVE ListsTyped'
  <2>1. u \in Account /\ next_loan_id' = next_loan_id
    BY <1>1, <1>4 DEF LoanPaid, HasLoan
  <2>2. Replace(u, {Primary(u).loan_id}, << >>)
    BY <1>4 DEF LoanPaid
  <2> QED BY <2>1, <2>2, ListsReplaced DEF ListsTyped
<1> QED BY <1>2, <1>3, <1>4 DEF LoanCall, LoansMade

(* The rewards of pools and the stakes of accounts.                        *)
RewardsTyped ==
  /\ IsMap(reward_pools, Tokens, RewardPool)
  /\ IsMap(stakes, Account \X Tokens, UserStake)

(* The numbers of a reward pool.                                           *)
LEMMA RewardFieldsTyped ==
  ASSUME NEW p
  PROVE  p \in RewardPool =>
           /\ p.total_staked \in Nat /\ p.reward_rate \in Nat /\ p.last_update_time \in Nat
           /\ p.reward_per_token_stored \in Nat /\ p.total_rewards_distributed \in Nat
BY DEF RewardPool

(* What a pool of rewards is, in numbers, before and after it is brought   *)
(* up to date.                                                             *)
LEMMA RewardsUpdated ==
  ASSUME clock \in Nat, RewardsTyped, NEW a
  PROVE  /\ Stored(reward_pools, a, NewRewardPool(clock)) \in RewardPool
         /\ UpdatedRewardPool(a) \in RewardPool
<1> DEFINE pool == Stored(reward_pools, a, NewRewardPool(clock))
           days == SaturatingSub(clock, pool.last_update_time)
           per_token == IF pool.total_staked > 0 THEN days * pool.reward_rate ELSE 0
           stored == pool.reward_per_token_stored + per_token
           given == pool.total_rewards_distributed + per_token * pool.total_staked
           p1 == [pool EXCEPT !.reward_per_token_stored = stored]
           p2 == [p1 EXCEPT !.total_rewards_distributed = given]
           p3 == [p2 EXCEPT !.last_update_time = clock]
<1>1. UpdatedRewardPool(a) = p3
  BY DEF UpdatedRewardPool
<1>2. pool \in RewardPool
  <2>1. NewRewardPool(clock) \in RewardPool
    BY DEF NewRewardPool, RewardPool, DEFAULT_REWARD_RATE
  <2> QED BY <2>1 DEF Stored, RewardsTyped, IsMap
<1> HIDE DEF pool
<1>3. /\ pool.total_staked \in Nat /\ pool.reward_rate \in Nat /\ pool.last_update_time \in Nat
      /\ pool.reward_per_token_stored \in Nat /\ pool.total_rewards_distributed \in Nat
  BY <1>2, RewardFieldsTyped
<1>4. days \in Nat
  BY <1>3 DEF SaturatingSub
<1> HIDE DEF days
<1>5. \A x, y : x \in Nat /\ y \in Nat => x * y \in Nat
  OBVIOUS
<1>6. per_token \in Nat
  BY <1>3, <1>4, <1>5
<1> HIDE DEF per_token
<1>7. per_token * pool.total_staked \in Nat
  BY <1>3, <1>5, <1>6
<1>8. stored \in Nat /\ given \in Nat
  BY <1>3, <1>6, <1>7
<1> HIDE DEF stored, given
<1>9. p1 \in RewardPool
  BY <1>2, <1>8 DEF RewardPool
<1> HIDE DEF p1
<1>10. p2 \in RewardPool
  BY <1>8, <1>9 DEF RewardPool
<1> HIDE DEF p2
<1>11. p3 \in RewardPool
  BY <1>10 DEF RewardPool
<1> HIDE DEF p3
<1> QED BY <1>1, <1>2, <1>11 DEF pool

(* The numbers of a stake.                                                 *)
LEMMA StakeFieldsTyped ==
  ASSUME NEW s
  PROVE  s \in UserStake =>
           /\ s.amount \in Nat /\ s.reward_per_token_paid \in Nat
           /\ s.rewards \in Nat /\ s.stake_time \in Nat
BY DEF UserStake

(* A stake, and what is written of it when it is settled.                  *)
LEMMA StakeSettled ==
  ASSUME clock \in Nat, RewardsTyped, NEW u, NEW a
  PROVE  StakeOf(u, a) \in UserStake /\ SettledStake(u, a) \in UserStake
<1> DEFINE key == <<u, a>>
           old == StakeOf(u, a)
           pool == Stored(reward_pools, a, NewRewardPool(clock))
           paid == pool.reward_per_token_stored
           now == UpdatedRewardPool(a).reward_per_token_stored
           gain == SaturatingSub(now, old.reward_per_token_paid)
           pending == old.rewards + old.amount * gain
           s1 == [old EXCEPT !.reward_per_token_paid = paid]
           s2 == [s1 EXCEPT !.rewards = pending]
<1>1. old \in UserStake
  <2>1. NoStake \in UserStake
    BY DEF NoStake, UserStake
  <2>2. old = Stored(stakes, key, NoStake)
    BY DEF StakeOf
  <2> HIDE DEF old, key
  <2> QED BY <2>1, <2>2 DEF Stored, RewardsTyped, IsMap
<1>2. SettledStake(u, a) = s2
  BY DEF SettledStake, PendingRewards
<1> HIDE DEF old
<1>3. old.amount \in Nat /\ old.reward_per_token_paid \in Nat /\ old.rewards \in Nat
  BY <1>1, StakeFieldsTyped
<1>4. paid \in Nat /\ now \in Nat
  <2>1. pool \in RewardPool /\ UpdatedRewardPool(a) \in RewardPool
    BY RewardsUpdated
  <2> HIDE DEF pool
  <2> QED BY <2>1, RewardFieldsTyped
<1> HIDE DEF paid, now
<1>5. gain \in Nat
  BY <1>3, <1>4 DEF SaturatingSub
<1> HIDE DEF gain
<1>6. old.amount * gain \in Nat
  <2>1. \A x, y : x \in Nat /\ y \in Nat => x * y \in Nat
    OBVIOUS
  <2> QED BY <1>3, <1>5, <2>1
<1>7. pending \in Nat
  BY <1>3, <1>6
<1> HIDE DEF pending
<1>8. s1 \in UserStake
  BY <1>1, <1>4 DEF UserStake
<1> HIDE DEF s1
<1>9. s2 \in UserStake
  BY <1>7, <1>8 DEF UserStake
<1> HIDE DEF s2
<1> QED BY <1>1, <1>2, <1>9 DEF old

(* Both tables are written with rows of their kind.                        *)
LEMMA RewardsRewritten ==
  ASSUME RewardsTyped, NEW u \in Account, NEW a \in Tokens, NEW p \in RewardPool,
         reward_pools' = Put(reward_pools, a, p),
         UNCHANGED stakes \/ \E s \in UserStake : stakes' = Put(stakes, <<u, a>>, s)
  PROVE  RewardsTyped'
<1>1. IsMap(reward_pools', Tokens, RewardPool)
  BY KeyWritten DEF RewardsTyped
<1>2. ASSUME NEW s \in UserStake, stakes' = Put(stakes, <<u, a>>, s)
      PROVE  IsMap(stakes', Account \X Tokens, UserStake)
  <2> DEFINE key == <<u, a>>
  <2>1. key \in Account \X Tokens
    OBVIOUS
  <2>2. stakes' = Put(stakes, key, s)
    BY <1>2
  <2> HIDE DEF key
  <2> QED BY <2>1, <2>2, KeyWritten DEF RewardsTyped
<1>3. IsMap(stakes', Account \X Tokens, UserStake)
  BY <1>2 DEF RewardsTyped
<1> QED BY <1>1, <1>3 DEF RewardsTyped

(* Stakers' calls.                                                         *)
LEMMA StakersTyped ==
  ASSUME clock \in Nat, RewardsTyped, StakingNext
  PROVE  RewardsTyped'
<1>1. PICK a \in Tokens :
        \/ \E u \in Account :
             \/ \E n \in ShareAmount : StakeLpTokens(u, a, n) \/ UnstakeLpTokens(u, a, n)
             \/ ClaimRewards(u, a)
             \/ \E rate \in RewardRate : SetRewardRate(u, a, rate)
        \/ GetPendingRewards(a)
  BY DEF StakingNext
<1> DEFINE pool == UpdatedRewardPool(a)
<1>2. pool \in RewardPool
  BY RewardsUpdated
<1> HIDE DEF pool
<1>3. ShareAmount \subseteq Nat /\ RewardRate \subseteq Nat
  BY LendingArguments
<1>4. LendingAdmin \in Account
  BY LendingAssumption
<1>5. ASSUME NEW u \in Account, NEW n \in ShareAmount, StakeLpTokens(u, a, n)
      PROVE  RewardsTyped'
  <2> DEFINE old == StakeOf(u, a)
             m == old.amount + n
             paid == pool.reward_per_token_stored
             at == IF old.stake_time = 0 THEN clock ELSE old.stake_time
             s == [amount |-> m, reward_per_token_paid |-> paid, rewards |-> 0, stake_time |-> at]
             t == pool.total_staked + n
             p == [pool EXCEPT !.total_staked = t]
  <2>1. stakes' = Put(stakes, <<u, a>>, s) /\ reward_pools' = Put(reward_pools, a, p)
    BY <1>5 DEF StakeLpTokens, pool
  <2>2. old.amount \in Nat /\ old.stake_time \in Nat
    BY StakeSettled, StakeFieldsTyped
  <2>3. paid \in Nat /\ pool.total_staked \in Nat
    BY <1>2, RewardFieldsTyped
  <2> HIDE DEF old, paid
  <2>4. m \in Nat /\ at \in Nat /\ t \in Nat
    BY <1>3, <2>2, <2>3
  <2> HIDE DEF m, at, t
  <2>5. s \in UserStake
    BY <2>3, <2>4 DEF UserStake
  <2>6. p \in RewardPool
    BY <1>2, <2>4 DEF RewardPool
  <2> HIDE DEF s, p
  <2> QED BY <2>1, <2>5, <2>6, RewardsRewritten
<1>6. ASSUME NEW u \in Account, NEW n \in ShareAmount, UnstakeLpTokens(u, a, n)
      PROVE  RewardsTyped'
  <2> DEFINE settled == SettledStake(u, a)
             left == settled.amount - n
             z1 == [settled EXCEPT !.amount = 0]
             z2 == [z1 EXCEPT !.reward_per_token_paid = 0]
             z3 == [z2 EXCEPT !.stake_time = 0]
             s == IF left = 0 THEN z3 ELSE [settled EXCEPT !.amount = left]
             t == SaturatingSub(pool.total_staked, n)
             p == [pool EXCEPT !.total_staked = t]
  <2>1. /\ stakes' = Put(stakes, <<u, a>>, s) /\ reward_pools' = Put(reward_pools, a, p)
        /\ n <= StakeOf(u, a).amount
    BY <1>6 DEF UnstakeLpTokens, pool
  <2>2. settled \in UserStake /\ StakeOf(u, a) \in UserStake
    BY StakeSettled
  <2>3. settled.amount = StakeOf(u, a).amount
    <3> DEFINE old == StakeOf(u, a)
               paid == Stored(reward_pools, a, NewRewardPool(clock)).reward_per_token_stored
               pending == PendingRewards(u, a)
    <3>1. settled = [old EXCEPT !.reward_per_token_paid = paid, !.rewards = pending]
      BY DEF SettledStake
    <3>2. old \in UserStake
      BY <2>2
    <3> HIDE DEF old, paid, pending, settled
    <3>3. settled.amount = old.amount
      BY <3>1, <3>2 DEF UserStake
    <3> QED BY <3>3 DEF old
  <2> HIDE DEF settled
  <2>4. settled.amount \in Nat
    BY <2>2, StakeFieldsTyped
  <2>5. left \in Nat
    BY <1>3, <2>1, <2>3, <2>4
  <2>6. pool.total_staked \in Nat
    BY <1>2, RewardFieldsTyped
  <2>7. t \in Nat
    BY <1>3, <2>6 DEF SaturatingSub
  <2> HIDE DEF left, t
  <2>8. z1 \in UserStake
    BY <2>2 DEF UserStake
  <2> HIDE DEF z1
  <2>9. z2 \in UserStake
    BY <2>8 DEF UserStake
  <2> HIDE DEF z2
  <2>10. z3 \in UserStake
    BY <2>9 DEF UserStake
  <2> HIDE DEF z3
  <2>11. s \in UserStake
    BY <2>2, <2>5, <2>10 DEF UserStake
  <2>12. p \in RewardPool
    BY <1>2, <2>7 DEF RewardPool
  <2> HIDE DEF s, p
  <2> QED BY <2>1, <2>11, <2>12, RewardsRewritten
<1>7. ASSUME NEW u \in Account, ClaimRewards(u, a) PROVE RewardsTyped'
  <2> DEFINE settled == SettledStake(u, a)
             s == [settled EXCEPT !.rewards = 0]
  <2>1. stakes' = Put(stakes, <<u, a>>, s) /\ reward_pools' = Put(reward_pools, a, pool)
    BY <1>7 DEF ClaimRewards, pool
  <2>2. settled \in UserStake
    BY StakeSettled
  <2> HIDE DEF settled
  <2>3. s \in UserStake
    BY <2>2 DEF UserStake
  <2> HIDE DEF s
  <2> QED BY <1>2, <2>1, <2>3, RewardsRewritten
<1>8. ASSUME NEW u \in Account, NEW rate \in RewardRate, SetRewardRate(u, a, rate)
      PROVE  RewardsTyped'
  <2> DEFINE p == [pool EXCEPT !.reward_rate = rate]
  <2>1. reward_pools' = Put(reward_pools, a, p) /\ UNCHANGED stakes
    BY <1>8 DEF SetRewardRate, pool
  <2>2. p \in RewardPool
    BY <1>2, <1>3 DEF RewardPool
  <2> HIDE DEF p
  <2> QED BY <2>1, <2>2, RewardsRewritten
<1>9. ASSUME GetPendingRewards(a) PROVE RewardsTyped'
  <2>1. reward_pools' = Put(reward_pools, a, pool) /\ UNCHANGED stakes
    BY <1>9 DEF GetPendingRewards, pool
  <2> QED BY <1>2, <1>4, <2>1, RewardsRewritten
<1> QED BY <1>1, <1>5, <1>6, <1>7, <1>8, <1>9

(* Every step keeps the rewards and stakes typed.                          *)
LEMMA EveryReward ==
  ASSUME PoolsSound, RewardsTyped, [LendingNext]_<<clock, lendingVars>>
  PROVE  RewardsTyped'
<1>1. clock \in Nat
  BY DEF PoolsSound, LoansTyped
<1>2. ASSUME UNCHANGED stakeVars PROVE RewardsTyped'
  BY <1>2 DEF stakeVars, RewardsTyped
<1>3. CASE ShareNext \/ YieldNext \/ LiquidateNext
  BY <1>2, <1>3, TradesOnward
<1>4. CASE BorrowNext \/ RefinanceNext
  BY <1>2, <1>4, BorrowersOnward
<1>5. CASE StakingNext
  BY <1>1, <1>5, StakersTyped
<1>6. CASE NftNext
  BY <1>2, <1>6 DEF NftNext
<1>7. CASE AdminNext
  <2>1. ASSUME NEW u, NEW a, AddAssetPool(u, a) PROVE RewardsTyped'
    <3>1. NewRewardPool(clock) \in RewardPool
      BY <1>1 DEF NewRewardPool, RewardPool, DEFAULT_REWARD_RATE
    <3>2. reward_pools' = Put(reward_pools, a, NewRewardPool(clock)) /\ UNCHANGED stakes
      BY <2>1 DEF AddAssetPool
    <3>3. a \in Tokens
      <4>1. a \in DOMAIN pools'
        BY <2>1 DEF AddAssetPool, Put
      <4>2. DOMAIN pools' \subseteq Tokens
        BY LendingStep DEF StepKeeps, PoolsSound, PoolsTyped, IsMap
      <4> QED BY <4>1, <4>2
    <3>4. LendingAdmin \in Account
      BY LendingAssumption
    <3> QED BY <3>1, <3>2, <3>3, <3>4, RewardsRewritten
  <2>2. UNCHANGED stakeVars \/ \E u, a : AddAssetPool(u, a)
    BY <1>7, SettingsOnward
  <2> QED BY <1>2, <2>1, <2>2
<1>8. CASE FeeNext
  BY <1>2, <1>8, FeesOnward
<1>9. CASE UNCHANGED lendingVars
  BY <1>2, <1>9 DEF lendingVars
<1> QED BY <1>3, <1>4, <1>5, <1>6, <1>7, <1>8, <1>9 DEF LendingNext

(* At the start everything has its type.                                   *)
LEMMA TypesStart ==
  ASSUME LendingStart
  PROVE  AdminTyped /\ ListsTyped /\ RewardsTyped
<1>1. LendingInit
  BY DEF LendingStart
<1>2. AdminTyped
  <2>1. <<LendingAdmin, "Admin">> \in Account \X Role
    BY LendingAssumption DEF Role
  <2>2. CollateralToken \subseteq Tokens
    BY LendingArguments
  <2>3. lending_paused = FALSE /\ premium_rate \in Nat
    BY <1>1 DEF LendingInit, DEFAULT_PREMIUM_RATE_BPS
  <2>4. lending_roles \subseteq {<<LendingAdmin, "Admin">>}
        /\ whitelist \subseteq CollateralToken /\ nft_token \in BOOLEAN
    BY DEF LendingStart
  <2> QED BY <2>1, <2>2, <2>3, <2>4 DEF AdminTyped
<1>3. ListsTyped
  BY <1>1 DEF LendingInit, EmptyMap, ListsTyped
<1>4. RewardsTyped
  <2>1. clock \in Nat /\ MainToken \in Tokens
    BY <1>1, LendingAssumption DEF LendingInit
  <2>2. NewRewardPool(clock) \in RewardPool
    BY <2>1 DEF NewRewardPool, RewardPool, DEFAULT_REWARD_RATE
  <2>3. IsMap(EmptyMap, Tokens, RewardPool) /\ IsMap(EmptyMap, Account \X Tokens, UserStake)
    BY DEF IsMap, EmptyMap
  <2>4. reward_pools = Put(EmptyMap, MainToken, NewRewardPool(clock)) /\ stakes = EmptyMap
    BY <1>1 DEF LendingInit
  <2> QED BY <2>1, <2>2, <2>3, <2>4, KeyWritten DEF RewardsTyped
<1> QED BY <1>2, <1>3, <1>4

(* The books, their lists and the settings are what is typed.              *)
LEMMA TypesAre ==
  ASSUME PoolsSound, LoanBook, VaultTyped, Rated, AdminTyped, ListsTyped, RewardsTyped
  PROVE  LendingTypeOK
<1>1. IsMap(user_loans, Account, Seq(Nat))
  <2>1. ASSUME NEW u \in DOMAIN user_loans PROVE user_loans[u] \in Seq(Nat)
    <3>1. UserLoans(u) \in ListOf(Nat) /\ UserLoans(u) = user_loans[u]
      BY DEF LoanBook, LoansListed, UserLoans, Stored
    <3> QED BY <3>1 DEF ListOf
  <2> QED BY <2>1 DEF ListsTyped, IsMap
<1>2. /\ clock \in Nat /\ flash_fee \in Nat /\ next_loan_id \in Nat
      /\ IsMap(loans, Account, LoanRecord) /\ IsMap(loan_by_id, Nat, LoanRecord)
  BY DEF PoolsSound, LoansTyped
<1>3. IsMap(pools, Tokens, PoolState) /\ assets \in Seq(Tokens)
  BY DEF PoolsSound, PoolsTyped
<1>4. IsMap(shares, Account \X Tokens, Nat)
  BY DEF PoolsSound, SharesCounted
<1>5. next_loan_id \in Nat \ {0}
  BY <1>2 DEF ListsTyped
<1>6. {insurance, premium_rate, flash_fee} \subseteq Nat
  BY <1>2 DEF VaultTyped, AdminTyped
<1>7. wallet \in [Tokens -> [Account \cup {Vault} -> Nat]]
  BY DEF VaultTyped, Balances
<1>8. rate_model \in RateModel \cup {Absent}
  BY DEF Rated
<1> QED BY <1>1, <1>2, <1>3, <1>4, <1>5, <1>6, <1>7, <1>8
        DEF LendingTypeOK, AdminTyped, RewardsTyped

(* Whatever is called, with any arguments and in any order, the state of   *)
(* the lending contract has its type: no balance, amount, share or counter *)
(* falls below zero, and every row is of its kind.                         *)
THEOREM LendingTypes == LendingSpec => []LendingTypeOK
<1> DEFINE Books == PoolsSound /\ LoanBook /\ VaultTyped /\ StakesCounted
           Typed == Rated /\ AdminTyped /\ ListsTyped /\ RewardsTyped
<1>1. LendingStart => Books /\ Typed
  <2> SUFFICES ASSUME LendingStart PROVE Books /\ Typed
    OBVIOUS
  <2>1. Rated
    BY DEF LendingStart, LendingInit, Rated, Put
  <2> QED BY <2>1, LendingStarts, BookStarts, VaultStarts, StakesStart, TypesStart
<1>2. Books /\ Typed /\ [LendingNext]_<<clock, lendingVars>> => Books' /\ Typed'
  <2> SUFFICES ASSUME Books, Typed, [LendingNext]_<<clock, lendingVars>>
               PROVE  Books' /\ Typed'
    OBVIOUS
  <2>1. PoolsSound'
    BY LendingStep DEF StepKeeps
  <2>2. LoanBook' /\ ListsTyped'
    BY EveryCall, CallKeepsBook, CallKeepsLists
  <2>3. VaultTyped'
    BY EveryBacked
  <2>4. Rated' /\ StakesCounted'
    BY EveryOnward DEF Onward, Rated
  <2>5. AdminTyped' /\ RewardsTyped'
    BY EverySetting, EveryReward
  <2> QED BY <2>1, <2>2, <2>3, <2>4, <2>5
<1>3. Books /\ Typed => LendingTypeOK
  BY TypesAre
<1> HIDE DEF Books, Typed
<1> QED BY <1>1, <1>2, <1>3, PTL DEF LendingSpec
=============================================================================
