--------------------------- MODULE LendingContract ---------------------------
(***************************************************************************)
(* The lending contract with the loan NFT: their calls in any order, and   *)
(* what has to hold of shares, loans, tokens and stakes.                   *)
(***************************************************************************)
EXTENDS LoanOperations, LendingSettings

CONSTANTS
  MaxLoanId,        \* bound: the loan ids given out
  MaxStake,         \* bound: the shares a user stakes
  PoolAmount,       \* the amounts deposited
  ShareAmount,      \* the shares withdrawn and staked
  PriorityAmount,   \* the amounts taken from the retained yield
  ReserveAmount,    \* the amounts taken from the reserve
  FlashReceiver,    \* the receivers of flash loans
  FlashAmount,      \* the amounts lent for one call
  FlashReturn,      \* the amounts paid back in it
  LoanRequest,      \* [amount, collateral] of new loans
  CollateralToken,  \* the tokens offered as collateral
  LoanDays,         \* the durations of loans
  LiquidationAmount,\* the amounts liquidators pay
  LoanIds,          \* the lists of ids consolidated
  SplitParts,       \* the lists of parts a loan is split into
  NewAsset,         \* the assets pools are added for
  RoleGrant,        \* the roles assigned and revoked
  PoolSetting,      \* the pairs [field, value] set in a pool
  FeeBps,           \* the flash loan fees and premium rates set
  RewardRate,       \* the reward rates set
  InsuranceAmount,  \* the amounts the insurance fund gets and pays
  CurveModel,       \* the rate models set
  NftHolder         \* the accounts NFTs are transferred to

ASSUME LendingArguments ==
  /\ MaxLoanId \in Nat /\ MaxStake \in Nat
  /\ PoolAmount \cup ShareAmount \cup PriorityAmount \cup ReserveAmount \cup FlashAmount \cup FlashReturn
       \cup LoanDays \cup LiquidationAmount \cup FeeBps \cup RewardRate
       \cup InsuranceAmount \subseteq Nat
  /\ LoanRequest \subseteq [amount : Nat, collateral : Nat]
  /\ CollateralToken \cup NewAsset \subseteq Tokens
  /\ \A ids \in LoanIds : ids \in Seq(Nat)
  /\ \A parts \in SplitParts : parts \in Seq(Nat)
  /\ RoleGrant \subseteq Role
  /\ \A s \in PoolSetting :
       \/ s.field = "is_paused" /\ s.value \in BOOLEAN
       \/ s.field \in {"grace_period", "late_fee_rate_bps"} /\ s.value \in Nat
  /\ CurveModel \subseteq RateModel
  /\ NftHolder \cup FlashReceiver \subseteq Account

(* Initialize stores the admin and grants no role, and every call that     *)
(* grants one requires Admin: a contract that starts as deployed has no    *)
(* admin calls.  The tests presume that the admin has the role and has     *)
(* listed the collateral; what such a contract does is explored too, with  *)
(* and without an NFT token.                                               *)
LendingStart ==
  /\ LendingInit
  /\ \/ lending_roles = {} /\ whitelist = {} /\ nft_token = FALSE
     \/ /\ lending_roles = {<<LendingAdmin, "Admin">>}
        /\ whitelist = CollateralToken
        /\ nft_token \in BOOLEAN

ShareNext ==
  \E asset \in Tokens, caller \in Account :
    \/ \E amount \in PoolAmount : PoolDeposit(caller, asset, amount)
    \/ \E n \in ShareAmount : PoolWithdraw(caller, asset, n)

YieldNext ==
  \E asset \in Tokens, caller \in Account :
    \/ \E amount \in PriorityAmount :
         WithdrawPriority(caller, asset, amount)
    \/ \E amount \in ReserveAmount, to \in Account : PayReserves(caller, asset, amount, to)
    \/ /\ caller \in FlashReceiver
       /\ \E amount \in FlashAmount, returned \in FlashReturn :
            FlashLoan(caller, asset, amount, returned)

BorrowNext ==
  \E borrower \in Account :
    \/ /\ next_loan_id <= MaxLoanId
       /\ \E asset \in Tokens, request \in LoanRequest, t \in CollateralToken, days \in LoanDays :
            Borrow(borrower, asset, request.amount, t, request.collateral, days)
    \/ Repay(borrower)

LiquidateNext ==
  \E borrower, liquidator \in Account, amount \in LiquidationAmount :
    LendingLiquidate(liquidator, borrower, amount)

RefinanceNext ==
  \E borrower \in Account, days \in LoanDays :
    \/ next_loan_id <= MaxLoanId /\ RefinanceLoan(borrower, days)
    \/ next_loan_id <= MaxLoanId /\ \E ids \in LoanIds : ConsolidateLoans(borrower, ids, days)
    \/ \E parts \in SplitParts :
         next_loan_id + Len(parts) - 1 <= MaxLoanId /\ SplitLoan(borrower, parts, days)

StakingNext ==
  \E asset \in Tokens :
    \/ \E user \in Account :
         \/ \E n \in ShareAmount :
              \/ StakeOf(user, asset).amount + n <= MaxStake /\ StakeLpTokens(user, asset, n)
              \/ UnstakeLpTokens(user, asset, n)
         \/ ClaimRewards(user, asset)
         \/ \E rate \in RewardRate : SetRewardRate(user, asset, rate)
    \/ Supported(asset) /\ GetPendingRewards(asset)

NftNext ==
  /\ \E from, to \in NftHolder, id \in DOMAIN nft.metadata :
       \/ NftTransfer(from, to, id)
       \/ \E spender \in NftHolder : NftTransferFrom(spender, from, to, id)
       \/ NftApprove(from, to, id)
       \/ \E approved \in BOOLEAN : NftSetApprovalForAll(from, to, approved)
  /\ UNCHANGED <<lendingAdminVars, loans, loan_by_id, user_loans, next_loan_id,
                 stakeVars, poolVars, insurance, wallet>>

AdminNext ==
  \E caller \in Account :
    \/ \E asset \in NewAsset : AddAssetPool(caller, asset)
    \/ \E account \in Account, role \in RoleGrant, granted \in BOOLEAN :
         SetLendingRole(caller, account, role, granted)
    \/ \E value \in BOOLEAN : SetLendingPaused(caller, value)
    \/ \E asset \in Tokens, s \in PoolSetting : SetPoolField(caller, asset, s.field, s.value)
    \/ SetNftToken(caller)
    \/ \E t \in CollateralToken, listed \in BOOLEAN : SetCollateral(caller, t, listed)

FeeNext ==
  \E caller \in Account :
    \/ \E bps \in FeeBps :
         \/ SetFlashLoanFee(caller, bps) \/ SetInsurancePremiumRate(caller, bps)
         \/ \E asset \in Tokens : SetReserveFactor(caller, asset, bps)
    \/ \E amount \in InsuranceAmount :
         DepositToInsuranceFund(caller, amount) \/ WithdrawFromInsuranceFund(caller, amount)
    \/ \E model \in CurveModel : SetRateModel(caller, model)

LendingNext ==
  \/ /\ ShareNext \/ YieldNext \/ BorrowNext \/ LiquidateNext \/ RefinanceNext
           \/ StakingNext \/ NftNext \/ AdminNext \/ FeeNext
     /\ UNCHANGED clock
  \/ (\E days \in Steps : Tick(days)) /\ UNCHANGED lendingVars

LendingSpec == LendingStart /\ [][LendingNext]_<<clock, lendingVars>>

-----------------------------------------------------------------------------
(* Type invariant. *)

LendingTypeOK ==
  /\ clock \in Nat
  /\ lending_roles \subseteq Account \X Role
  /\ lending_paused \in BOOLEAN /\ nft_token \in BOOLEAN
  /\ assets \in Seq(Tokens)
  /\ whitelist \subseteq Tokens
  /\ IsMap(pools, Tokens, PoolState)
  /\ IsMap(shares, Account \X Tokens, Nat)
  /\ IsMap(loans, Account, LoanRecord)
  /\ IsMap(loan_by_id, Nat, LoanRecord)
  /\ IsMap(user_loans, Account, Seq(Nat))
  /\ next_loan_id \in Nat \ {0}
  /\ IsMap(reward_pools, Tokens, RewardPool)
  /\ IsMap(stakes, Account \X Tokens, UserStake)
  /\ {insurance, premium_rate, flash_fee} \subseteq Nat
  /\ rate_model \in RateModel \cup {Absent}
  /\ wallet \in [Tokens -> [Account \cup {Vault} -> Nat]]

-----------------------------------------------------------------------------
(* Safety. *)

(* The three places that name a loan agree through borrowing, splitting,   *)
(* consolidating, refinancing and repaying: the primary loan is one of     *)
(* those kept by id, and the list of a borrower is exactly his loans.      *)
LoanIndexAgrees ==
  /\ \A b \in DOMAIN loans :
       /\ loans[b].borrower = b
       /\ loans[b].loan_id \in DOMAIN loan_by_id
       /\ loan_by_id[loans[b].loan_id] = loans[b]
  /\ \A id \in DOMAIN loan_by_id :
       /\ loan_by_id[id].loan_id = id /\ id < next_loan_id
       /\ InSeq(UserLoans(loan_by_id[id].borrower), id)
  /\ \A b \in DOMAIN user_loans :
       /\ user_loans[b] # << >>
       /\ \A i \in DOMAIN user_loans[b] :
            /\ user_loans[b][i] \in DOMAIN loan_by_id
            /\ loan_by_id[user_loans[b][i]].borrower = b
            /\ \A j \in DOMAIN user_loans[b] : i < j => user_loans[b][i] < user_loans[b][j]

(* Every NFT is of an open loan and repeats its terms, wherever it was     *)
(* transferred meanwhile, and the balances count the tokens owned.  With   *)
(* the repository's token, which decodes other metadata than the lending   *)
(* contract sends, there is never an NFT.                                  *)
NftFollowsLoan ==
  /\ nft.fields # SentFields => DOMAIN nft.metadata = {}
  /\ DOMAIN nft.owner = DOMAIN nft.metadata
  /\ \A id \in DOMAIN nft.metadata :
       id \in DOMAIN loan_by_id /\ nft.metadata[id] = loan_by_id[id]
  /\ \A a \in Account :
       NftBalance(nft, a) = Cardinality({id \in DOMAIN nft.owner : nft.owner[id] = a})
  /\ nft.supply = Cardinality(DOMAIN nft.metadata)

(* A share is never worth less than before: not by deposits, whose shares  *)
(* are rounded, nor by withdrawals, loans, flash loans or reserves.        *)
SharePriceNeverFalls ==
  [][\A asset \in DOMAIN pools :
       pools'[asset].total_deposits * pools[asset].total_shares
         >= pools[asset].total_deposits * pools'[asset].total_shares]_<<clock, lendingVars>>

(* The tokens the books of the contract promise: liquidity, yield and      *)
(* reserves of the pool, the insurance fund, and the collateral of loans.  *)
Owed(t) ==
  (IF Supported(t)
   THEN pools[t].total_deposits - pools[t].total_borrowed
          + pools[t].retained_yield + pools[t].bad_debt_reserve
   ELSE 0)
  + (IF t = MainToken THEN insurance ELSE 0)
  + Total([id \in DOMAIN loan_by_id |->
             IF loan_by_id[id].collateral_token = t
             THEN loan_by_id[id].collateral_amount ELSE 0])

Slack(t) == wallet[t][Vault] - Owed(t)

(* Two calls book more than they leave in the vault: a liquidation, which  *)
(* counts the payment as new deposits besides reducing the debt and takes  *)
(* collateral the loan still records, and a consolidation of an id twice.  *)
DoubleBooking ==
  \E b \in Account :
    \/ \E a \in Account, amount \in LiquidationAmount : LendingLiquidate(a, b, amount)
    \/ \E ids \in LoanIds, days \in LoanDays :
         /\ Cardinality({ids[i] : i \in DOMAIN ids}) < Len(ids)
         /\ ConsolidateLoans(b, ids, days)

(* No other call books a token the vault does not hold, whatever interest, *)
(* fees, rounded parts and reserves it distributes.                        *)
BooksAreBacked ==
  [][DoubleBooking \/ \A t \in Tokens : Slack(t)' >= Slack(t)]_<<clock, lendingVars>>

(* The debt the pool counts on is owed: total_borrowed is at most the      *)
(* principals of the open loans, and at most what was deposited.           *)
BorrowedIsOwed ==
  \A asset \in DOMAIN pools :
    /\ pools[asset].total_borrowed <= pools[asset].total_deposits
    /\ pools[asset].total_borrowed <=
         Total([id \in DOMAIN loan_by_id |->
                  IF loan_by_id[id].asset = asset THEN loan_by_id[id].principal ELSE 0])

StakesIn(asset) == [key \in {k \in DOMAIN stakes : k[2] = asset} |-> stakes[key].amount]

(* The total staked, over which rewards are shared out, is the sum of the  *)
(* stakes.                                                                 *)
StakesAddUp ==
  \A asset \in DOMAIN reward_pools :
    reward_pools[asset].total_staked = Total(StakesIn(asset))

(* The rate shown to lenders is never above the one shown to borrowers,    *)
(* with or without a rate model: the yield is what borrowers pay for.      *)
LendersEarnWhatIsPaid == SupplyRate <= BorrowRate

(* The books of the contract agree with each other: loans with the lists   *)
(* and NFTs that name them, pools with the loans and stakes they count.    *)
LendingBooksAgree ==
  LoanIndexAgrees /\ NftFollowsLoan /\ BorrowedIsOwed /\ StakesAddUp /\ LendersEarnWhatIsPaid
=============================================================================
