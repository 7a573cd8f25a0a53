---------------------------- MODULE LendingState ----------------------------
(***************************************************************************)
(* The storage of the lending contract                                     *)
(* (contracts/lending-contract/src/lib.rs) and its arithmetic.             *)
(*                                                                         *)
(* As in InheritanceState an action is a call that returns Ok.  A release  *)
(* build traps on overflow, so a subtraction that would fall below zero is *)
(* a failing call, and its condition a guard.  Rewards are counted in      *)
(* DEFAULT_REWARD_RATE per day, interest and late fees in whole days.      *)
(***************************************************************************)
EXTENDS LedgerClock, LoanNft

CONSTANTS
  Vault,          \* the contract's own token account
  LendingAdmin,   \* the account initialize stores as the admin
  Tokens,         \* the tokens: assets of pools and collateral
  MainToken,      \* the token of the first pool, DataKey::Token
  Funds,          \* the tokens each account starts with
  RateAtZero,     \* base_rate_bps of a new pool
  RateMultiplier, \* multiplier_bps of a new pool
  UtilizationCap, \* utilization_cap_bps of a new pool
  CollateralRatio \* collateral_ratio_bps

ASSUME LendingAssumption ==
  /\ Vault \notin Account /\ LendingAdmin \in Account
  /\ MainToken \in Tokens
  /\ Funds \in [Tokens -> [Account -> Nat]]
  /\ {RateAtZero, RateMultiplier, UtilizationCap, CollateralRatio} \subseteq Nat

VARIABLES
  lending_roles,     \* AccessControlKey::Roles: the pairs (account, role) granted
  lending_paused,    \* PauseKey::Paused
  assets,            \* DataKey::SupportedAssets
  pools,             \* DataKey::PoolState
  whitelist,         \* DataKey::WhitelistedCollateral
  shares,            \* DataKey::Shares, by owner and asset
  loans,             \* DataKey::Loan
  loan_by_id,        \* DataKey::LoanById
  user_loans,        \* DataKey::UserLoans
  next_loan_id,      \* DataKey::NextLoanId
  nft_token,         \* whether DataKey::NFTToken is set
  reward_pools,      \* DataKey::RewardPool
  stakes,            \* DataKey::UserStake, by user and asset
  insurance,         \* DataKey::InsuranceFund: available_balance
  premium_rate,      \* DataKey::InsurancePremiumRate
  flash_fee,         \* DataKey::FlashLoanFeeBps
  rate_model,        \* DataKey::RateModel
  wallet             \* the balances of the tokens

lendingAdminVars == <<lending_roles, lending_paused, assets, whitelist, premium_rate,
                      flash_fee, rate_model, nft_token>>
loanVars  == <<loans, loan_by_id, user_loans, next_loan_id, nft>>
stakeVars == <<reward_pools, stakes>>
poolVars  == <<pools, shares>>

lendingVars == <<lendingAdminVars, loanVars, stakeVars, poolVars, insurance, wallet>>

-----------------------------------------------------------------------------
(* Constants and records of the source. *)

MINIMUM_LIQUIDITY         == 1000
PROTOCOL_INTEREST_BPS     == 1000
BAD_DEBT_RESERVE_BPS      == 5000
DEFAULT_GRACE_PERIOD      == 3
DEFAULT_LATE_FEE_RATE_BPS == 500
REFINANCING_FEE_BPS       == 50
DEFAULT_REWARD_RATE       == 1
DEFAULT_PREMIUM_RATE_BPS  == 200
DEFAULT_FLASH_FEE_BPS     == 9
LIQUIDATION_THRESHOLD_BPS == 15000
DAYS_IN_YEAR              == 365

(* What set_reserve_factor accepts, in basis points. *)
ReserveFactor == 0..10000

PoolState ==
  [total_deposits : Nat, total_shares : Nat, total_borrowed : Nat,
   retained_yield : Nat, bad_debt_reserve : Nat, grace_period : Nat,
   late_fee_rate_bps : Nat, reserve_factor_bps : ReserveFactor, is_paused : BOOLEAN]

NewPool ==
  [total_deposits |-> 0, total_shares |-> 0, total_borrowed |-> 0,
   retained_yield |-> 0, bad_debt_reserve |-> 0,
   grace_period |-> DEFAULT_GRACE_PERIOD,
   late_fee_rate_bps |-> DEFAULT_LATE_FEE_RATE_BPS,
   reserve_factor_bps |-> 1000, is_paused |-> FALSE]

LoanRecord ==
  [loan_id : Nat, borrower : Account, asset : Tokens, principal : Nat,
   collateral_amount : Nat, collateral_token : Tokens, borrow_time : Nat,
   due_date : Nat, interest_rate_bps : Nat]

RewardPool ==
  [total_staked : Nat, reward_rate : Nat, last_update_time : Nat,
   reward_per_token_stored : Nat, total_rewards_distributed : Nat]

NewRewardPool(at) ==
  [total_staked |-> 0, reward_rate |-> DEFAULT_REWARD_RATE, last_update_time |-> at,
   reward_per_token_stored |-> 0, total_rewards_distributed |-> 0]

UserStake ==
  [amount : Nat, reward_per_token_paid : Nat, rewards : Nat, stake_time : Nat]

NoStake == [amount |-> 0, reward_per_token_paid |-> 0, rewards |-> 0, stake_time |-> 0]

(* What set_rate_model accepts of the kink and of the factor. *)
OptimalUtilization == 1..9999
ModelFactor        == 0..9999

RateModel ==
  [base_rate_bps : Nat, optimal_utilization_bps : OptimalUtilization, slope1_bps : Nat,
   slope2_bps : Nat, reserve_factor_bps : ModelFactor]

-----------------------------------------------------------------------------
(* Arithmetic. *)

BasisPoints(amount, bps) == (amount * bps) \div 10000

(* Faulty: every deposit mints one share per token. *)
SharesOneToOne(pool, amount) == amount

SharesForDeposit(pool, amount) ==
  IF pool.total_shares = 0 \/ pool.total_deposits = 0 THEN amount
  ELSE (amount * pool.total_shares) \div pool.total_deposits

AssetsForShares(pool, n) ==
  IF pool.total_shares = 0 THEN 0
  ELSE (n * pool.total_deposits) \div pool.total_shares

CalculateInterest(principal, rate_bps, days) ==
  (principal * rate_bps * days) \div (10000 * DAYS_IN_YEAR)

Utilization(borrowed, deposits) ==
  IF deposits = 0 THEN 0 ELSE (borrowed * 10000) \div deposits

DynamicRate(utilization) ==
  RateAtZero + (utilization * RateMultiplier) \div 10000

CurrentRate(pool) ==
  DynamicRate(Utilization(pool.total_borrowed, pool.total_deposits))

(* The kinked curve of set_rate_model, read by the rate views only. *)
TwoSlopeRate(model, utilization) ==
  LET optimal == model.optimal_utilization_bps
  IN  IF utilization <= optimal
      THEN model.base_rate_bps + (utilization * model.slope1_bps) \div optimal
      ELSE model.base_rate_bps + model.slope1_bps
             + ((utilization - optimal) * model.slope2_bps) \div (10000 - optimal)

AvailableLiquidity(pool) == SaturatingSub(pool.total_deposits, pool.total_borrowed)

OutstandingBalance(loan) ==
  loan.principal
    + CalculateInterest(loan.principal, loan.interest_rate_bps,
                        SaturatingSub(clock, loan.borrow_time))

GraceEnd(loan) == loan.due_date + pools[loan.asset].grace_period

InGracePeriod(loan) == clock <= GraceEnd(loan)

CalculateLateFee(loan) ==
  BasisPoints(loan.principal, pools[loan.asset].late_fee_rate_bps)
    * SaturatingSub(clock, GraceEnd(loan))

-----------------------------------------------------------------------------
(* Guards, storage and tokens. *)

IsLendingAdmin(caller) == <<caller, "Admin">> \in lending_roles

Supported(asset) == asset \in DOMAIN pools

Running(asset) == ~lending_paused /\ Supported(asset) /\ ~pools[asset].is_paused

SharesOf(owner, asset) == Stored(shares, <<owner, asset>>, 0)

UserLoans(user) == Stored(user_loans, user, << >>)

(* Add_user_loan and remove_user_loan; an empty list is not kept. *)
WithUserLoans(map, user, ids) == Put(map, user, Stored(map, user, << >>) \o ids)

WithoutUserLoans(map, user, ids) ==
  LET left == Without(Stored(map, user, << >>), ids)
  IN  IF left = << >> THEN Drop(map, user) ELSE Put(map, user, left)

CanPay(account, t, amount) == wallet[t][account] >= amount

Pay(balances, t, from, to, amount) == [balances EXCEPT ![t] = Transfer(@, from, to, amount)]

-----------------------------------------------------------------------------
(* The state after initialize.                                             *)
LendingInit ==
  /\ clock = 1
  /\ lending_paused = FALSE
  /\ assets = <<MainToken>>
  /\ pools = Put(EmptyMap, MainToken, NewPool)
  /\ shares = EmptyMap
  /\ loans = EmptyMap
  /\ loan_by_id = EmptyMap
  /\ user_loans = EmptyMap
  /\ next_loan_id = 1
  /\ nft \in {NoNfts(SentFields), NoNfts(OwnFields)}
  /\ reward_pools = Put(EmptyMap, MainToken, NewRewardPool(clock))
  /\ stakes = EmptyMap
  /\ insurance = 0
  /\ premium_rate = DEFAULT_PREMIUM_RATE_BPS
  /\ flash_fee = DEFAULT_FLASH_FEE_BPS
  /\ rate_model = Absent
  /\ wallet = [t \in Tokens |->
                 [a \in Account \cup {Vault} |-> IF a = Vault THEN 0 ELSE Funds[t][a]]]
=============================================================================
