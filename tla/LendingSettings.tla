-------------------------- MODULE LendingSettings --------------------------
(***************************************************************************)
(* Lending contract: what its admin sets, adds and funds.                  *)
(***************************************************************************)
EXTENDS LendingState

(* The insurance fund and the premium are those of the whole contract, and *)
(* each new pool starts them again.                                        *)
AddAssetPool(caller, asset) ==
  /\ IsLendingAdmin(caller)
  /\ ~InSeq(assets, asset)
  /\ assets' = Append(assets, asset)
  /\ pools' = Put(pools, asset, NewPool)
  /\ reward_pools' = Put(reward_pools, asset, NewRewardPool(clock))
  /\ insurance' = 0
  /\ premium_rate' = DEFAULT_PREMIUM_RATE_BPS
  /\ lending_roles' = lending_roles \cup {<<caller, "Admin">>}
  /\ UNCHANGED <<lending_paused, whitelist, flash_fee, rate_model, nft_token, loanVars,
                 stakes, shares, wallet>>

SetLendingRole(caller, account, role, granted) ==
  /\ IsLendingAdmin(caller)
  /\ lending_roles' = WithRole(lending_roles, account, role, granted)
  /\ UNCHANGED <<lending_paused, assets, whitelist, premium_rate, flash_fee, rate_model,
                 nft_token, loanVars, stakeVars, poolVars, insurance, wallet>>

SetLendingPaused(caller, value) ==
  /\ IsLendingAdmin(caller)
  /\ lending_paused' = value
  /\ UNCHANGED <<lending_roles, assets, whitelist, premium_rate, flash_fee, rate_model,
                 nft_token, loanVars, stakeVars, poolVars, insurance, wallet>>

(* Pause_asset_pool, set_grace_period and set_late_fee_rate, each of one   *)
(* field of the pool.                                                      *)
SetPoolField(caller, asset, field, value) ==
  /\ IsLendingAdmin(caller)
  /\ Supported(asset)
  /\ pools' = [pools EXCEPT ![asset][field] = value]
  /\ UNCHANGED <<lendingAdminVars, loanVars, stakeVars, shares, insurance, wallet>>

SetNftToken(caller) ==
  /\ IsLendingAdmin(caller)
  /\ nft_token' = TRUE
  /\ UNCHANGED <<lending_roles, lending_paused, assets, whitelist, premium_rate, flash_fee,
                 rate_model, loanVars, stakeVars, poolVars, insurance, wallet>>

(* Whitelist_collateral and remove_collateral; open loans are unaffected.  *)
SetCollateral(caller, t, listed) ==
  /\ IsLendingAdmin(caller)
  /\ whitelist' = IF listed THEN whitelist \cup {t} ELSE whitelist \ {t}
  /\ UNCHANGED <<lending_roles, lending_paused, assets, premium_rate, flash_fee, rate_model,
                 nft_token, loanVars, stakeVars, poolVars, insurance, wallet>>

SetFlashLoanFee(caller, bps) ==
  /\ IsLendingAdmin(caller)
  /\ flash_fee' = bps
  /\ UNCHANGED <<lending_roles, lending_paused, assets, whitelist, premium_rate, rate_model,
                 nft_token, loanVars, stakeVars, poolVars, insurance, wallet>>

SetInsurancePremiumRate(caller, bps) ==
  /\ IsLendingAdmin(caller)
  /\ bps <= 10000
  /\ premium_rate' = bps
  /\ UNCHANGED <<lending_roles, lending_paused, assets, whitelist, flash_fee, rate_model,
                 nft_token, loanVars, stakeVars, poolVars, insurance, wallet>>

(* The policies of the fund cannot be bought: purchase_loan_insurance      *)
(* looks for the loan in the instance storage and loans are in the         *)
(* persistent one, so it always fails, and with it claims and              *)
(* cancellations; accrue_interest_with_reserve looks there too.            *)
DepositToInsuranceFund(caller, amount) ==
  /\ IsLendingAdmin(caller)
  /\ amount > 0
  /\ CanPay(caller, MainToken, amount)
  /\ wallet' = Pay(wallet, MainToken, caller, Vault, amount)
  /\ insurance' = insurance + amount
  /\ UNCHANGED <<lendingAdminVars, loanVars, stakeVars, poolVars>>

WithdrawFromInsuranceFund(caller, amount) ==
  /\ IsLendingAdmin(caller)
  /\ 0 < amount /\ amount <= insurance
  /\ CanPay(Vault, MainToken, amount)
  /\ insurance' = insurance - amount
  /\ wallet' = Pay(wallet, MainToken, Vault, caller, amount)
  /\ UNCHANGED <<lendingAdminVars, loanVars, stakeVars, poolVars>>

(* Only the views of rates read the model; loans are priced without it.    *)
SetRateModel(caller, model) ==
  /\ IsLendingAdmin(caller)
  /\ model \in RateModel
  /\ rate_model' = model
  /\ UNCHANGED <<lending_roles, lending_paused, assets, whitelist, premium_rate, flash_fee,
                 nft_token, loanVars, stakeVars, poolVars, insurance, wallet>>

BorrowRate ==
  LET utilization == Utilization(pools[MainToken].total_borrowed, pools[MainToken].total_deposits)
  IN  IF rate_model = Absent THEN DynamicRate(utilization)
      ELSE TwoSlopeRate(rate_model, utilization)

(* The product by 10000 * 10000, rounded down once, in steps that stay     *)
(* small: the code multiplies in u128.                                     *)
SupplyRate ==
  LET factor == IF rate_model = Absent THEN pools[MainToken].reserve_factor_bps
                ELSE rate_model.reserve_factor_bps
      utilization == Utilization(pools[MainToken].total_borrowed, pools[MainToken].total_deposits)
      part == utilization * SaturatingSub(10000, factor)
  IN  (BorrowRate * (part \div 10000) + BasisPoints(BorrowRate, part % 10000)) \div 10000
=============================================================================
