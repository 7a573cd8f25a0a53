--------------------------- MODULE PoolOperations ---------------------------
(***************************************************************************)
(* Lending contract: depositors' shares of a pool, its retained yield and  *)
(* reserves, flash loans, and the staking of shares.                       *)
(***************************************************************************)
EXTENDS LendingState

SetPool(asset, pool) == pools' = Put(pools, asset, pool)

(* A first deposit leaves MINIMUM_LIQUIDITY shares to nobody. *)
LockedShares(pool) == IF pool.total_shares = 0 THEN MINIMUM_LIQUIDITY ELSE 0

PoolDeposit(depositor, asset, amount) ==
  /\ Running(asset)
  /\ amount > 0
  /\ CanPay(depositor, asset, amount)
  /\ LET pool == pools[asset]
         minted == SharesForDeposit(pool, amount) - LockedShares(pool)
     IN  /\ minted > 0
         /\ SetPool(asset, [pool EXCEPT !.total_deposits = @ + amount,
                                        !.total_shares = @ + LockedShares(pool) + minted])
         /\ shares' = Put(shares, <<depositor, asset>>, SharesOf(depositor, asset) + minted)
  /\ wallet' = Pay(wallet, asset, depositor, Vault, amount)
  /\ UNCHANGED <<lendingAdminVars, loanVars, stakeVars, insurance>>

PoolWithdraw(depositor, asset, n) ==
  /\ Running(asset)
  /\ 0 < n /\ n <= SharesOf(depositor, asset)
  /\ LET pool == pools[asset]
         amount == AssetsForShares(pool, n)
     IN  /\ amount > 0
         /\ amount <= AvailableLiquidity(pool)
         /\ CanPay(Vault, asset, amount)
         /\ SetPool(asset, [pool EXCEPT !.total_deposits = @ - amount,
                                        !.total_shares = @ - n])
         /\ shares' = Put(shares, <<depositor, asset>>, SharesOf(depositor, asset) - n)
         /\ wallet' = Pay(wallet, asset, Vault, depositor, amount)
  /\ UNCHANGED <<lendingAdminVars, loanVars, stakeVars, insurance>>

(* Any caller may make it; neither the pause of the asset nor a role is    *)
(* looked at.                                                              *)
WithdrawPriority(caller, asset, amount) ==
  /\ ~lending_paused
  /\ amount > 0
  /\ Supported(asset)
  /\ amount <= pools[asset].retained_yield
  /\ CanPay(Vault, asset, amount)
  /\ SetPool(asset, [pools[asset] EXCEPT !.retained_yield = @ - amount])
  /\ wallet' = Pay(wallet, asset, Vault, caller, amount)
  /\ UNCHANGED <<lendingAdminVars, loanVars, stakeVars, shares, insurance>>

(* Faulty: the fee is booked from the rate, whatever came back. *)
FlashLoanUnchecked(receiver, asset, amount, returned) ==
  LET fee == BasisPoints(amount, flash_fee)
  IN  /\ Running(asset)
      /\ amount > 0
      /\ amount <= AvailableLiquidity(pools[asset])
      /\ CanPay(Vault, asset, amount)
      /\ returned <= wallet[asset][receiver] + amount
      /\ SetPool(asset, [pools[asset] EXCEPT !.total_deposits = @ + fee])
      /\ wallet' = Pay(Pay(wallet, asset, Vault, receiver, amount), asset, receiver, Vault, returned)
      /\ UNCHANGED <<lendingAdminVars, loanVars, stakeVars, shares, insurance>>

(* The receiver is a contract that pays back what it chooses; it cannot    *)
(* call the lending contract meanwhile, because the host lets no contract  *)
(* be entered again.  Its balance afterwards decides.                      *)
FlashLoan(receiver, asset, amount, returned) ==
  LET fee == BasisPoints(amount, flash_fee)
  IN  /\ Running(asset)
      /\ amount > 0
      /\ amount <= AvailableLiquidity(pools[asset])
      /\ CanPay(Vault, asset, amount)
      /\ returned <= wallet[asset][receiver] + amount
      /\ returned >= amount + fee
      /\ SetPool(asset, [pools[asset] EXCEPT !.total_deposits = @ + fee])
      /\ wallet' = Pay(Pay(wallet, asset, Vault, receiver, amount), asset, receiver, Vault, returned)
      /\ UNCHANGED <<lendingAdminVars, loanVars, stakeVars, shares, insurance>>

(* Withdraw_reserves and allocate_reserves, which differ in who is paid:   *)
(* the stored admin, or the account he names.                              *)
PayReserves(caller, asset, amount, to) ==
  /\ caller = LendingAdmin
  /\ Supported(asset)
  /\ amount <= pools[asset].bad_debt_reserve
  /\ CanPay(Vault, asset, amount)
  /\ SetPool(asset, [pools[asset] EXCEPT !.bad_debt_reserve = @ - amount])
  /\ wallet' = Pay(wallet, asset, Vault, to, amount)
  /\ UNCHANGED <<lendingAdminVars, loanVars, stakeVars, shares, insurance>>

SetReserveFactor(caller, asset, bps) ==
  /\ caller = LendingAdmin
  /\ bps <= 10000
  /\ Supported(asset)
  /\ SetPool(asset, [pools[asset] EXCEPT !.reserve_factor_bps = bps])
  /\ UNCHANGED <<lendingAdminVars, loanVars, stakeVars, shares, insurance, wallet>>

-----------------------------------------------------------------------------
(* Staking. *)

UpdatedRewardPool(asset) ==
  LET pool == Stored(reward_pools, asset, NewRewardPool(clock))
      per_token == IF pool.total_staked > 0
                   THEN SaturatingSub(clock, pool.last_update_time) * pool.reward_rate ELSE 0
  IN  [pool EXCEPT !.reward_per_token_stored = @ + per_token,
                   !.total_rewards_distributed = @ + per_token * pool.total_staked,
                   !.last_update_time = clock]

StakeOf(user, asset) == Stored(stakes, <<user, asset>>, NoStake)

(* Calculate_pending_rewards, after the pool is updated. *)
PendingRewards(user, asset) ==
  LET stake == StakeOf(user, asset)
  IN  stake.rewards
        + stake.amount * SaturatingSub(UpdatedRewardPool(asset).reward_per_token_stored,
                                       stake.reward_per_token_paid)

(* Update_user_reward_debt: what is noted as paid is the stored value from *)
(* before the update the pending rewards were computed with.               *)
SettledStake(user, asset) ==
  [StakeOf(user, asset) EXCEPT
     !.reward_per_token_paid =
        Stored(reward_pools, asset, NewRewardPool(clock)).reward_per_token_stored,
     !.rewards = PendingRewards(user, asset)]

(* The shares stay the user's: they are staked again or withdrawn at will. *)
StakeLpTokens(user, asset, amount) ==
  /\ amount > 0
  /\ SharesOf(user, asset) >= amount
  /\ LET pool == UpdatedRewardPool(asset)
         stake == StakeOf(user, asset)
     IN  /\ reward_pools' = Put(reward_pools, asset, [pool EXCEPT !.total_staked = @ + amount])
         /\ stakes' = Put(stakes, <<user, asset>>,
              [amount |-> stake.amount + amount,
               reward_per_token_paid |-> pool.reward_per_token_stored,
               rewards |-> 0,
               stake_time |-> IF stake.stake_time = 0 THEN clock ELSE stake.stake_time])
  /\ UNCHANGED <<lendingAdminVars, loanVars, poolVars, insurance, wallet>>

(* Faulty: the total keeps what was unstaked. *)
UnstakeKeepingTotal(user, asset, amount) ==
  /\ amount > 0
  /\ amount <= StakeOf(user, asset).amount
  /\ stakes' = Put(stakes, <<user, asset>>, [SettledStake(user, asset) EXCEPT !.amount = @ - amount])
  /\ reward_pools' = Put(reward_pools, asset, UpdatedRewardPool(asset))
  /\ UNCHANGED <<lendingAdminVars, loanVars, poolVars, insurance, wallet>>

UnstakeLpTokens(user, asset, amount) ==
  /\ amount > 0
  /\ amount <= StakeOf(user, asset).amount
  /\ LET settled == SettledStake(user, asset)
         left == settled.amount - amount
         pool == UpdatedRewardPool(asset)
     IN  /\ stakes' = Put(stakes, <<user, asset>>,
              IF left = 0
              THEN [settled EXCEPT !.amount = 0, !.reward_per_token_paid = 0, !.stake_time = 0]
              ELSE [settled EXCEPT !.amount = left])
         /\ reward_pools' = Put(reward_pools, asset,
              [pool EXCEPT !.total_staked = SaturatingSub(@, amount)])
  /\ UNCHANGED <<lendingAdminVars, loanVars, poolVars, insurance, wallet>>

(* The rewards are only an event: no token moves. *)
ClaimRewards(user, asset) ==
  /\ PendingRewards(user, asset) > 0
  /\ stakes' = Put(stakes, <<user, asset>>, [SettledStake(user, asset) EXCEPT !.rewards = 0])
  /\ reward_pools' = Put(reward_pools, asset, UpdatedRewardPool(asset))
  /\ UNCHANGED <<lendingAdminVars, loanVars, poolVars, insurance, wallet>>

(* Get_pending_rewards is a view that brings the pool up to date. *)
GetPendingRewards(asset) ==
  /\ reward_pools' = Put(reward_pools, asset, UpdatedRewardPool(asset))
  /\ UNCHANGED <<lendingAdminVars, loanVars, stakes, poolVars, insurance, wallet>>

SetRewardRate(caller, asset, rate) ==
  /\ IsLendingAdmin(caller)
  /\ rate # 0
  /\ reward_pools' = Put(reward_pools, asset,
                         [UpdatedRewardPool(asset) EXCEPT !.reward_rate = rate])
  /\ UNCHANGED <<lendingAdminVars, loanVars, stakes, poolVars, insurance, wallet>>
=============================================================================
