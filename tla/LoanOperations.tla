--------------------------- MODULE LoanOperations ---------------------------
(***************************************************************************)
(* Lending contract: a loan from borrow to repay, with liquidation,        *)
(* refinancing, consolidation and splitting.  A loan is stored twice: by   *)
(* its borrower (the primary loan, the one repay and liquidate reach) and  *)
(* by its id.                                                              *)
(***************************************************************************)
EXTENDS PoolOperations

Primary(borrower) == loans[borrower]

HasLoan(borrower) == borrower \in DOMAIN loans

(* The loans made in one call: their ids follow each other.                *)
Opened(borrower, made) ==
  /\ next_loan_id' = next_loan_id + Len(made)
  /\ loans' = Put(loans, borrower, made[Len(made)])

ById(made) == [id \in {made[i].loan_id : i \in DOMAIN made} |-> made[id - next_loan_id + 1]]

IdsOf(made) == [i \in DOMAIN made |-> made[i].loan_id]

(* The records, the list and the tokens when the loans with the ids in     *)
(* closed give way to those in made.  Without an NFT token nothing is      *)
(* burned or minted; with one, a loan that has no NFT cannot be closed,    *)
(* and none is made unless the token decodes the metadata it is sent.      *)
Replace(borrower, closed, made) ==
  LET kept == WithoutUserLoans(user_loans, borrower, closed)
  IN  /\ loan_by_id' = [id \in (DOMAIN loan_by_id \ closed) \cup DOMAIN ById(made) |->
                          IF id \in DOMAIN ById(made) THEN ById(made)[id] ELSE loan_by_id[id]]
      /\ user_loans' = IF made = << >> THEN kept ELSE WithUserLoans(kept, borrower, IdsOf(made))
      /\ nft_token => NftExists(closed) /\ (made = << >> \/ Mintable)
      /\ nft' = IF ~nft_token THEN nft
                ELSE IF made = << >> THEN Burned(nft, closed)
                ELSE Minted(Burned(nft, closed), borrower, ById(made))

Borrow(borrower, asset, amount, collateral_token, collateral_amount, days) ==
  /\ Running(asset)
  /\ amount > 0 /\ collateral_amount > 0
  /\ collateral_token \in whitelist
  /\ UserLoans(borrower) = << >>
  /\ collateral_amount >= BasisPoints(amount, CollateralRatio)
  /\ amount <= AvailableLiquidity(pools[asset])
  /\ LET pool == [pools[asset] EXCEPT !.total_borrowed = @ + amount]
         paid == Pay(wallet, collateral_token, borrower, Vault, collateral_amount)
         loan == [loan_id |-> next_loan_id, borrower |-> borrower, asset |-> asset,
                  principal |-> amount, collateral_amount |-> collateral_amount,
                  collateral_token |-> collateral_token, borrow_time |-> clock,
                  due_date |-> clock + days, interest_rate_bps |-> CurrentRate(pool)]
     IN  /\ Utilization(pool.total_borrowed, pool.total_deposits) <= UtilizationCap
         /\ CanPay(borrower, collateral_token, collateral_amount)
         /\ paid[asset][Vault] >= amount
         /\ SetPool(asset, pool)
         /\ Opened(borrower, <<loan>>)
         /\ Replace(borrower, {}, <<loan>>)
         /\ wallet' = Pay(paid, asset, Vault, borrower, amount)
  /\ UNCHANGED <<lendingAdminVars, stakeVars, shares, insurance>>

(* A tenth of the interest is the protocol's, half of it for bad debts.    *)
ProtocolShare(interest) == BasisPoints(interest, PROTOCOL_INTEREST_BPS)
ReserveShare(interest)  == BasisPoints(ProtocolShare(interest), BAD_DEBT_RESERVE_BPS)

PoolAfterRepay(pool, loan, interest, late_fee) ==
  [pool EXCEPT
     !.total_borrowed = @ - loan.principal,
     !.total_deposits = @ + (interest - ProtocolShare(interest)),
     !.retained_yield = @ + (ProtocolShare(interest) - ReserveShare(interest)) + late_fee,
     !.bad_debt_reserve = @ + ReserveShare(interest)]

(* The subtraction from total_borrowed traps below zero.                   *)
Repay(borrower) ==
  /\ ~lending_paused
  /\ HasLoan(borrower)
  /\ LET loan == Primary(borrower)
         interest == OutstandingBalance(loan) - loan.principal
         late_fee == CalculateLateFee(loan)
         total == loan.principal + interest + late_fee
         paid == Pay(wallet, loan.asset, borrower, Vault, total)
     IN  /\ CanPay(borrower, loan.asset, total)
         /\ paid[loan.collateral_token][Vault] >= loan.collateral_amount
         /\ pools[loan.asset].total_borrowed >= loan.principal
         /\ SetPool(loan.asset, PoolAfterRepay(pools[loan.asset], loan, interest, late_fee))
         /\ loans' = Drop(loans, borrower)
         /\ Replace(borrower, {loan.loan_id}, << >>)
         /\ wallet' = Pay(paid, loan.collateral_token, Vault, borrower, loan.collateral_amount)
  /\ UNCHANGED <<lendingAdminVars, next_loan_id, stakeVars, shares, insurance>>

HealthFactor(loan) == (loan.collateral_amount * 10000) \div loan.principal

CollateralToSeize(amount) == BasisPoints(amount, LIQUIDATION_THRESHOLD_BPS)

(* The loan itself stays as it is: its principal and its collateral are    *)
(* those from before the liquidation.                                      *)
LendingLiquidate(liquidator, borrower, amount) ==
  /\ HasLoan(borrower)
  /\ LET loan == Primary(borrower)
         seized == CollateralToSeize(amount)
         paid == Pay(wallet, loan.asset, liquidator, Vault, amount)
     IN  /\ 0 < amount /\ amount <= loan.principal
         /\ ~InGracePeriod(loan)
         /\ HealthFactor(loan) < LIQUIDATION_THRESHOLD_BPS
         /\ seized <= loan.collateral_amount
         /\ CanPay(liquidator, loan.asset, amount)
         /\ paid[loan.collateral_token][Vault] >= seized
         /\ wallet' = Pay(paid, loan.collateral_token, Vault, liquidator, seized)
         /\ SetPool(loan.asset, [pools[loan.asset] EXCEPT
                                   !.total_borrowed = SaturatingSub(@, amount),
                                   !.total_deposits = @ + amount])
  /\ UNCHANGED <<lendingAdminVars, loanVars, stakeVars, shares, insurance>>

-----------------------------------------------------------------------------
(* Refinancing.  The fee is paid in and kept as yield; the capitalized     *)
(* interest is in the new principal and not in total_borrowed.             *)

NewTerms(loan, id, principal, collateral, days) ==
  [loan EXCEPT !.loan_id = id, !.principal = principal, !.collateral_amount = collateral,
               !.borrow_time = clock, !.due_date = clock + days,
               !.interest_rate_bps = CurrentRate(pools[loan.asset])]

(* The fee goes to the retained yield. *)
PayFee(borrower, asset, fee) ==
  /\ CanPay(borrower, asset, fee)
  /\ wallet' = Pay(wallet, asset, borrower, Vault, fee)
  /\ SetPool(asset, [pools[asset] EXCEPT !.retained_yield = @ + fee])

RefinanceLoan(borrower, days) ==
  /\ HasLoan(borrower)
  /\ LET loan == Primary(borrower)
         outstanding == OutstandingBalance(loan)
         fee == BasisPoints(outstanding, REFINANCING_FEE_BPS)
         made == <<NewTerms(loan, next_loan_id, outstanding + fee, loan.collateral_amount, days)>>
     IN  /\ InGracePeriod(loan)
         /\ PayFee(borrower, loan.asset, fee)
         /\ Opened(borrower, made)
         /\ Replace(borrower, {loan.loan_id}, made)
  /\ UNCHANGED <<lendingAdminVars, stakeVars, shares, insurance>>

(* An id given twice is counted twice; only the burn of its NFT notices.   *)
ConsolidateLoans(borrower, ids, days) ==
  /\ 1 <= Len(ids) /\ Len(ids) <= 10
  /\ \A i \in DOMAIN ids :
       /\ ids[i] \in DOMAIN loan_by_id
       /\ LET loan == loan_by_id[ids[i]]
          IN  /\ loan.borrower = borrower
              /\ InGracePeriod(loan)
              /\ loan.collateral_token = loan_by_id[ids[1]].collateral_token
              /\ loan.asset = loan_by_id[ids[1]].asset
  /\ LET first == loan_by_id[ids[1]]
         outstanding == Total([i \in DOMAIN ids |-> OutstandingBalance(loan_by_id[ids[i]])])
         collateral == Total([i \in DOMAIN ids |-> loan_by_id[ids[i]].collateral_amount])
         fee == BasisPoints(outstanding, REFINANCING_FEE_BPS)
         closed == {ids[i] : i \in DOMAIN ids}
         made == <<NewTerms(first, next_loan_id, outstanding + fee, collateral, days)>>
     IN  /\ nft_token => Cardinality(closed) = Len(ids)
         /\ PayFee(borrower, first.asset, fee)
         /\ Opened(borrower, made)
         /\ Replace(borrower, closed, made)
  /\ UNCHANGED <<lendingAdminVars, stakeVars, shares, insurance>>

(* The part of the collateral that goes with a part of the debt: the ratio *)
(* in basis points is rounded first.                                       *)
SplitCollateral(loan, part, outstanding) ==
  IF outstanding = 0 THEN 0
  ELSE BasisPoints(loan.collateral_amount, (part * 10000) \div outstanding)

(* The last part becomes the primary loan; the others are reached by id,   *)
(* and only consolidate_loans does.                                        *)
SplitLoan(borrower, parts, days) ==
  /\ 1 <= Len(parts) /\ Len(parts) <= 5
  /\ HasLoan(borrower)
  /\ LET loan == Primary(borrower)
         outstanding == OutstandingBalance(loan)
         fee == BasisPoints(outstanding, REFINANCING_FEE_BPS)
         made == [i \in DOMAIN parts |->
                    NewTerms(loan, next_loan_id + i - 1, parts[i],
                             SplitCollateral(loan, parts[i], outstanding), days)]
     IN  /\ InGracePeriod(loan)
         /\ Total(parts) = outstanding
         /\ PayFee(borrower, loan.asset, fee)
         /\ Opened(borrower, made)
         /\ Replace(borrower, {loan.loan_id}, made)
  /\ UNCHANGED <<lendingAdminVars, stakeVars, shares, insurance>>
=============================================================================
