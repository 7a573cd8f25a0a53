-------------------------- MODULE BorrowingContract --------------------------
(***************************************************************************)
(* The borrowing contract (contracts/borrowing-contract/src/lib.rs): loans *)
(* against a collateral the contract holds, their liquidation, and the     *)
(* auction of the debt of an unhealthy loan.                               *)
(*                                                                         *)
(* An action is a call that returns Ok.  The principal of a loan and its   *)
(* repayments are paid elsewhere: only collateral moves here.  Amounts are *)
(* positive, as every caller in the repository passes them.                *)
(***************************************************************************)
EXTENDS LedgerClock

CONSTANTS
  Desk,             \* the contract's own token account
  BorrowingAdmin,   \* the account that initialized it
  Collaterals,      \* the tokens offered as collateral
  Purse,            \* the tokens each account starts with
  LoanRatio,        \* collateral_ratio_bps
  HealthThreshold,  \* liquidation_threshold_bps
  LiquidationBonus, \* liquidation_bonus_bps
  MaxContracts,     \* bound: the loans made
  MaxPrincipal,     \* bound: what a loan is increased to, and half of what is repaid
  ContractRequest,  \* [principal, collateral] of new loans
  ContractDays,     \* their durations
  RepayAmount,      \* the amounts repaid, liquidated, bid and added
  AuctionTerms,     \* [duration, initial_discount_bps, max_discount_bps] of auctions
  ExtensionDays,    \* the extensions
  Liquidator        \* the accounts that liquidate and bid

ASSUME BorrowingAssumption ==
  /\ Desk \notin Account /\ BorrowingAdmin \in Account
  /\ Purse \in [Collaterals -> [Account -> Nat]]
  /\ {LoanRatio, HealthThreshold, LiquidationBonus} \subseteq Nat \ {0}
  /\ MaxContracts \in Nat /\ MaxPrincipal \in Nat
  /\ ContractRequest \subseteq [principal : Nat \ {0}, collateral : Nat]
  /\ RepayAmount \subseteq Nat \ {0}
  /\ ContractDays \cup ExtensionDays \subseteq Nat
  /\ Liquidator \subseteq Account
  /\ AuctionTerms \subseteq
       [duration : Nat, initial_discount_bps : Nat, max_discount_bps : Nat]

VARIABLES
  borrow_roles,     \* AccessControlKey::Roles
  borrow_paused,    \* PauseKey::Paused
  accepted,         \* DataKey::WhitelistedCollateral
  global_pause,     \* DataKey::GlobalPause
  vault_pause,      \* DataKey::VaultPause: the tokens paused
  contracts,        \* DataKey::Loan, by id from 1 to LoanCounter
  auctions,         \* DataKey::Auction
  purse             \* the balances of the tokens

borrowingVars == <<borrow_roles, borrow_paused, accepted, global_pause, vault_pause,
                   contracts, auctions, purse>>
borrowingSettings == <<borrow_roles, borrow_paused, accepted, global_pause, vault_pause>>

MAX_EXTENSIONS    == 2
EXTENSION_FEE_BPS == 100

ContractLoan ==
  [borrower : Account, principal : Nat, due_date : Nat, amount_repaid : Nat,
   collateral_amount : Nat, collateral_token : Collaterals, is_active : BOOLEAN,
   extension_count : 0..MAX_EXTENSIONS]

AuctionStatus == {"Active", "Executed", "Cancelled"}

LiquidationAuction ==
  [start_time : Nat, duration : Nat, initial_discount_bps : Nat, max_discount_bps : Nat,
   status : AuctionStatus, winning_bidder : Account \cup {Absent},
   winning_bid_amount : Nat, locked_discount_bps : Nat]

Share(amount, bps) == (amount * bps) \div 10000

Debt(loan) == loan.principal - loan.amount_repaid

(* In basis points.  Without debt it is 10000, less than the threshold of  *)
(* 12000 the tests use; a debt below zero is a huge one when cast to u128, *)
(* and leaves no health at all.                                            *)
LoanHealth(loan) ==
  IF Debt(loan) = 0 THEN 10000
  ELSE IF Debt(loan) < 0 THEN 0
  ELSE (loan.collateral_amount * 10000) \div Debt(loan)

MaxAdditionalBorrow(loan) ==
  SaturatingSub((loan.collateral_amount * 10000) \div LoanRatio, Debt(loan))

ExtensionFee(loan) == Share(Debt(loan), EXTENSION_FEE_BPS)

IsBorrowingAdmin(caller) == <<caller, "Admin">> \in borrow_roles

Holds(account, t, amount) == purse[t][account] >= amount

Moved(t, from, to, amount) == [purse EXCEPT ![t] = Transfer(@, from, to, amount)]

BorrowingInit ==
  /\ borrow_roles = {<<BorrowingAdmin, "Admin">>}
  /\ borrow_paused = FALSE
  /\ accepted = {}
  /\ global_pause = FALSE
  /\ vault_pause = {}
  /\ contracts = << >>
  /\ auctions = EmptyMap
  /\ purse = [t \in Collaterals |->
                [a \in Account \cup {Desk} |-> IF a = Desk THEN 0 ELSE Purse[t][a]]]

-----------------------------------------------------------------------------
(* Loans. *)

CreateLoan(borrower, principal, due_date, t, collateral) ==
  /\ ~borrow_paused
  /\ t \in accepted
  /\ ~global_pause /\ t \notin vault_pause
  /\ collateral >= Share(principal, LoanRatio)
  /\ Holds(borrower, t, collateral)
  /\ purse' = Moved(t, borrower, Desk, collateral)
  /\ contracts' = Append(contracts,
       [borrower |-> borrower, principal |-> principal, due_date |-> due_date,
        amount_repaid |-> 0, collateral_amount |-> collateral, collateral_token |-> t,
        is_active |-> TRUE, extension_count |-> 0])
  /\ UNCHANGED <<borrowingSettings, auctions>>

(* Faulty: the collateral is returned with every repayment. *)
RepayReturning(id, amount) ==
  LET loan == contracts[id] IN
  /\ ~borrow_paused
  /\ Holds(Desk, loan.collateral_token, loan.collateral_amount)
  /\ purse' = Moved(loan.collateral_token, Desk, loan.borrower, loan.collateral_amount)
  /\ contracts' = [contracts EXCEPT
       ![id].amount_repaid = @ + amount,
       ![id].is_active = @ /\ loan.amount_repaid + amount < loan.principal]
  /\ UNCHANGED <<borrowingSettings, auctions>>

(* A loan repaid before may be repaid again: its collateral, which is not  *)
(* set to zero, is returned each time.                                     *)
RepayLoan(id, amount) ==
  /\ ~borrow_paused
  /\ LET loan == contracts[id]
         repaid == loan.amount_repaid + amount
         closed == repaid >= loan.principal
     IN  /\ contracts' = [contracts EXCEPT ![id].amount_repaid = repaid,
                                           ![id].is_active = loan.is_active /\ ~closed]
         /\ IF closed
            THEN /\ Holds(Desk, loan.collateral_token, loan.collateral_amount)
                 /\ purse' = Moved(loan.collateral_token, Desk, loan.borrower,
                                   loan.collateral_amount)
            ELSE UNCHANGED purse
  /\ UNCHANGED <<borrowingSettings, auctions>>

ExtendLoan(id, days) ==
  /\ ~borrow_paused
  /\ LET loan == contracts[id]
     IN  /\ loan.is_active
         /\ loan.extension_count < MAX_EXTENSIONS
         /\ Holds(loan.borrower, loan.collateral_token, ExtensionFee(loan))
         /\ purse' = Moved(loan.collateral_token, loan.borrower, Desk, ExtensionFee(loan))
  /\ contracts' = [contracts EXCEPT ![id].due_date = @ + days, ![id].extension_count = @ + 1]
  /\ UNCHANGED <<borrowingSettings, auctions>>

IncreaseLoanAmount(id, additional) ==
  /\ ~borrow_paused
  /\ contracts[id].is_active
  /\ 0 < additional /\ additional <= MaxAdditionalBorrow(contracts[id])
  /\ contracts' = [contracts EXCEPT ![id].principal = @ + additional]
  /\ UNCHANGED <<borrowingSettings, auctions, purse>>

-----------------------------------------------------------------------------
(* Liquidation. *)

(* Faulty: the loan stays active when its debt has been paid. *)
SeizeKeepingActive(id, liquidator, amount, reward) ==
  LET loan == contracts[id]
  IN  /\ reward <= loan.collateral_amount
      /\ Holds(Desk, loan.collateral_token, reward)
      /\ purse' = Moved(loan.collateral_token, Desk, liquidator, reward)
      /\ contracts' = [contracts EXCEPT ![id].collateral_amount = @ - reward,
                                         ![id].amount_repaid = @ + amount]

(* Faulty: a reward larger than the collateral of the loan is paid. *)
SeizeUncapped(id, liquidator, amount, reward) ==
  LET loan == contracts[id]
  IN  /\ Holds(Desk, loan.collateral_token, reward)
      /\ purse' = Moved(loan.collateral_token, Desk, liquidator, reward)
      /\ contracts' = [contracts EXCEPT
           ![id].collateral_amount = @ - reward,
           ![id].amount_repaid = @ + amount,
           ![id].is_active = @ /\ loan.amount_repaid + amount < loan.principal]

(* Pays a liquidator out of the loan's collateral; what is left of it when *)
(* the debt is paid stays in the contract.                                 *)
Seize(id, liquidator, amount, reward) ==
  LET loan == contracts[id]
  IN  /\ reward <= loan.collateral_amount
      /\ Holds(Desk, loan.collateral_token, reward)
      /\ purse' = Moved(loan.collateral_token, Desk, liquidator, reward)
      /\ contracts' = [contracts EXCEPT
           ![id].collateral_amount = @ - reward,
           ![id].amount_repaid = @ + amount,
           ![id].is_active = @ /\ loan.amount_repaid + amount < loan.principal]

Liquidate(liquidator, id, amount) ==
  /\ ~borrow_paused
  /\ contracts[id].is_active
  /\ 0 < amount /\ amount <= Debt(contracts[id])
  /\ LoanHealth(contracts[id]) < HealthThreshold
  /\ Seize(id, liquidator, amount, amount + Share(amount, LiquidationBonus))
  /\ UNCHANGED <<borrowingSettings, auctions>>

IsAuctioned(id) == id \in DOMAIN auctions /\ auctions[id].status = "Active"

(* Anybody may start one, on the terms he likes. *)
StartLiquidationAuction(id, terms) ==
  /\ Debt(contracts[id]) > 0 /\ contracts[id].is_active
  /\ LoanHealth(contracts[id]) < HealthThreshold
  /\ ~IsAuctioned(id)
  /\ auctions' = Put(auctions, id,
       [start_time |-> clock, duration |-> terms.duration,
        initial_discount_bps |-> terms.initial_discount_bps,
        max_discount_bps |-> terms.max_discount_bps, status |-> "Active",
        winning_bidder |-> Absent, winning_bid_amount |-> 0, locked_discount_bps |-> 0])
  /\ UNCHANGED <<borrowingSettings, contracts, purse>>

(* The discount of an active auction grows from the initial one to the     *)
(* maximum.                                                                *)
LiquidationDiscount(auction) ==
  LET elapsed == SaturatingSub(clock, auction.start_time)
      range   == SaturatingSub(auction.max_discount_bps, auction.initial_discount_bps)
  IN  IF elapsed >= auction.duration THEN auction.max_discount_bps
      ELSE auction.initial_discount_bps + (range * elapsed) \div auction.duration

BidOnLiquidation(bidder, id, amount) ==
  /\ ~borrow_paused
  /\ IsAuctioned(id)
  /\ 0 < amount /\ amount <= Debt(contracts[id])
  /\ auctions[id].winning_bidder = Absent
  /\ auctions' = [auctions EXCEPT ![id].winning_bidder = bidder,
                                  ![id].winning_bid_amount = amount,
                                  ![id].locked_discount_bps = LiquidationDiscount(auctions[id])]
  /\ UNCHANGED <<borrowingSettings, contracts, purse>>

(* The loan may have been repaid or liquidated since the bid: only its     *)
(* recorded collateral is looked at.                                       *)
ExecuteAuction(id) ==
  /\ ~borrow_paused
  /\ IsAuctioned(id)
  /\ auctions[id].winning_bidder # Absent
  /\ LET bid == auctions[id].winning_bid_amount
     IN  Seize(id, auctions[id].winning_bidder, bid,
               bid + Share(bid, auctions[id].locked_discount_bps))
  /\ auctions' = [auctions EXCEPT ![id].status = "Executed"]
  /\ UNCHANGED borrowingSettings

(* Anybody may cancel the auction of a loan that is healthy again. *)
CancelAuction(id) ==
  /\ IsAuctioned(id)
  /\ LoanHealth(contracts[id]) >= HealthThreshold
  /\ auctions' = [auctions EXCEPT ![id].status = "Cancelled"]
  /\ UNCHANGED <<borrowingSettings, contracts, purse>>

-----------------------------------------------------------------------------
(* Settings. *)

SetBorrowingRole(caller, account, role, granted) ==
  /\ IsBorrowingAdmin(caller)
  /\ borrow_roles' = WithRole(borrow_roles, account, role, granted)
  /\ UNCHANGED <<borrow_paused, accepted, global_pause, vault_pause, contracts, auctions, purse>>

SetBorrowingPaused(caller, value) ==
  /\ IsBorrowingAdmin(caller)
  /\ borrow_paused' = value
  /\ UNCHANGED <<borrow_roles, accepted, global_pause, vault_pause, contracts, auctions, purse>>

WhitelistCollateral(caller, t) ==
  /\ IsBorrowingAdmin(caller)
  /\ accepted' = accepted \cup {t}
  /\ UNCHANGED <<borrow_roles, borrow_paused, global_pause, vault_pause, contracts, auctions, purse>>

SetGlobalPause(caller, value) ==
  /\ IsBorrowingAdmin(caller)
  /\ global_pause' = value
  /\ UNCHANGED <<borrow_roles, borrow_paused, accepted, vault_pause, contracts, auctions, purse>>

SetVaultPause(caller, t, value) ==
  /\ IsBorrowingAdmin(caller)
  /\ vault_pause' = IF value THEN vault_pause \cup {t} ELSE vault_pause \ {t}
  /\ UNCHANGED <<borrow_roles, borrow_paused, accepted, global_pause, contracts, auctions, purse>>

-----------------------------------------------------------------------------
ContractNext ==
  \/ \E b \in Account, r \in ContractRequest, days \in ContractDays, t \in Collaterals :
       Len(contracts) < MaxContracts
         /\ CreateLoan(b, r.principal, clock + days, t, r.collateral)
  \/ \E id \in DOMAIN contracts :
       \/ \E amount \in RepayAmount :
            \/ contracts[id].amount_repaid + amount <= 2 * MaxPrincipal /\ RepayLoan(id, amount)
            \/ contracts[id].principal + amount <= MaxPrincipal /\ IncreaseLoanAmount(id, amount)

ExtensionNext ==
  \E id \in DOMAIN contracts, days \in ExtensionDays : ExtendLoan(id, days)

LiquidationNext ==
  \E id \in DOMAIN contracts :
    \/ \E liquidator \in Liquidator, amount \in RepayAmount :
         \/ Liquidate(liquidator, id, amount)
         \/ BidOnLiquidation(liquidator, id, amount)
    \/ \E terms \in AuctionTerms : StartLiquidationAuction(id, terms)
    \/ ExecuteAuction(id)
    \/ CancelAuction(id)

BorrowingSettingsNext ==
  \E caller \in Account :
    \/ \E account \in Account, granted \in BOOLEAN :
         SetBorrowingRole(caller, account, "Admin", granted)
    \/ \E value \in BOOLEAN :
         \/ SetBorrowingPaused(caller, value)
         \/ SetGlobalPause(caller, value)
         \/ \E t \in Collaterals : SetVaultPause(caller, t, value)
    \/ \E t \in Collaterals : WhitelistCollateral(caller, t)

BorrowingNext ==
  \/ (ContractNext \/ ExtensionNext \/ LiquidationNext \/ BorrowingSettingsNext) /\ UNCHANGED clock
  \/ (\E days \in Steps : Tick(days)) /\ UNCHANGED borrowingVars

BorrowingSpec == BorrowingInit /\ clock = 1 /\ [][BorrowingNext]_<<clock, borrowingVars>>

-----------------------------------------------------------------------------
BorrowingTypeOK ==
  /\ borrow_roles \subseteq Account \X Role
  /\ borrow_paused \in BOOLEAN /\ global_pause \in BOOLEAN
  /\ accepted \subseteq Collaterals /\ vault_pause \subseteq Collaterals
  /\ contracts \in Seq(ContractLoan)
  /\ IsMap(auctions, DOMAIN contracts, LiquidationAuction)
  /\ purse \in [Collaterals -> [Account \cup {Desk} -> Nat]]

(* A loan is active exactly as long as it is owed: repayments,             *)
(* liquidations, executed auctions and increases of the principal come in  *)
(* any order, and a closed loan is never open again.                       *)
ActiveMeansOwed ==
  \A id \in DOMAIN contracts : contracts[id].is_active <=> Debt(contracts[id]) > 0

(* The tokens held beyond the collateral of the active loans. *)
Surplus(t) ==
  purse[t][Desk]
    - Total([id \in DOMAIN contracts |->
               IF contracts[id].is_active /\ contracts[id].collateral_token = t
               THEN contracts[id].collateral_amount ELSE 0])

(* Collateral of active loans is paid out for their own loan only.  The    *)
(* two calls that serve a closed loan again pay with other tokens: a       *)
(* repayment of a loan repaid before, and the execution of a bid made      *)
(* before it was.                                                          *)
OthersCollateralIsKept ==
  [][(\A t \in Collaterals : Surplus(t)' >= Surplus(t))
      \/ \E id \in DOMAIN contracts :
           ~contracts[id].is_active /\ contracts[id] # contracts'[id]]_<<clock, borrowingVars>>

=============================================================================
