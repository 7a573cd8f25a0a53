---------------------------- MODULE LoanService ----------------------------
(***************************************************************************)
(* Loans recorded against plans, their collateral, and the insurance fund  *)
(* (backend/src/loan_lifecycle.rs, collateral_management.rs,               *)
(* insurance_fund.rs).  A repayment, a liquidation or a change of          *)
(* collateral reads its loan with FOR UPDATE and is one action.            *)
(***************************************************************************)
EXTENDS PlanService

CONSTANTS
  LoanAsset,        \* the assets that are collateral; debts are in the first
  DebtAsset,        \* the asset borrowed
  LoanTerms,        \* [principal, collateral, asset, days] of new loans
  LoanPayment,      \* the amounts repaid
  CollateralAmount, \* the amounts of collateral added, removed or swapped in
  AssetPrice,       \* the prices the price feed reports
  FundAmount,       \* the amounts contributed, earned and charged
  InsuredAmount,    \* the amounts claimed
  ApprovedAmount,   \* the amounts an admin approves in their place, of any sign
  MaxLoans,         \* bound: the loans created
  MaxCollateral,    \* bound: the collateral of a loan
  MaxFund,          \* bound: the reserves of the fund
  MaxInsuranceClaims,\* bound: the claims on the fund
  MaxPayouts        \* bound: the payments out of the fund

ASSUME LoanServiceAssumption ==
  /\ DebtAsset \in LoanAsset
  /\ \A t \in LoanTerms :
       t.principal \in Nat \ {0} /\ t.collateral \in Nat \ {0} /\ t.asset \in LoanAsset /\ t.days \in Nat
  /\ LoanPayment \cup CollateralAmount \cup AssetPrice \cup FundAmount \cup InsuredAmount \subseteq Nat \ {0}
  /\ ApprovedAmount \subseteq Int
  /\ {MaxLoans, MaxCollateral, MaxFund, MaxInsuranceClaims, MaxPayouts} \subseteq Nat

VARIABLES
  db_loans,    \* table loan_lifecycle
  loan_opening,\* the collateral each loan was created with
  deposits,    \* the sum of the deposit events of each asset
  price,       \* what the price feed answers
  fund,        \* the row of insurance_fund
  fund_claims, \* table insurance_claims
  fund_payouts \* the payouts of table insurance_fund_transactions

loanRows == <<db_loans, loan_opening, deposits>>
fundRows == <<fund, fund_claims, fund_payouts>>
loanServiceVars == <<planServiceVars, loanRows, price, fundRows>>

LoanStatus == {"active", "repaid", "overdue", "liquidated"}

LoanRow ==
  [plan : Nat \cup {Absent}, asset : LoanAsset, principal : Nat, collateral : Nat,
   amount_repaid : Nat, status : LoanStatus, due_date : Nat]

FundStatus == {"healthy", "warning", "critical", "insolvent"}

LoanIdsInDb == DOMAIN db_loans

(* The join with plans of the statements that lock a loan.                 *)
PlanIsOpen(loan) == loan.plan # Absent => ~db_plans[loan.plan].is_paused /\ ~Locked(loan.plan)

Update(id, row) == db_loans' = [db_loans EXCEPT ![id] = row]
-----------------------------------------------------------------------------
CreateLoanCheck(w, plan, terms) ==
  /\ terms.days > 0
  /\ plan # Absent => ~db_plans[plan].is_paused
  /\ Begin(w, [stage |-> "create_loan", plan |-> plan, terms |-> terms, due |-> clock + terms.days])
  /\ UNCHANGED <<kyc, planRows, debt, loanRows, price, fundRows>>

CreateLoanInsert(w) ==
  /\ At(w, "create_loan")
  /\ Len(db_loans) < MaxLoans
  /\ LET terms == requests[w].terms IN
     /\ db_loans' = Append(db_loans,
          [plan |-> requests[w].plan, asset |-> terms.asset, principal |-> terms.principal,
           collateral |-> terms.collateral, amount_repaid |-> 0, status |-> "active",
           due_date |-> requests[w].due])
     /\ loan_opening' = Append(loan_opening, [asset |-> terms.asset, amount |-> terms.collateral])
  /\ Finish(w)
  /\ UNCHANGED <<kyc, planRows, debt, deposits, price, fundRows>>

repay_loan(id, amount) ==
  LET loan == db_loans[id]
      repaid == loan.amount_repaid + amount
  IN /\ PlanIsOpen(loan)
     /\ loan.status \notin {"repaid", "liquidated"}
     /\ Update(id, [loan EXCEPT !.amount_repaid = repaid,
                                !.status = IF repaid >= loan.principal THEN "repaid" ELSE @])
     /\ UNCHANGED <<planServiceVars, loan_opening, deposits, price, fundRows>>

liquidate_loan(id) ==
  /\ db_loans[id].status \notin {"repaid", "liquidated"}
  /\ Update(id, [db_loans[id] EXCEPT !.status = "liquidated"])
  /\ UNCHANGED <<planServiceVars, loan_opening, deposits, price, fundRows>>

Overdue(loan) == loan.status = "active" /\ loan.due_date < clock

mark_overdue_loans ==
  /\ db_loans' = [id \in LoanIdsInDb |->
                    IF Overdue(db_loans[id]) THEN [db_loans[id] EXCEPT !.status = "overdue"]
                    ELSE db_loans[id]]
  /\ UNCHANGED <<planServiceVars, loan_opening, deposits, price, fundRows>>
-----------------------------------------------------------------------------
(* A health factor of at least 1.5; a loan without debt has Decimal::MAX.  *)
HealthyWith(loan, asset, amount) ==
  LET owed == loan.principal - loan.amount_repaid IN
  owed <= 0 \/ 2 * amount * price[asset] >= 3 * owed * price[DebtAsset]

Changeable(loan) == PlanIsOpen(loan) /\ loan.status = "active"

(* What emit_deposit records: the sum of the events of each asset.         *)
Deposited(events, asset, amount) == [events EXCEPT ![asset] = @ + amount]

add_collateral(id, amount) ==
  /\ Changeable(db_loans[id])
  /\ db_loans[id].collateral + amount <= MaxCollateral
  /\ Update(id, [db_loans[id] EXCEPT !.collateral = @ + amount])
  /\ deposits' = Deposited(deposits, db_loans[id].asset, amount)
  /\ UNCHANGED <<planServiceVars, loan_opening, price, fundRows>>

remove_collateral(id, amount) ==
  LET loan == db_loans[id] IN
  /\ Changeable(loan)
  /\ amount <= loan.collateral
  /\ HealthyWith(loan, loan.asset, loan.collateral - amount)
  /\ Update(id, [loan EXCEPT !.collateral = @ - amount])
  /\ deposits' = Deposited(deposits, loan.asset, -amount)
  /\ UNCHANGED <<planServiceVars, loan_opening, price, fundRows>>

(* Faulty: the event of the collateral given back is forgotten.            *)
SwapWithoutReturn(loan, asset, amount) == Deposited(deposits, asset, amount)

SwapEvents(loan, asset, amount) ==
  Deposited(Deposited(deposits, loan.asset, -loan.collateral), asset, amount)

swap_collateral(id, asset, amount) ==
  LET loan == db_loans[id] IN
  /\ Changeable(loan)
  /\ HealthyWith(loan, asset, amount)
  /\ Update(id, [loan EXCEPT !.asset = asset, !.collateral = amount])
  /\ deposits' = SwapEvents(loan, asset, amount)
  /\ UNCHANGED <<planServiceVars, loan_opening, price, fundRows>>

update_price(asset, value) ==
  /\ price' = [price EXCEPT ![asset] = value]
  /\ UNCHANGED <<planServiceVars, loanRows, fundRows>>
-----------------------------------------------------------------------------
(* Record_transaction commits on its own; the CHECKs of the table keep the *)
(* reserves at or above zero.                                              *)
FundAfter(kind, amount) ==
  CASE kind = "contribution" -> [fund EXCEPT !.reserves = @ + amount, !.contributions = @ + amount]
    [] kind = "yield"        -> [fund EXCEPT !.reserves = @ + amount, !.yield = @ + amount]
    [] kind = "payout"       -> [fund EXCEPT !.reserves = @ - amount, !.payouts = @ + amount]
    [] OTHER                 -> [fund EXCEPT !.reserves = @ - amount]

RecordTransaction(kind, amount) ==
  /\ FundAfter(kind, amount).reserves \in 0 .. MaxFund
  /\ fund' = FundAfter(kind, amount)

FundTransaction(kind, amount) ==
  /\ fund.contributions + fund.yield + amount <= MaxFund \/ kind = "fee"
  /\ RecordTransaction(kind, amount)
  /\ UNCHANGED <<planServiceVars, loanRows, price, fund_claims, fund_payouts>>

create_insurance_claim(amount) ==
  /\ Len(fund_claims) < MaxInsuranceClaims
  /\ fund_claims' = Append(fund_claims, [status |-> "pending", claimed |-> amount, payout |-> 0])
  /\ UNCHANGED <<planServiceVars, loanRows, price, fund, fund_payouts>>

(* The row of a claim is held by the payout that is under way.             *)
Pays(w, id) == At(w, "payout") /\ requests[w].claim = id

ClaimHeld(id) == \E w \in Worker : Pays(w, id)

(* The amount approved is that of the admin's request or the one claimed.  *)
(* Neither the handler nor a CHECK of the table looks at its sign.         *)
process_claim(id, approved, amount) ==
  /\ ~ClaimHeld(id)
  /\ fund_claims[id].status = "pending"
  /\ fund_claims' = [fund_claims EXCEPT
       ![id].status = IF approved THEN "approved" ELSE "rejected",
       ![id].payout = IF approved THEN amount ELSE 0]
  /\ UNCHANGED <<planServiceVars, loanRows, price, fund, fund_payouts>>

(* The row of the transaction names the claim in its metadata.             *)
PayFromFund(id) ==
  /\ RecordTransaction("payout", fund_claims[id].payout)
  /\ fund_payouts' = Append(fund_payouts, [claim |-> id, amount |-> fund_claims[id].payout])

PayoutFund(w, id) ==
  /\ ~ClaimHeld(id)
  /\ fund_claims[id].status = "approved"
  /\ Len(fund_payouts) < MaxPayouts
  /\ PayFromFund(id)
  /\ Begin(w, [stage |-> "payout", claim |-> id])
  /\ UNCHANGED <<kyc, planRows, debt, loanRows, price, fund_claims>>

PayoutMark(w) ==
  /\ At(w, "payout")
  /\ fund_claims' = [fund_claims EXCEPT ![requests[w].claim].status = "paid"]
  /\ Finish(w)
  /\ UNCHANGED <<kyc, planRows, debt, loanRows, price, fund, fund_payouts>>

(* Only the loans that are active count, although overdue ones are read.   *)
CoveredLiabilities == Total([id \in {i \in LoanIdsInDb : db_loans[i].status = "active"} |-> db_loans[id].principal])

(* Thresholds 0.5, 1.0 and 1.5, the defaults of the table; a fund without  *)
(* liabilities has the ratio 9999.                                         *)
determine_status(reserves, liabilities) ==
  IF liabilities = 0 \/ 2 * reserves >= 3 * liabilities THEN "healthy"
  ELSE IF reserves >= liabilities THEN "warning"
  ELSE IF 2 * reserves >= liabilities THEN "critical" ELSE "insolvent"

MetricsRead(w) ==
  /\ Begin(w, [stage |-> "metrics", reserves |-> fund.reserves])
  /\ UNCHANGED <<kyc, planRows, debt, loanRows, price, fundRows>>

MetricsWrite(w) ==
  /\ At(w, "metrics")
  /\ fund' = [fund EXCEPT !.status = determine_status(requests[w].reserves, CoveredLiabilities)]
  /\ Finish(w)
  /\ UNCHANGED <<kyc, planRows, debt, loanRows, price, fund_claims, fund_payouts>>
-----------------------------------------------------------------------------
LoanServiceInit ==
  /\ db_loans = <<>>
  /\ loan_opening = <<>>
  /\ deposits = [a \in LoanAsset |-> 0]
  /\ price \in [LoanAsset -> AssetPrice]
  /\ fund = [reserves |-> 0, contributions |-> 0, payouts |-> 0, yield |-> 0, status |-> "healthy"]
  /\ fund_claims = <<>>
  /\ fund_payouts = <<>>

LoanRequestNext ==
  \E w \in Worker :
    \/ \E plan \in PlanIds \cup {Absent}, terms \in LoanTerms : CreateLoanCheck(w, plan, terms)
    \/ CreateLoanInsert(w)

LoanRowNext ==
  \/ \E id \in LoanIdsInDb :
       \/ \E amount \in LoanPayment : repay_loan(id, amount)
       \/ liquidate_loan(id)
       \/ \E amount \in CollateralAmount :
            \/ add_collateral(id, amount)
            \/ remove_collateral(id, amount)
            \/ \E asset \in LoanAsset : swap_collateral(id, asset, amount)
  \/ mark_overdue_loans
  \/ \E asset \in LoanAsset, value \in AssetPrice : update_price(asset, value)

FundNext ==
  \/ \E kind \in {"contribution", "yield", "fee"}, amount \in FundAmount : FundTransaction(kind, amount)
  \/ \E amount \in InsuredAmount : create_insurance_claim(amount)
  \/ \E id \in DOMAIN fund_claims, approved \in BOOLEAN :
       \E amount \in ApprovedAmount \cup {fund_claims[id].claimed} : process_claim(id, approved, amount)
  \/ \E w \in Worker :
       \/ \E id \in DOMAIN fund_claims : PayoutFund(w, id)
       \/ PayoutMark(w) \/ MetricsRead(w) \/ MetricsWrite(w)

LoanServiceNext ==
  \/ LoanRequestNext \/ LoanRowNext \/ FundNext
  \/ PlanServiceNext /\ UNCHANGED <<loanRows, price, fundRows>>

LoanServiceSpec ==
  PlanServiceInit /\ LoanServiceInit /\ clock = 1 /\
  [][(LoanServiceNext /\ UNCHANGED clock) \/
     ((\E d \in Steps : Tick(d)) /\ UNCHANGED loanServiceVars)]_<<clock, loanServiceVars>>
-----------------------------------------------------------------------------
(* The state has its type.                                                 *)
LoanServiceTypeOK ==
  /\ db_loans \in Seq(LoanRow)
  /\ \A id \in LoanIdsInDb : db_loans[id].plan \in PlanIds \cup {Absent}
  /\ loan_opening \in Seq([asset : LoanAsset, amount : Nat])
  /\ deposits \in [LoanAsset -> Int]
  /\ price \in [LoanAsset -> AssetPrice]
  /\ fund \in [reserves : Nat, contributions : Nat, payouts : Int, yield : Nat, status : FundStatus]
  /\ fund_claims \in Seq([status : {"pending", "approved", "rejected", "paid"}, claimed : Nat, payout : Int])
  /\ fund_payouts \in Seq([claim : DOMAIN fund_claims, amount : Int])

(* A loan is repaid exactly when its payments reach the principal, and     *)
(* neither the overdue sweep nor a liquidation takes that back.            *)
RepaidIsFinal ==
  \A id \in LoanIdsInDb :
    db_loans[id].status = "repaid" <=> db_loans[id].amount_repaid >= db_loans[id].principal

(* The deposit events account for the collateral of all loans: what they   *)
(* were created with plus the events of an asset is what they hold of it.  *)
EventsExplainCollateral ==
  \A a \in LoanAsset :
    Total([id \in {i \in LoanIdsInDb : db_loans[i].asset = a} |-> db_loans[id].collateral])
      = deposits[a] + Total([id \in {i \in LoanIdsInDb : loan_opening[i].asset = a} |-> loan_opening[id].amount])

(* Whatever amounts are approved, of either sign, and wherever a payout    *)
(* fails between its two commits: the fund's total is that of the payments *)
(* recorded, which are of claims that were approved and of their amounts;  *)
(* every claim marked paid has one; while a handler is between a payment   *)
(* and its mark, no other pays the claim; and the fund has never paid what *)
(* it did not have.                                                        *)
PaidClaimsAreFunded ==
  /\ fund.payouts = Total([n \in DOMAIN fund_payouts |-> fund_payouts[n].amount])
  /\ \A n \in DOMAIN fund_payouts :
       LET claim == fund_claims[fund_payouts[n].claim]
       IN  claim.status \in {"approved", "paid"} /\ fund_payouts[n].amount = claim.payout
  /\ \A id \in DOMAIN fund_claims :
       /\ fund_claims[id].status = "paid" \/ ClaimHeld(id) =>
            \E n \in DOMAIN fund_payouts : fund_payouts[n].claim = id
       /\ \A v, w \in Worker : Pays(v, id) /\ Pays(w, id) => v = w
  /\ fund.reserves + fund.payouts <= fund.contributions + fund.yield

(* The rows of the loans, of their events and of the fund tell one story,  *)
(* in whatever order repayments, sweeps, swaps and payouts commit.         *)
LoanRowsAgree == RepaidIsFinal /\ EventsExplainCollateral /\ PaidClaimsAreFunded
=============================================================================
