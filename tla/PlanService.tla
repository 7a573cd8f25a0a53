---------------------------- MODULE PlanService ----------------------------
(***************************************************************************)
(* Plans, claims, KYC, pauses and the jobs that watch the debt of plans    *)
(* (backend/src/service.rs, risk_engine.rs, liquidation_bot.rs,            *)
(* stress_testing.rs).                                                     *)
(*                                                                         *)
(* A plan is a row of the table plans, found by its place in the sequence. *)
(* The contract's side of a plan and the lending events arrive from        *)
(* outside the backend.                                                    *)
(***************************************************************************)
EXTENDS BackendRequests

CONSTANTS
  PlanUser,             \* the users that have plans
  PlanAmount,           \* the net amounts of new plans
  Method,               \* the distribution methods that plans get
  DebtAmount,           \* the amounts of borrow and repay events
  PriceRatio,           \* the collateral prices in percent of the borrow price
  LiquidationThreshold, \* RiskEngine::liquidation_threshold, in percent
  MaxPlans,             \* bound: the plans created
  MaxDebt               \* bound: the debt that events add up to

ASSUME PlanServiceAssumption ==
  /\ PlanUser \subseteq Account
  /\ Method \subseteq {"LumpSum", "Monthly", "Quarterly", "Yearly"}
  /\ PlanAmount \cup DebtAmount \cup PriceRatio \subseteq Nat
  /\ {LiquidationThreshold, MaxPlans, MaxDebt} \subseteq Nat

VARIABLES
  kyc,        \* table kyc_status: the status of the users that have a row
  db_plans,   \* table plans
  db_claims,  \* table claims: the plans with a claim (plan_id is UNIQUE)
  claim_log,  \* the number of PLAN_CLAIMED audit entries of each plan
  debt        \* the sum of the lending events of each plan

planRows == <<db_plans, db_claims, claim_log>>
planServiceVars == <<requests, kyc, planRows, debt>>

KycStatus == {"pending", "approved", "rejected"}

PlanRow ==
  [user : PlanUser, amount : Nat, status : {"pending", "claimed", "deactivated", "liquidated"},
   is_active : BOOLEAN, is_paused : BOOLEAN, is_risky : BOOLEAN, risk_override : BOOLEAN,
   method : Method \cup {Absent}, created_at : Nat]

PlanIds == DOMAIN db_plans

get_kyc_status(user) == Stored(kyc, user, "pending")

is_due_for_claim(plan) ==
  LET elapsed == clock - plan.created_at IN
  \/ plan.method = "LumpSum"
  \/ plan.method = "Monthly"   /\ elapsed >= 30
  \/ plan.method = "Quarterly" /\ elapsed >= 90
  \/ plan.method = "Yearly"    /\ elapsed >= 365

(* InheritanceExecutionSafety::blocking_reason of what its query reads.    *)
Blocked(p) == (db_plans[p].is_risky /\ ~db_plans[p].risk_override) \/ debt[p] > 0

(* Faulty: the claim reads its plan without FOR UPDATE.                    *)
LockedNever(p) == FALSE

(* A claim holds the row of its plan from its SELECT .. FOR UPDATE on.     *)
Locked(p) == \E w \in Worker : At(w, "claim_locked") /\ requests[w].plan = p

UpdateRow(p, row) == ~Locked(p) /\ db_plans' = [db_plans EXCEPT ![p] = row]
-----------------------------------------------------------------------------
submit_kyc(user) ==
  /\ kyc' = Put(kyc, user, get_kyc_status(user))
  /\ UNCHANGED <<requests, planRows, debt>>

update_kyc_status(user, status) ==
  /\ kyc' = Put(kyc, user, status)
  /\ UNCHANGED <<requests, planRows, debt>>

CreatePlanCheck(w, user, amount) ==
  /\ get_kyc_status(user) = "approved"
  /\ Begin(w, [stage |-> "create_plan", user |-> user, amount |-> amount])
  /\ UNCHANGED <<kyc, planRows, debt>>

CreatePlanInsert(w) ==
  /\ At(w, "create_plan")
  /\ Len(db_plans) < MaxPlans
  /\ db_plans' = Append(db_plans,
       [user |-> requests[w].user, amount |-> requests[w].amount, status |-> "pending",
        is_active |-> TRUE, is_paused |-> FALSE, is_risky |-> FALSE, risk_override |-> FALSE,
        method |-> Absent, created_at |-> 0])
  /\ claim_log' = Append(claim_log, 0)
  /\ debt' = Append(debt, 0)
  /\ Finish(w)
  /\ UNCHANGED <<kyc, db_claims>>

(* The contract's part of the row, which no statement of the backend sets. *)
LinkContract(p, method) ==
  /\ db_plans[p].method = Absent
  /\ UpdateRow(p, [db_plans[p] EXCEPT !.method = method, !.created_at = clock])
  /\ UNCHANGED <<requests, kyc, db_claims, claim_log, debt>>

ClaimCheck(w, p) ==
  /\ get_kyc_status(db_plans[p].user) = "approved"
  /\ Begin(w, [stage |-> "claim", plan |-> p])
  /\ UNCHANGED <<kyc, planRows, debt>>

(* Neither is_active nor the status deactivated is looked at.              *)
Claimable(p) ==
  /\ ~db_plans[p].is_paused
  /\ db_plans[p].status # "claimed"
  /\ is_due_for_claim(db_plans[p])
  /\ ~Blocked(p)

ClaimLock(w) ==
  /\ At(w, "claim")
  /\ ~Locked(requests[w].plan)
  /\ Claimable(requests[w].plan)
  /\ Continue(w, [stage |-> "claim_locked", plan |-> requests[w].plan])
  /\ UNCHANGED <<kyc, planRows, debt>>

WithClaim(p, unique) ==
  /\ unique => p \notin db_claims
  /\ db_claims' = db_claims \cup {p}
  /\ db_plans' = [db_plans EXCEPT ![p].status = "claimed"]
  /\ claim_log' = [claim_log EXCEPT ![p] = @ + 1]

(* Faulty: claims has no UNIQUE(plan_id).                                  *)
InsertAnyClaim(p) == WithClaim(p, FALSE)

InsertClaim(p) == WithClaim(p, TRUE)

ClaimCommit(w) ==
  /\ At(w, "claim_locked")
  /\ InsertClaim(requests[w].plan)
  /\ Finish(w)
  /\ UNCHANGED <<kyc, debt>>

CancelCheck(w, p) ==
  /\ db_plans[p].status \notin {"deactivated", "claimed"}
  /\ Begin(w, [stage |-> "cancel", plan |-> p])
  /\ UNCHANGED <<kyc, planRows, debt>>

CancelWrite(w) ==
  /\ At(w, "cancel")
  /\ LET p == requests[w].plan IN
     UpdateRow(p, [db_plans[p] EXCEPT !.status = "deactivated", !.is_active = FALSE])
  /\ Finish(w)
  /\ UNCHANGED <<kyc, db_claims, claim_log, debt>>

(* get_due_for_claim_plan_by_id, and the lists made the same way.          *)
DueForClaim(p) ==
  /\ db_plans[p].is_active
  /\ db_plans[p].status \notin {"claimed", "deactivated"}
  /\ is_due_for_claim(db_plans[p])
  /\ p \notin db_claims
  /\ ~Blocked(p)

DuePlans == {p \in PlanIds : DueForClaim(p)}
-----------------------------------------------------------------------------
PauseCheck(w, p) ==
  /\ ~db_plans[p].is_paused
  /\ Begin(w, [stage |-> "pause", plan |-> p])
  /\ UNCHANGED <<kyc, planRows, debt>>

PauseWrite(w) ==
  /\ At(w, "pause")
  /\ LET p == requests[w].plan IN UpdateRow(p, [db_plans[p] EXCEPT !.is_paused = TRUE])
  /\ Finish(w)
  /\ UNCHANGED <<kyc, db_claims, claim_log, debt>>

UnpauseCheck(w, p) ==
  /\ db_plans[p].is_paused
  /\ Begin(w, [stage |-> "unpause", plan |-> p])
  /\ UNCHANGED <<kyc, planRows, debt>>

UnpauseWrite(w) ==
  /\ At(w, "unpause")
  /\ LET p == requests[w].plan IN UpdateRow(p, [db_plans[p] EXCEPT !.is_paused = FALSE])
  /\ Finish(w)
  /\ UNCHANGED <<kyc, db_claims, claim_log, debt>>

set_risk_override(p, enabled) ==
  /\ UpdateRow(p, [db_plans[p] EXCEPT !.risk_override = enabled])
  /\ UNCHANGED <<requests, kyc, db_claims, claim_log, debt>>

(* The events of a loan, which the contracts' side inserts.                *)
RecordEvent(p, change) ==
  /\ debt[p] + change <= MaxDebt /\ (change < 0 => debt[p] + change >= 0)
  /\ debt' = [debt EXCEPT ![p] = @ + change]
  /\ UNCHANGED <<requests, kyc, planRows>>

(* A job reads its rows at once and then goes through them one by one.     *)
Job(w, stage, rows) ==
  /\ \A v \in Worker : ~At(v, stage)
  /\ rows # {}
  /\ Begin(w, [stage |-> stage, rows |-> rows])
  /\ UNCHANGED <<kyc, planRows, debt>>

JobRow(w, stage, row) ==
  /\ At(w, stage)
  /\ row \in requests[w].rows
  /\ IF requests[w].rows = {row} THEN Finish(w)
     ELSE Continue(w, [requests[w] EXCEPT !.rows = @ \ {row}])

RiskScan(w) ==
  Job(w, "risk", {[plan |-> p, debt |-> debt[p], override |-> db_plans[p].risk_override] :
                  p \in {q \in PlanIds : debt[q] > 0 /\ ~db_plans[q].is_paused}})

RiskWrite(w, row, ratio) ==
  /\ JobRow(w, "risk", row)
  /\ UpdateRow(row.plan, [db_plans[row.plan] EXCEPT !.is_risky =
       ~row.override /\ db_plans[row.plan].amount * ratio < LiquidationThreshold * row.debt])
  /\ UNCHANGED <<kyc, db_claims, claim_log, debt>>

LiquidationScan(w) ==
  Job(w, "liquidate", {[plan |-> p, debt |-> debt[p]] :
        p \in {q \in PlanIds : db_plans[q].is_risky /\ db_plans[q].status # "liquidated" /\ debt[q] > 0}})

LiquidatePlan(w, row) ==
  /\ JobRow(w, "liquidate", row)
  /\ UpdateRow(row.plan, [db_plans[row.plan] EXCEPT !.status = "liquidated"])
  /\ debt' = [debt EXCEPT ![row.plan] = @ - row.debt]
  /\ UNCHANGED <<kyc, db_claims, claim_log>>

simulate_mass_default ==
  /\ \A p \in PlanIds : ~Locked(p)
  /\ db_plans' = [p \in PlanIds |-> [db_plans[p] EXCEPT !.is_risky = @ \/ ~db_plans[p].is_paused]]
  /\ UNCHANGED <<requests, kyc, db_claims, claim_log, debt>>
-----------------------------------------------------------------------------
PlanServiceInit ==
  /\ RequestsInit
  /\ kyc = EmptyMap
  /\ db_plans = <<>>
  /\ db_claims = {}
  /\ claim_log = <<>>
  /\ debt = <<>>

KycNext ==
  \E user \in PlanUser :
    \/ submit_kyc(user)
    \/ \E status \in KycStatus : update_kyc_status(user, status)

ClaimNext ==
  \E w \in Worker :
    \/ \E user \in PlanUser, amount \in PlanAmount : CreatePlanCheck(w, user, amount)
    \/ CreatePlanInsert(w)
    \/ \E p \in PlanIds : ClaimCheck(w, p) \/ CancelCheck(w, p)
    \/ ClaimLock(w) \/ ClaimCommit(w) \/ CancelWrite(w)

RollBackNext ==
  /\ \E w \in Worker : RollBack(w)
  /\ UNCHANGED <<kyc, planRows, debt>>

LedgerEvents ==
  \E p \in PlanIds :
    \/ \E method \in Method : LinkContract(p, method)
    \/ \E amount \in DebtAmount : RecordEvent(p, amount) \/ RecordEvent(p, -amount)

FreezeNext ==
  \/ \E w \in Worker :
       \/ \E p \in PlanIds : PauseCheck(w, p) \/ UnpauseCheck(w, p)
       \/ PauseWrite(w) \/ UnpauseWrite(w)
  \/ \E p \in PlanIds, enabled \in BOOLEAN : set_risk_override(p, enabled)

WatchNext ==
  \/ \E w \in Worker :
       \/ RiskScan(w) \/ LiquidationScan(w)
       \/ At(w, "risk") /\ \E row \in requests[w].rows, ratio \in PriceRatio : RiskWrite(w, row, ratio)
       \/ At(w, "liquidate") /\ \E row \in requests[w].rows : LiquidatePlan(w, row)
  \/ simulate_mass_default

PlanServiceNext == KycNext \/ ClaimNext \/ RollBackNext \/ LedgerEvents \/ FreezeNext \/ WatchNext

PlanServiceSpec ==
  PlanServiceInit /\ clock = 1 /\ [][(PlanServiceNext /\ UNCHANGED clock) \/
                        ((\E d \in Steps : Tick(d)) /\ UNCHANGED planServiceVars)]_<<clock, planServiceVars>>
-----------------------------------------------------------------------------
(* The state has its type.                                                 *)
PlanServiceTypeOK ==
  /\ IsMap(kyc, PlanUser, KycStatus)
  /\ db_plans \in Seq(PlanRow)
  /\ db_claims \subseteq PlanIds
  /\ claim_log \in Seq(Nat) /\ Len(claim_log) = Len(db_plans)
  /\ debt \in Seq(Int) /\ Len(debt) = Len(db_plans)

(* A plan is paid out at most once, although a cancellation that was under *)
(* way and the liquidation bot write over the status claimed; and a plan   *)
(* listed as due is one a claim would be granted for, unless it is paused: *)
(* one that has been paid out is not offered again.                        *)
PaidOutOnce ==
  /\ \A p \in PlanIds : claim_log[p] <= 1
  /\ \A p \in DuePlans : ~db_plans[p].is_paused => Claimable(p) /\ p \notin db_claims

(* No claim is committed for a plan that is paused or flagged at that      *)
(* moment: the administrator's and the monitor's UPDATE wait for the row.  *)
FrozenIsNotClaimed ==
  [][\A p \in db_claims' \ db_claims :
       ~db_plans[p].is_paused /\ (db_plans[p].is_risky => db_plans[p].risk_override)]_planServiceVars
=============================================================================
