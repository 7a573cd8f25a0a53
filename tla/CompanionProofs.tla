--------------------------- MODULE CompanionProofs --------------------------
(***************************************************************************)
(* The companions of the inheritance contract, for any accounts, amounts   *)
(* and numbers of requests.  The backend's services against concurrent     *)
(* requests: a signing challenge binds one signature, a plan is paid out   *)
(* once and never while it is frozen, and a session outlives its grant     *)
(* only when it was requested before the revocation.  The borrowing        *)
(* contract, whose loans are active exactly as long as they are owed, and  *)
(* the governance contract: the outcome of a vote is settled at its end,   *)
(* and delegations lead nowhere back.  The keys messages are sealed with,  *)
(* and what the rows of loans, their events and the insurance fund tell.   *)
(* Last, the types of each part.                                           *)
(***************************************************************************)
EXTENDS WillService, LoanService, AccessService, MessageService, BorrowingContract,
        GovernanceContract, CircuitBreaker, IterationLemmas

-----------------------------------------------------------------------------
(* Requests: the handler of one worker goes on, the others stay where they *)
(* are.                                                                    *)

Workers == requests = [w \in Worker |-> requests[w]]

(* No handler reaches the stage in this step. *)
NoneReaches(mark) == \A w \in Worker : At(w, mark)' => requests'[w] = requests[w]

(* A handler that does not reach the stage. *)
LEMMA OtherStage ==
  ASSUME Workers, NEW w \in Worker, NEW r, requests' = [requests EXCEPT ![w] = r],
         NEW mark, r = Absent \/ r.stage # mark
  PROVE  Workers' /\ NoneReaches(mark)
<1>1. \A v \in Worker : requests'[v] = IF v = w THEN r ELSE requests[v]
  BY DEF Workers
<1>2. requests' = [v \in Worker |-> requests'[v]]
  BY DEF Workers
<1> QED BY <1>1, <1>2 DEF Workers, NoneReaches, At

(* A step of no handler. *)
LEMMA NoHandler ==
  ASSUME Workers, UNCHANGED requests, NEW mark
  PROVE  Workers' /\ NoneReaches(mark)
BY DEF Workers, NoneReaches

-----------------------------------------------------------------------------
(* Signing challenges.  The inductive invariant: the challenges of the     *)
(* signatures are used up, those of the handlers that hold one are not,    *)
(* and no two handlers hold the same.                                      *)

ChallengeTyped ==
  /\ IsSeq(challenges) /\ IsSeq(will_signatures)
  /\ \A c \in DOMAIN challenges : "used" \in DOMAIN challenges[c]

ChallengeInv ==
  /\ Workers
  /\ ChallengeTyped
  /\ \A i \in DOMAIN will_signatures :
       will_signatures[i] \in DOMAIN challenges /\ challenges[will_signatures[i]].used
  /\ \A w \in Worker : At(w, "verify") =>
       requests[w].challenge \in DOMAIN challenges /\ ~challenges[requests[w].challenge].used
  /\ \A v, w \in Worker :
       At(v, "verify") /\ At(w, "verify") /\ requests[v].challenge = requests[w].challenge => v = w
  /\ ChallengeUsedOnce

(* What the steps do to the challenges: nothing, or one of the three steps *)
(* of signing.                                                             *)
ChallengeStep ==
  \/ UNCHANGED <<challenges, will_signatures>> /\ Workers' /\ NoneReaches("verify")
  \/ \E d \in DOMAIN will_documents : create_challenge(d)
  \/ \E w \in Worker : VerifyStore(w) \/ \E c \in DOMAIN challenges : VerifyLock(w, c) /\ UNCHANGED clock

(* Every step is one of these. *)
LEMMA StepsOfChallenges ==
  ASSUME Workers,
         [(WillServiceNext /\ UNCHANGED clock) \/
          ((\E d \in Steps : Tick(d)) /\ UNCHANGED willServiceVars)]_<<clock, willServiceVars>>
  PROVE  ChallengeStep
<1>1. ASSUME UNCHANGED willServiceVars PROVE ChallengeStep
  BY <1>1, NoHandler DEF ChallengeStep, willServiceVars, willRows
<1>2. ASSUME NEW w \in Worker, NEW r, requests' = [requests EXCEPT ![w] = r],
             r = Absent \/ r.stage # "verify", UNCHANGED <<challenges, will_signatures>>
      PROVE  ChallengeStep
  BY <1>2, OtherStage DEF ChallengeStep
<1>3. ASSUME UNCHANGED <<requests, challenges, will_signatures>> PROVE ChallengeStep
  BY <1>3, NoHandler DEF ChallengeStep
<1>4. ASSUME DocumentNext, UNCHANGED clock PROVE ChallengeStep
  <2>1. ASSUME NEW w \in Worker,
               \/ GenerateRead(w) \/ GenerateInsert(w) \/ FinalizeWrite(w)
               \/ \E d \in DOMAIN will_documents : FinalizeCheck(w, d)
        PROVE  ChallengeStep
    BY <1>2, <2>1
    DEF GenerateRead, GenerateInsert, FinalizeWrite, FinalizeCheck, Begin, Finish, Continue, willRows
  <2> QED BY <1>4, <2>1 DEF DocumentNext, ChallengeStep
<1>5. ASSUME PeopleNext PROVE ChallengeStep
  <2>1. ASSUME NEW w \in Worker,
               \/ \E i \in DOMAIN witnesses : DeclineCheck(w, i)
               \/ \E b \in DOMAIN contingents : RemoveCheck(w, b) \/ PromoteCheck(w, b)
               \/ DeclineWrite(w) \/ RemoveDelete(w) \/ PromoteWrite(w)
        PROVE  ChallengeStep
    BY <1>2, <2>1
    DEF DeclineCheck, RemoveCheck, PromoteCheck, DeclineWrite, RemoveDelete, PromoteWrite,
        Begin, Finish, Continue, willRows
  <2>2. ASSUME \/ \E d \in DOMAIN will_documents : invite_witness(d)
               \/ \E i \in DOMAIN witnesses : sign_as_witness(i)
               \/ add_contingent_beneficiary
        PROVE  ChallengeStep
    BY <1>3, <2>2 DEF invite_witness, sign_as_witness, add_contingent_beneficiary, willRows
  <2> QED BY <1>5, <2>1, <2>2 DEF PeopleNext
<1>6. ASSUME NEW w \in Worker, RollBack(w), UNCHANGED <<willRows, contingentRows>>
      PROVE  ChallengeStep
  BY <1>2, <1>6 DEF RollBack, Finish, Continue, willRows
<1> QED BY <1>1, <1>4, <1>5, <1>6 DEF WillServiceNext, willServiceVars

(* Each of them keeps the invariant. *)
LEMMA ChallengeInvKept ==
  ASSUME ChallengeInv, ChallengeStep
  PROVE  ChallengeInv'
<1> USE DEF ChallengeInv
<1>1. CASE UNCHANGED <<challenges, will_signatures>> /\ Workers' /\ NoneReaches("verify")
  <2>1. \A w \in Worker : At(w, "verify")' => At(w, "verify") /\ requests'[w] = requests[w]
    BY <1>1 DEF NoneReaches, At
  <2> QED BY <1>1, <2>1 DEF ChallengeTyped, ChallengeUsedOnce
<1>2. ASSUME NEW d, create_challenge(d) PROVE ChallengeInv'
  <2> DEFINE new == [document |-> d, expires_at |-> clock, used |-> FALSE]
  <2>1. challenges' = Append(challenges, new) /\ UNCHANGED <<requests, will_signatures>>
    BY <1>2 DEF create_challenge
  <2>2. Inserted(challenges, new, challenges')
    BY <2>1, AppendedRow DEF ChallengeTyped
  <2>3. ChallengeTyped'
    BY <2>1, <2>2 DEF ChallengeTyped, Inserted
  <2>4. Workers' /\ NoneReaches("verify")
    BY <2>1, NoHandler
  <2> QED BY <2>1, <2>2, <2>3, <2>4 DEF NoneReaches, At, ChallengeUsedOnce, Inserted
<1>3. ASSUME NEW w \in Worker, NEW c \in DOMAIN challenges, VerifyLock(w, c) PROVE ChallengeInv'
  <2>1. /\ ~ChallengeHeld(c) /\ ~challenges[c].used
        /\ requests' = [requests EXCEPT ![w] = [stage |-> "verify", challenge |-> c]]
        /\ UNCHANGED <<challenges, will_signatures>>
    BY <1>3 DEF VerifyLock, Begin, willRows
  <2>2. Workers'
    BY <2>1 DEF Workers
  <2>3. \A v \in Worker : requests'[v] = IF v = w THEN [stage |-> "verify", challenge |-> c] ELSE requests[v]
    BY <2>1 DEF Workers
  <2>4. \A v \in Worker : At(v, "verify") => requests[v].challenge # c
    BY <2>1 DEF ChallengeHeld
  <2>5. \A v \in Worker : At(v, "verify")' =>
          IF v = w THEN requests'[v].challenge = c
          ELSE At(v, "verify") /\ requests'[v].challenge = requests[v].challenge
    BY <2>3 DEF At
  <2> QED BY <2>1, <2>2, <2>4, <2>5 DEF ChallengeTyped, ChallengeUsedOnce
<1>4. ASSUME NEW w \in Worker, VerifyStore(w) PROVE ChallengeInv'
  <2> DEFINE c == requests[w].challenge
  <2>1. /\ At(w, "verify")
        /\ challenges' = [challenges EXCEPT ![c] = [challenges[c] EXCEPT !.used = TRUE]]
        /\ will_signatures' = Append(will_signatures, c)
        /\ requests' = [requests EXCEPT ![w] = Absent]
    BY <1>4 DEF VerifyStore, Finish, Continue
  <2>2. c \in DOMAIN challenges /\ ~challenges[c].used /\ "used" \in DOMAIN challenges[c]
    BY <2>1 DEF ChallengeTyped
  <2>3. Replaced(challenges, c, [challenges[c] EXCEPT !.used = TRUE], challenges')
    BY <2>1, UpdatedRow DEF ChallengeTyped
  <2>4. challenges'[c].used /\ DOMAIN challenges'[c] = DOMAIN challenges[c]
    BY <2>2, <2>3 DEF Replaced
  <2>5. Inserted(will_signatures, c, will_signatures')
    BY <2>1, AppendedRow DEF ChallengeTyped
  <2>6. \A i \in DOMAIN will_signatures : will_signatures[i] # c
    BY <2>2
  <2>7. Workers' /\ NoneReaches("verify")
    BY <2>1, OtherStage
  <2>8. \A v \in Worker : At(v, "verify")' =>
          v # w /\ At(v, "verify") /\ requests'[v] = requests[v] /\ requests[v].challenge # c
    BY <2>1, <2>7 DEF NoneReaches, At, Workers
  <2>9. ChallengeTyped'
    BY <2>3, <2>4, <2>5 DEF ChallengeTyped, Inserted, Replaced
  <2>10. ChallengeUsedOnce'
    BY <2>5, <2>6 DEF ChallengeUsedOnce, Inserted
  <2>11. \A i \in DOMAIN will_signatures' :
           will_signatures'[i] \in DOMAIN challenges' /\ challenges'[will_signatures'[i]].used
    BY <2>2, <2>3, <2>4, <2>5 DEF Inserted, Replaced
  <2>12. \A v \in Worker : At(v, "verify")' =>
           requests'[v].challenge \in DOMAIN challenges' /\ ~challenges'[requests'[v].challenge].used
    BY <2>3, <2>8 DEF Replaced
  <2>13. \A u, v \in Worker :
           At(u, "verify")' /\ At(v, "verify")' /\ requests'[u].challenge = requests'[v].challenge => u = v
    BY <2>8
  <2> QED BY <2>7, <2>9, <2>10, <2>11, <2>12, <2>13
<1> QED BY <1>1, <1>2, <1>3, <1>4 DEF ChallengeStep

(* However many requests submit a challenge at the same time, it binds one *)
(* signature: the challenge is locked while its flag is read and written.  *)
THEOREM ChallengesBindOnce == WillServiceSpec => []ChallengeUsedOnce
<1>1. RequestsInit /\ WillServiceInit => ChallengeInv
  BY EmptyIsSeq DEF RequestsInit, WillServiceInit, ChallengeInv, Workers, ChallengeTyped, At, ChallengeUsedOnce
<1>2. ChallengeInv /\
      [(WillServiceNext /\ UNCHANGED clock) \/
       ((\E d \in Steps : Tick(d)) /\ UNCHANGED willServiceVars)]_<<clock, willServiceVars>>
      => ChallengeInv'
  <2>1. ChallengeInv => Workers
    BY DEF ChallengeInv
  <2> QED BY <2>1, StepsOfChallenges, ChallengeInvKept
<1>3. ChallengeInv => ChallengeUsedOnce
  BY DEF ChallengeInv
<1> QED BY <1>1, <1>2, <1>3, PTL DEF WillServiceSpec

-----------------------------------------------------------------------------
(* Claims on plans.  The inductive invariant: the log counts the rows of   *)
(* the table claims, a row is held by one handler at most, and while it is *)
(* held its plan is not frozen.                                            *)

Unfrozen(p) == ~db_plans[p].is_paused /\ (db_plans[p].is_risky => db_plans[p].risk_override)

ClaimTyped ==
  /\ IsSeq(db_plans) /\ IsSeq(claim_log) /\ Len(claim_log) = Len(db_plans)
  /\ DOMAIN claim_log = PlanIds /\ db_claims \subseteq PlanIds

LogCountsClaims == \A p \in PlanIds : claim_log[p] = IF p \in db_claims THEN 1 ELSE 0

HeldByOne ==
  \A v, w \in Worker :
    At(v, "claim_locked") /\ At(w, "claim_locked") /\ requests[v].plan = requests[w].plan => v = w

ClaimInv ==
  /\ Workers
  /\ ClaimTyped
  /\ LogCountsClaims
  /\ \A w \in Worker : At(w, "claim") => requests[w].plan \in PlanIds
  /\ \A w \in Worker : At(w, "claim_locked") => requests[w].plan \in PlanIds /\ Unfrozen(requests[w].plan)
  /\ HeldByOne

(* Every other statement leaves the claims and the rows that are held      *)
(* alone.                                                                  *)
NoClaim ==
  /\ UNCHANGED <<claim_log, db_claims>>
  /\ Workers' /\ NoneReaches("claim") /\ NoneReaches("claim_locked")
  /\ IsSeq(db_plans') /\ PlanIds' = PlanIds /\ Len(db_plans') = Len(db_plans)
  /\ \A p \in PlanIds : Locked(p) => db_plans'[p] = db_plans[p]

ClaimStep ==
  \/ NoClaim
  \/ \E w \in Worker :
       \/ CreatePlanInsert(w) \/ ClaimLock(w) \/ ClaimCommit(w)
       \/ \E p \in PlanIds : ClaimCheck(w, p)

(* A handler that leaves the plans as they are. *)
LEMMA HandlerOnly ==
  ASSUME Workers, ClaimTyped, NEW w \in Worker, NEW r, requests' = [requests EXCEPT ![w] = r],
         r = Absent \/ r.stage \notin {"claim", "claim_locked"},
         UNCHANGED planRows
  PROVE  NoClaim
<1>1. Workers' /\ NoneReaches("claim") /\ NoneReaches("claim_locked")
  BY OtherStage
<1> QED BY <1>1 DEF NoClaim, ClaimTyped, planRows, PlanIds

(* A statement of no handler that leaves the plans as they are. *)
LEMMA NoHandlerNoPlan ==
  ASSUME Workers, ClaimTyped, UNCHANGED requests, UNCHANGED planRows
  PROVE  NoClaim
<1>1. Workers' /\ NoneReaches("claim") /\ NoneReaches("claim_locked")
  BY NoHandler
<1> QED BY <1>1 DEF NoClaim, ClaimTyped, planRows, PlanIds

(* An UPDATE of a row, which waits until it is not held. *)
LEMMA RowUpdated ==
  ASSUME ClaimTyped, NEW p, NEW row, UpdateRow(p, row),
         UNCHANGED <<claim_log, db_claims>>,
         Workers', NoneReaches("claim"), NoneReaches("claim_locked")
  PROVE  NoClaim
<1>1. ~Locked(p) /\ db_plans' = [db_plans EXCEPT ![p] = row]
  BY DEF UpdateRow
<1>2. Replaced(db_plans, p, row, db_plans')
  BY <1>1, UpdatedRow DEF ClaimTyped
<1> QED BY <1>1, <1>2 DEF NoClaim, Replaced, PlanIds

(* Every step of the plans, the loans and the fund is one of these. *)
LEMMA StepsOfClaims ==
  ASSUME Workers, ClaimTyped,
         [(LoanServiceNext /\ UNCHANGED clock) \/
          ((\E d \in Steps : Tick(d)) /\ UNCHANGED loanServiceVars)]_<<clock, loanServiceVars>>
  PROVE  ClaimStep
<1>1. ASSUME NEW w \in Worker, NEW r, requests' = [requests EXCEPT ![w] = r],
             r = Absent \/ r.stage \notin {"claim", "claim_locked"}, UNCHANGED planRows
      PROVE  ClaimStep
  BY <1>1, HandlerOnly DEF ClaimStep
<1>2. ASSUME UNCHANGED <<requests, planRows>> PROVE ClaimStep
  BY <1>2, NoHandlerNoPlan DEF ClaimStep
<1>3. ASSUME NEW p, NEW row, UpdateRow(p, row), UNCHANGED <<requests, claim_log, db_claims>>
      PROVE  ClaimStep
  <2>1. Workers' /\ NoneReaches("claim") /\ NoneReaches("claim_locked")
    BY <1>3, NoHandler
  <2> QED BY <1>3, <2>1, RowUpdated DEF ClaimStep
<1>4. ASSUME NEW w \in Worker, NEW r, requests' = [requests EXCEPT ![w] = r],
             r = Absent \/ r.stage \notin {"claim", "claim_locked"},
             NEW p, NEW row, UpdateRow(p, row), UNCHANGED <<claim_log, db_claims>>
      PROVE  ClaimStep
  <2>1. Workers' /\ NoneReaches("claim") /\ NoneReaches("claim_locked")
    BY <1>4, OtherStage
  <2> QED BY <1>4, <2>1, RowUpdated DEF ClaimStep
<1>5. ASSUME LoanRequestNext \/ LoanRowNext \/ FundNext PROVE ClaimStep
  <2>1. ASSUME NEW w \in Worker,
               \/ \E plan \in PlanIds \cup {Absent}, terms \in LoanTerms : CreateLoanCheck(w, plan, terms)
               \/ CreateLoanInsert(w)
               \/ \E id \in DOMAIN fund_claims : PayoutFund(w, id)
               \/ PayoutMark(w) \/ MetricsRead(w) \/ MetricsWrite(w)
        PROVE  ClaimStep
    BY <1>1, <2>1
    DEF CreateLoanCheck, CreateLoanInsert, PayoutFund, PayoutMark, MetricsRead, MetricsWrite,
        Begin, Finish, Continue
  <2>2. ASSUME LoanRowNext PROVE ClaimStep
    BY <1>2, <2>2
    DEF LoanRowNext, repay_loan, liquidate_loan, add_collateral, remove_collateral, swap_collateral,
        mark_overdue_loans, update_price, planServiceVars
  <2>3. ASSUME \/ \E kind \in {"contribution", "yield", "fee"}, amount \in FundAmount : FundTransaction(kind, amount)
               \/ \E amount \in InsuredAmount : create_insurance_claim(amount)
               \/ \E id \in DOMAIN fund_claims, approved \in BOOLEAN :
                    \E amount \in ApprovedAmount \cup {fund_claims[id].claimed} : process_claim(id, approved, amount)
        PROVE  ClaimStep
    BY <1>2, <2>3 DEF FundTransaction, create_insurance_claim, process_claim, planServiceVars
  <2> QED BY <1>5, <2>1, <2>2, <2>3 DEF LoanRequestNext, FundNext
<1>6. ASSUME KycNext \/ LedgerEvents \/ RollBackNext PROVE ClaimStep
  <2>1. ASSUME KycNext PROVE ClaimStep
    BY <1>2, <2>1 DEF KycNext, submit_kyc, update_kyc_status, planRows
  <2>2. ASSUME LedgerEvents PROVE ClaimStep
    BY <1>2, <1>3, <2>2 DEF LedgerEvents, LinkContract, RecordEvent
  <2>3. ASSUME RollBackNext PROVE ClaimStep
    BY <1>1, <2>3 DEF RollBackNext, RollBack, Finish, Continue
  <2> QED BY <1>6, <2>1, <2>2, <2>3
<1>7. ASSUME ClaimNext PROVE ClaimStep
  <2>1. ASSUME NEW w \in Worker,
               \/ \E user \in PlanUser, amount \in PlanAmount : CreatePlanCheck(w, user, amount)
               \/ \E p \in PlanIds : CancelCheck(w, p)
        PROVE  ClaimStep
    BY <1>1, <2>1 DEF CreatePlanCheck, CancelCheck, Begin
  <2>2. ASSUME NEW w \in Worker, CancelWrite(w) PROVE ClaimStep
    BY <1>4, <2>2 DEF CancelWrite, Finish, Continue
  <2> QED BY <1>7, <2>1, <2>2 DEF ClaimNext, ClaimStep
<1>8. ASSUME FreezeNext PROVE ClaimStep
  <2>1. ASSUME NEW w \in Worker, NEW p \in PlanIds, PauseCheck(w, p) \/ UnpauseCheck(w, p) PROVE ClaimStep
    BY <1>1, <2>1 DEF PauseCheck, UnpauseCheck, Begin
  <2>2. ASSUME NEW w \in Worker, PauseWrite(w) \/ UnpauseWrite(w) PROVE ClaimStep
    BY <1>4, <2>2 DEF PauseWrite, UnpauseWrite, Finish, Continue
  <2>3. ASSUME NEW p \in PlanIds, NEW enabled \in BOOLEAN, set_risk_override(p, enabled) PROVE ClaimStep
    BY <1>3, <2>3 DEF set_risk_override
  <2> QED BY <1>8, <2>1, <2>2, <2>3 DEF FreezeNext
<1>9. ASSUME WatchNext PROVE ClaimStep
  <2>1. ASSUME NEW w \in Worker, RiskScan(w) \/ LiquidationScan(w) PROVE ClaimStep
    BY <1>1, <2>1 DEF RiskScan, LiquidationScan, Job, Begin
  <2>2. ASSUME NEW w \in Worker, NEW row, NEW kind \in {"risk", "liquidate"}, JobRow(w, kind, row),
               NEW new, UpdateRow(row.plan, new), UNCHANGED <<claim_log, db_claims>>
        PROVE  ClaimStep
    <3>1. PICK r : requests' = [requests EXCEPT ![w] = r] /\ (r = Absent \/ r.stage \notin {"claim", "claim_locked"})
      <4>1. CASE requests[w].rows = {row}
        BY <2>2, <4>1 DEF JobRow, Finish, Continue
      <4>2. CASE requests[w].rows # {row}
        <5> DEFINE r == [requests[w] EXCEPT !.rows = @ \ {row}]
        <5>1. requests' = [requests EXCEPT ![w] = r]
          BY <2>2, <4>2 DEF JobRow, Continue
        <5>2. r.stage = requests[w].stage
          OBVIOUS
        <5> QED BY <2>2, <5>1, <5>2 DEF JobRow, At
      <4> QED BY <4>1, <4>2
    <3> QED BY <1>4, <2>2, <3>1
  <2>3. ASSUME simulate_mass_default PROVE ClaimStep
    <3>1. Workers' /\ NoneReaches("claim") /\ NoneReaches("claim_locked")
      BY <2>3, NoHandler DEF simulate_mass_default
    <3>2. IsSeq(db_plans') /\ PlanIds' = PlanIds /\ Len(db_plans') = Len(db_plans)
      BY <2>3, UpdatedRows DEF simulate_mass_default, PlanIds, ClaimTyped
    <3> QED BY <2>3, <3>1, <3>2 DEF simulate_mass_default, NoClaim, ClaimStep
  <2> QED BY <1>9, <2>1, <2>2, <2>3 DEF WatchNext, RiskWrite, LiquidatePlan
<1>10. ASSUME UNCHANGED loanServiceVars PROVE ClaimStep
  BY <1>2, <1>10 DEF loanServiceVars, planServiceVars
<1> QED BY <1>5, <1>6, <1>7, <1>8, <1>9, <1>10 DEF LoanServiceNext, PlanServiceNext

(* The step that pays a plan out. *)
LEMMA ClaimCommitted ==
  ASSUME ClaimInv, NEW w \in Worker, ClaimCommit(w)
  PROVE  LET p == requests[w].plan IN
         /\ p \in PlanIds /\ Unfrozen(p) /\ p \notin db_claims
         /\ At(w, "claim_locked")
         /\ db_claims' = db_claims \cup {p}
         /\ Replaced(db_plans, p, [db_plans[p] EXCEPT !.status = "claimed"], db_plans')
         /\ Replaced(claim_log, p, claim_log[p] + 1, claim_log')
         /\ requests' = [requests EXCEPT ![w] = Absent]
<1> DEFINE p == requests[w].plan
<1>1. /\ At(w, "claim_locked") /\ p \notin db_claims
      /\ db_claims' = db_claims \cup {p}
      /\ requests' = [requests EXCEPT ![w] = Absent]
      /\ db_plans' = [db_plans EXCEPT ![p] = [db_plans[p] EXCEPT !.status = "claimed"]]
      /\ claim_log' = [claim_log EXCEPT ![p] = claim_log[p] + 1]
  BY DEF ClaimCommit, InsertClaim, WithClaim, Finish, Continue
<1>2. p \in PlanIds /\ Unfrozen(p)
  BY <1>1 DEF ClaimInv
<1>3. Replaced(db_plans, p, [db_plans[p] EXCEPT !.status = "claimed"], db_plans')
  BY <1>1, UpdatedRow DEF ClaimInv, ClaimTyped
<1>4. Replaced(claim_log, p, claim_log[p] + 1, claim_log')
  BY <1>1, UpdatedRow DEF ClaimInv, ClaimTyped
<1> QED BY <1>1, <1>2, <1>3, <1>4

(* Each step keeps the invariant. *)
LEMMA ClaimInvKept ==
  ASSUME ClaimInv, ClaimStep
  PROVE  ClaimInv'
<1>1. ASSUME NoClaim PROVE ClaimInv'
  <2>1. \A w \in Worker : At(w, "claim")' => At(w, "claim") /\ requests'[w] = requests[w]
    BY <1>1 DEF NoClaim, NoneReaches, At
  <2>2. \A w \in Worker : At(w, "claim_locked")' => At(w, "claim_locked") /\ requests'[w] = requests[w]
    BY <1>1 DEF NoClaim, NoneReaches, At
  <2>3. ASSUME NEW w \in Worker, At(w, "claim_locked")'
        PROVE  requests'[w].plan \in PlanIds' /\ Unfrozen(requests[w].plan)'
    <3>1. At(w, "claim_locked") /\ requests'[w] = requests[w]
      BY <2>2, <2>3
    <3>2. requests[w].plan \in PlanIds /\ Unfrozen(requests[w].plan) /\ Locked(requests[w].plan)
      BY <3>1 DEF ClaimInv, Locked
    <3>3. db_plans'[requests[w].plan] = db_plans[requests[w].plan]
      BY <1>1, <3>2 DEF NoClaim
    <3> QED BY <1>1, <3>1, <3>2, <3>3 DEF NoClaim, Unfrozen
  <2>4. ClaimTyped' /\ LogCountsClaims'
    BY <1>1 DEF NoClaim, ClaimInv, ClaimTyped, LogCountsClaims, PlanIds
  <2>5. HeldByOne'
    BY <2>2 DEF ClaimInv, HeldByOne
  <2> QED BY <1>1, <2>1, <2>2, <2>3, <2>4, <2>5 DEF ClaimInv, NoClaim, Unfrozen
<1>2. ASSUME NEW w \in Worker, CreatePlanInsert(w) PROVE ClaimInv'
  <2>1. /\ claim_log' = Append(claim_log, 0)
        /\ requests' = [requests EXCEPT ![w] = Absent]
        /\ db_claims' = db_claims
    BY <1>2 DEF CreatePlanInsert, Finish, Continue
  <2>2. PICK row : db_plans' = Append(db_plans, row)
    BY <1>2 DEF CreatePlanInsert
  <2>3. Inserted(db_plans, row, db_plans')
    BY <2>2, AppendedRow DEF ClaimInv, ClaimTyped
  <2>4. Inserted(claim_log, 0, claim_log')
    BY <2>1, AppendedRow DEF ClaimInv, ClaimTyped
  <2>5. Workers' /\ NoneReaches("claim") /\ NoneReaches("claim_locked")
    BY <2>1, OtherStage DEF ClaimInv
  <2>6. Len(db_plans') \notin db_claims
    BY <2>3 DEF Inserted, ClaimInv, ClaimTyped, PlanIds
  <2>7. ClaimTyped' /\ LogCountsClaims'
    BY <2>1, <2>3, <2>4, <2>6 DEF Inserted, ClaimInv, ClaimTyped, LogCountsClaims, PlanIds
  <2>8. \A v \in Worker : At(v, "claim")' => At(v, "claim") /\ requests'[v] = requests[v]
    BY <2>5 DEF NoneReaches, At
  <2>9. \A v \in Worker : At(v, "claim_locked")' => At(v, "claim_locked") /\ requests'[v] = requests[v]
    BY <2>5 DEF NoneReaches, At
  <2>10. HeldByOne'
    BY <2>9 DEF ClaimInv, HeldByOne
  <2> QED BY <2>3, <2>5, <2>7, <2>8, <2>9, <2>10 DEF Inserted, ClaimInv, Unfrozen, PlanIds
<1>3. ASSUME NEW w \in Worker, NEW p \in PlanIds, ClaimCheck(w, p) PROVE ClaimInv'
  <2>1. requests' = [requests EXCEPT ![w] = [stage |-> "claim", plan |-> p]] /\ UNCHANGED planRows
    BY <1>3 DEF ClaimCheck, Begin
  <2>2. Workers' /\ NoneReaches("claim_locked")
    <3> DEFINE r == [stage |-> "claim", plan |-> p]
    <3>1. r.stage # "claim_locked" /\ requests' = [requests EXCEPT ![w] = r]
      BY <2>1
    <3> HIDE DEF r
    <3> QED BY <3>1, OtherStage DEF ClaimInv
  <2>3. \A v \in Worker : requests'[v] = IF v = w THEN [stage |-> "claim", plan |-> p] ELSE requests[v]
    BY <2>1 DEF ClaimInv, Workers
  <2>4. \A v \in Worker : At(v, "claim_locked")' => At(v, "claim_locked") /\ requests'[v] = requests[v]
    BY <2>2 DEF NoneReaches, At
  <2>5. ClaimTyped' /\ LogCountsClaims' /\ PlanIds' = PlanIds
    BY <2>1 DEF ClaimInv, ClaimTyped, LogCountsClaims, PlanIds, planRows
  <2>6. \A v \in Worker : At(v, "claim")' => requests'[v].plan \in PlanIds
    BY <2>3 DEF ClaimInv, At
  <2>7. HeldByOne'
    BY <2>4 DEF ClaimInv, HeldByOne
  <2> QED BY <2>1, <2>2, <2>4, <2>5, <2>6, <2>7 DEF ClaimInv, Unfrozen, planRows
<1>4. ASSUME NEW w \in Worker, ClaimLock(w) PROVE ClaimInv'
  <2> DEFINE p == requests[w].plan
  <2>1. /\ At(w, "claim") /\ ~Locked(p) /\ Claimable(p) /\ UNCHANGED planRows
        /\ requests' = [requests EXCEPT ![w] = [stage |-> "claim_locked", plan |-> p]]
    BY <1>4 DEF ClaimLock, Continue
  <2>2. p \in PlanIds /\ Unfrozen(p)
    BY <2>1 DEF ClaimInv, Claimable, Blocked, Unfrozen
  <2>3. Workers' /\ NoneReaches("claim")
    <3> DEFINE r == [stage |-> "claim_locked", plan |-> p]
    <3>1. r.stage # "claim" /\ requests' = [requests EXCEPT ![w] = r]
      BY <2>1
    <3> HIDE DEF r
    <3> QED BY <3>1, OtherStage DEF ClaimInv
  <2>4. \A v \in Worker : requests'[v] = IF v = w THEN [stage |-> "claim_locked", plan |-> p] ELSE requests[v]
    BY <2>1 DEF ClaimInv, Workers
  <2>5. \A v \in Worker : At(v, "claim")' => At(v, "claim") /\ requests'[v] = requests[v]
    BY <2>3 DEF NoneReaches, At
  <2>6. \A v \in Worker : At(v, "claim_locked") => requests[v].plan # p
    BY <2>1 DEF Locked
  <2>7. ClaimTyped' /\ LogCountsClaims' /\ PlanIds' = PlanIds
    BY <2>1 DEF ClaimInv, ClaimTyped, LogCountsClaims, PlanIds, planRows
  <2> HIDE DEF p
  <2>8. \A v \in Worker : At(v, "claim_locked")' =>
          IF v = w THEN requests'[v].plan = p ELSE At(v, "claim_locked") /\ requests'[v] = requests[v]
    BY <2>4 DEF At
  <2>9. HeldByOne'
    BY <2>6, <2>8 DEF ClaimInv, HeldByOne
  <2>10. \A v \in Worker : At(v, "claim_locked")' =>
           requests'[v].plan \in PlanIds /\ Unfrozen(requests'[v].plan)
    BY <2>2, <2>8 DEF ClaimInv
  <2> QED BY <2>1, <2>3, <2>5, <2>7, <2>9, <2>10 DEF ClaimInv, Unfrozen, planRows
<1>5. ASSUME NEW w \in Worker, ClaimCommit(w) PROVE ClaimInv'
  <2> DEFINE p == requests[w].plan
  <2>1. /\ p \in PlanIds /\ p \notin db_claims /\ At(w, "claim_locked")
        /\ db_claims' = db_claims \cup {p}
        /\ Replaced(db_plans, p, [db_plans[p] EXCEPT !.status = "claimed"], db_plans')
        /\ Replaced(claim_log, p, claim_log[p] + 1, claim_log')
        /\ requests' = [requests EXCEPT ![w] = Absent]
    BY <1>5, ClaimCommitted
  <2>2. Workers' /\ NoneReaches("claim") /\ NoneReaches("claim_locked")
    BY <2>1, OtherStage DEF ClaimInv
  <2>3. ClaimTyped'
    BY <2>1 DEF Replaced, ClaimInv, ClaimTyped, PlanIds
  <2>4. claim_log[p] = 0
    BY <2>1 DEF ClaimInv, LogCountsClaims
  <2>5. LogCountsClaims' /\ PlanIds' = PlanIds
    BY <2>1, <2>4 DEF Replaced, ClaimInv, ClaimTyped, LogCountsClaims, PlanIds
  <2>6. \A v \in Worker : At(v, "claim")' => At(v, "claim") /\ requests'[v] = requests[v]
    BY <2>2 DEF NoneReaches, At
  <2>7. ASSUME NEW v \in Worker, At(v, "claim_locked")'
        PROVE  At(v, "claim_locked") /\ requests'[v] = requests[v] /\ requests[v].plan # p
    <3>1. v # w
      BY <2>1, <2>7 DEF At, ClaimInv, Workers
    <3>2. At(v, "claim_locked") /\ requests'[v] = requests[v]
      BY <2>2, <2>7 DEF NoneReaches, At
    <3> QED BY <2>1, <3>1, <3>2 DEF ClaimInv, HeldByOne
  <2> HIDE DEF p
  <2>8. HeldByOne'
    BY <2>7 DEF ClaimInv, HeldByOne
  <2>9. \A v \in Worker : At(v, "claim_locked")' =>
          requests'[v].plan \in PlanIds /\ Unfrozen(requests[v].plan)'
    <3>1. \A q \in PlanIds \ {p} : db_plans'[q] = db_plans[q]
      BY <2>1 DEF Replaced, PlanIds
    <3> QED BY <2>7, <3>1 DEF ClaimInv, Unfrozen
  <2> QED BY <2>2, <2>3, <2>5, <2>6, <2>8, <2>9 DEF ClaimInv, Unfrozen
<1> QED BY <1>1, <1>2, <1>3, <1>4, <1>5 DEF ClaimStep

(* Initially there is no claim, and every step keeps the invariant. *)
LEMMA ClaimInvHolds == LoanServiceSpec => []ClaimInv
<1>1. PlanServiceInit => ClaimInv
  BY EmptyIsSeq
  DEF PlanServiceInit, RequestsInit, ClaimInv, Workers, ClaimTyped, LogCountsClaims, HeldByOne, At, PlanIds
<1>2. ClaimInv /\
      [(LoanServiceNext /\ UNCHANGED clock) \/
       ((\E d \in Steps : Tick(d)) /\ UNCHANGED loanServiceVars)]_<<clock, loanServiceVars>>
      => ClaimInv'
  <2>1. ClaimInv => Workers /\ ClaimTyped
    BY DEF ClaimInv
  <2> QED BY <2>1, StepsOfClaims, ClaimInvKept
<1> QED BY <1>1, <1>2, PTL DEF LoanServiceSpec

(* A plan is paid out at most once, whatever claims, cancellations, jobs   *)
(* and loan statements run beside each other, and the list of due plans    *)
(* offers none that has been.                                              *)
THEOREM PlansArePaidOnce == LoanServiceSpec => []PaidOutOnce
<1>1. ClaimInv => PaidOutOnce
  <2> SUFFICES ASSUME ClaimInv PROVE PaidOutOnce
    OBVIOUS
  <2>1. \A p \in PlanIds : claim_log[p] <= 1
    BY DEF ClaimInv, LogCountsClaims
  <2>2. \A p \in DuePlans : ~db_plans[p].is_paused => Claimable(p) /\ p \notin db_claims
    BY DEF DuePlans, DueForClaim, Claimable
  <2> QED BY <2>1, <2>2 DEF PaidOutOnce
<1> QED BY <1>1, ClaimInvHolds, PTL

(* No claim is committed for a plan that is paused or flagged: the row is  *)
(* held from the check to the commit.                                      *)
THEOREM FrozenPlansStay == LoanServiceSpec => FrozenIsNotClaimed
<1> DEFINE Served == \A p \in db_claims' \ db_claims :
                       ~db_plans[p].is_paused /\ (db_plans[p].is_risky => db_plans[p].risk_override)
<1>1. ClaimInv /\
      [(LoanServiceNext /\ UNCHANGED clock) \/
       ((\E d \in Steps : Tick(d)) /\ UNCHANGED loanServiceVars)]_<<clock, loanServiceVars>>
      => [Served]_planServiceVars
  <2> SUFFICES ASSUME ClaimInv, ClaimStep PROVE Served
    BY StepsOfClaims DEF ClaimInv
  <2>1. CASE UNCHANGED db_claims
    BY <2>1
  <2>2. ASSUME NEW w \in Worker, ClaimCommit(w) PROVE Served
    BY <2>2, ClaimCommitted DEF Unfrozen
  <2> QED BY <2>1, <2>2 DEF ClaimStep, NoClaim, CreatePlanInsert, ClaimLock, ClaimCheck, planRows
<1> QED BY <1>1, ClaimInvHolds, PTL DEF LoanServiceSpec, FrozenIsNotClaimed

-----------------------------------------------------------------------------
(* Emergency sessions.  The inductive invariant says of a session that is  *)
(* being started what the property says of one that is open.               *)

AccessTyped ==
  /\ clock \in Nat
  /\ contacts \in Seq(BOOLEAN) /\ grants \in Seq(GrantRow) /\ access_sessions \in Seq(SessionRow)

(* Asked for at this time, while the grant was in force. *)
Granted(g, at) ==
  /\ g \in DOMAIN grants /\ at \in Nat /\ at <= clock
  /\ at < grants[g].expires_at
  /\ grants[g].is_active \/ (grants[g].revoked_at \in Nat /\ at <= grants[g].revoked_at)

AccessInv ==
  /\ Workers
  /\ AccessTyped
  /\ \A g \in DOMAIN grants : grants[g].contact \in DOMAIN contacts
  /\ \A w \in Worker : At(w, "start_session") => Granted(requests[w].grant, requests[w].at)
  /\ \A s \in DOMAIN access_sessions :
       LET session == access_sessions[s] IN
       /\ session.grant \in DOMAIN grants
       /\ session.open => Granted(session.grant, session.requested_at)
                           /\ contacts[grants[session.grant].contact]

NoAccess ==
  /\ UNCHANGED <<contacts, grants, access_sessions>>
  /\ clock' \in Nat /\ clock <= clock'
  /\ Workers' /\ NoneReaches("start_session")

AccessStep ==
  \/ NoAccess
  \/ /\ UNCHANGED clock
     /\ \/ create_contact
        \/ \E c \in DOMAIN contacts :
             delete_contact(c) \/ \E days \in GrantDays, privileged \in BOOLEAN : grant_access(c, days, privileged)
        \/ \E w \in Worker :
             RevokeCommit(w) \/ StartSessionInsert(w) \/ \E g \in DOMAIN grants : StartSessionCheck(w, g)
        \/ \E s \in DOMAIN access_sessions : end_session(s)

(* Every step is one of these. *)
LEMMA StepsOfAccess ==
  ASSUME Workers, clock \in Nat,
         [(AccessServiceNext /\ UNCHANGED clock) \/
          ((\E d \in Steps : Tick(d)) /\ UNCHANGED accessServiceVars)]_<<clock, accessServiceVars>>
  PROVE  AccessStep
<1>1. ASSUME NEW w \in Worker, NEW r, requests' = [requests EXCEPT ![w] = r],
             r = Absent \/ r.stage # "start_session",
             UNCHANGED <<clock, contacts, grants, access_sessions>>
      PROVE  AccessStep
  <2>1. Workers' /\ NoneReaches("start_session")
    BY <1>1, OtherStage
  <2>2. clock' \in Nat /\ clock <= clock'
    BY <1>1
  <2> QED BY <1>1, <2>1, <2>2 DEF AccessStep, NoAccess
<1>2. ASSUME UNCHANGED <<requests, contacts, grants, access_sessions>>, clock' \in Nat, clock <= clock'
      PROVE  AccessStep
  BY <1>2, NoHandler DEF AccessStep, NoAccess
<1>3. ASSUME GrantNext, UNCHANGED clock PROVE AccessStep
  <2>1. ASSUME NEW w \in Worker, NEW g \in DOMAIN grants, RevokeCheck(w, g) PROVE AccessStep
    BY <1>1, <1>3, <2>1 DEF RevokeCheck, Begin, grantRows
  <2> QED BY <1>3, <2>1 DEF GrantNext, AccessStep
<1>4. ASSUME AdminAccessNext, UNCHANGED clock PROVE AccessStep
  <2>1. ASSUME NEW w \in Worker, AdminRevokeWrite(w) \/ \E a \in DOMAIN admin_access : AdminRevokeCheck(w, a)
        PROVE  AccessStep
    BY <1>1, <1>4, <2>1 DEF AdminRevokeWrite, AdminRevokeCheck, Begin, Finish, Continue, grantRows
  <2>2. ASSUME (\E days \in AdminDays : admin_grant_access(days)) \/ mark_expired_access \/ check_expiring_access
        PROVE  AccessStep
    <3>1. UNCHANGED <<requests, contacts, grants, access_sessions>>
      BY <2>2 DEF admin_grant_access, mark_expired_access, check_expiring_access, grantRows
    <3>2. clock' \in Nat /\ clock <= clock'
      BY <1>4
    <3> QED BY <1>2, <3>1, <3>2
  <2> QED BY <1>4, <2>1, <2>2 DEF AdminAccessNext
<1>5. ASSUME NEW w \in Worker, RollBack(w), UNCHANGED <<clock, grantRows>> PROVE AccessStep
  BY <1>1, <1>5 DEF RollBack, Finish, Continue, grantRows
<1>6. ASSUME NEW d \in Steps, Tick(d), UNCHANGED accessServiceVars PROVE AccessStep
  BY <1>2, <1>6, ClockAssumption DEF Tick, accessServiceVars, grantRows
<1>7. ASSUME UNCHANGED <<clock, accessServiceVars>> PROVE AccessStep
  BY <1>2, <1>7 DEF accessServiceVars, grantRows
<1> QED BY <1>3, <1>4, <1>5, <1>6, <1>7 DEF AccessServiceNext

(* A session that is being started stays granted while its grant is as it  *)
(* was, and a revocation comes after the request.                          *)
LEMMA GrantedKept ==
  ASSUME AccessTyped, NEW g, NEW at, Granted(g, at), clock' \in Nat, clock <= clock',
         g \in DOMAIN grants',
         \/ grants'[g] = grants[g]
         \/ grants'[g].expires_at = grants[g].expires_at /\ grants'[g].revoked_at = clock
  PROVE  Granted(g, at)'
<1>1. clock \in Nat /\ grants[g] \in GrantRow
  BY DEF AccessTyped, Granted
<1> QED BY <1>1 DEF Granted

(* Each step keeps the invariant. *)
LEMMA AccessInvKept ==
  ASSUME AccessInv, AccessStep
  PROVE  AccessInv'
<1>1. ASSUME NoAccess PROVE AccessInv'
  <2>1. \A w \in Worker : At(w, "start_session")' => At(w, "start_session") /\ requests'[w] = requests[w]
    BY <1>1 DEF NoAccess, NoneReaches, At
  <2>2. \A g \in DOMAIN grants, at \in Nat : Granted(g, at) => Granted(g, at)'
    BY <1>1, GrantedKept DEF NoAccess, AccessInv
  <2>3. \A g, at : Granted(g, at) => g \in DOMAIN grants /\ at \in Nat
    BY DEF Granted
  <2> QED BY <1>1, <2>1, <2>2, <2>3 DEF NoAccess, AccessInv, AccessTyped
<1>2. ASSUME create_contact, UNCHANGED clock PROVE AccessInv'
  <2>1. contacts' = Append(contacts, TRUE) /\ UNCHANGED <<requests, grants, access_sessions>>
    BY <1>2 DEF create_contact
  <2>2. Inserted(contacts, TRUE, contacts')
    BY <2>1, AppendedRow DEF AccessInv, AccessTyped, IsSeq
  <2>3. contacts' \in Seq(BOOLEAN)
    BY <2>1 DEF AccessInv, AccessTyped
  <2>4. \A g, at : Granted(g, at)' <=> Granted(g, at)
    BY <1>2, <2>1 DEF Granted
  <2> QED BY <1>2, <2>1, <2>2, <2>3, <2>4 DEF Inserted, AccessInv, AccessTyped, Workers, At
<1>3. ASSUME NEW c \in DOMAIN contacts, delete_contact(c), UNCHANGED clock PROVE AccessInv'
  <2>1. /\ contacts' = [contacts EXCEPT ![c] = FALSE] /\ UNCHANGED <<requests, grants>>
        /\ access_sessions' = [s \in DOMAIN access_sessions |->
             [access_sessions[s] EXCEPT !.open = @ /\ grants[access_sessions[s].grant].contact # c]]
    BY <1>3 DEF delete_contact
  <2>2. contacts' \in Seq(BOOLEAN) /\ DOMAIN contacts' = DOMAIN contacts
    <3>1. contacts' = [b \in DOMAIN contacts |-> contacts'[b]]
      BY <2>1
    <3>2. \A b \in DOMAIN contacts : contacts'[b] = IF b = c THEN FALSE ELSE contacts[b]
      BY <2>1
    <3>3. \A b \in DOMAIN contacts : contacts[b] \in BOOLEAN
      BY DEF AccessInv, AccessTyped
    <3>4. ASSUME NEW b \in DOMAIN contacts PROVE contacts'[b] \in BOOLEAN
      <4>1. CASE b = c
        BY <3>2, <4>1
      <4>2. CASE b # c
        BY <3>2, <3>3, <4>2, Zenon
      <4> QED BY <4>1, <4>2
    <3> QED BY <3>1, <3>4, RowsTyped DEF AccessInv, AccessTyped
  <2>3. \A b \in DOMAIN contacts : contacts[b] /\ b # c => contacts'[b]
    BY <2>1 DEF AccessInv, AccessTyped
  <2>4. ASSUME NEW s \in DOMAIN access_sessions
        PROVE  /\ access_sessions'[s] \in SessionRow
               /\ access_sessions'[s].grant = access_sessions[s].grant
               /\ access_sessions'[s].requested_at = access_sessions[s].requested_at
               /\ access_sessions'[s].open =>
                    access_sessions[s].open /\ grants[access_sessions[s].grant].contact # c
    <3>1. access_sessions[s] \in SessionRow
      BY DEF AccessInv, AccessTyped
    <3> QED BY <2>1, <3>1 DEF SessionRow
  <2>5. access_sessions' \in Seq(SessionRow) /\ DOMAIN access_sessions' = DOMAIN access_sessions
    <3>1. access_sessions' = [r \in DOMAIN access_sessions |-> access_sessions'[r]]
      BY <2>1
    <3> QED BY <2>4, <3>1, RowsTyped DEF AccessInv, AccessTyped
  <2>6. \A g, at : Granted(g, at)' <=> Granted(g, at)
    BY <1>3, <2>1 DEF Granted
  <2> QED BY <1>3, <2>1, <2>2, <2>3, <2>4, <2>5, <2>6 DEF AccessInv, AccessTyped, Workers, At
<1>4. ASSUME NEW c \in DOMAIN contacts, NEW days \in GrantDays, NEW privileged \in BOOLEAN,
             grant_access(c, days, privileged), UNCHANGED clock
      PROVE  AccessInv'
  <2> DEFINE new == [contact |-> c, expires_at |-> clock + days, is_active |-> TRUE,
                     created_at |-> clock, revoked_at |-> Absent]
  <2>1. grants' = Append(grants, new) /\ UNCHANGED <<requests, contacts, access_sessions>>
    BY <1>4 DEF grant_access
  <2>2. c \in Nat /\ days \in Nat /\ clock \in Nat
    BY AccessServiceAssumption DEF AccessInv, AccessTyped
  <2>3. new \in GrantRow /\ new.contact = c
    BY <2>2 DEF GrantRow
  <2> HIDE DEF new
  <2>4. /\ grants' \in Seq(GrantRow) /\ Len(grants') = Len(grants) + 1 /\ Len(grants) \in Nat
        /\ DOMAIN grants = 1..Len(grants) /\ DOMAIN grants' = 1..Len(grants')
        /\ grants'[Len(grants')] = new
        /\ \A g \in DOMAIN grants : grants'[g] = grants[g]
    BY <2>1, <2>3 DEF AccessInv, AccessTyped
  <2>5. \A g, at : Granted(g, at) => Granted(g, at)'
    BY <1>4, <2>4 DEF Granted
  <2>6. \A g \in DOMAIN grants' : grants'[g].contact \in DOMAIN contacts
    BY <2>3, <2>4 DEF AccessInv
  <2> QED BY <1>4, <2>1, <2>4, <2>5, <2>6 DEF AccessInv, AccessTyped, Workers, At
<1>5. ASSUME NEW w \in Worker, RevokeCommit(w), UNCHANGED clock PROVE AccessInv'
  <2> DEFINE g == requests[w].grant
  <2>1. /\ grants' = [grants EXCEPT ![g] = [grants[g] EXCEPT !.is_active = FALSE, !.revoked_at = clock]]
        /\ access_sessions' = [s \in DOMAIN access_sessions |->
             [access_sessions[s] EXCEPT !.open = @ /\ access_sessions[s].grant # g]]
        /\ requests' = [requests EXCEPT ![w] = Absent]
        /\ UNCHANGED contacts
    BY <1>5 DEF RevokeCommit, Finish, Continue
  <2> HIDE DEF g
  <2>2. ASSUME NEW f \in DOMAIN grants
        PROVE  /\ grants'[f] \in GrantRow
               /\ grants'[f].contact = grants[f].contact
               /\ \/ grants'[f] = grants[f]
                  \/ grants'[f].expires_at = grants[f].expires_at /\ grants'[f].revoked_at = clock
    <3>1. grants[f] \in GrantRow /\ clock \in Nat
      BY DEF AccessInv, AccessTyped
    <3> QED BY <2>1, <3>1 DEF GrantRow
  <2>3. grants' \in Seq(GrantRow) /\ DOMAIN grants' = DOMAIN grants
    <3>1. grants' = [r \in DOMAIN grants |-> grants'[r]]
      BY <2>1
    <3> QED BY <2>2, <3>1, RowsTyped DEF AccessInv, AccessTyped
  <2>4. ASSUME NEW s \in DOMAIN access_sessions
        PROVE  /\ access_sessions'[s] \in SessionRow
               /\ access_sessions'[s].grant = access_sessions[s].grant
               /\ access_sessions'[s].requested_at = access_sessions[s].requested_at
               /\ access_sessions'[s].open => access_sessions[s].open
    <3>1. access_sessions[s] \in SessionRow
      BY DEF AccessInv, AccessTyped
    <3> QED BY <2>1, <3>1 DEF SessionRow
  <2>5. access_sessions' \in Seq(SessionRow) /\ DOMAIN access_sessions' = DOMAIN access_sessions
    <3>1. access_sessions' = [r \in DOMAIN access_sessions |-> access_sessions'[r]]
      BY <2>1
    <3> QED BY <2>4, <3>1, RowsTyped DEF AccessInv, AccessTyped
  <2>6. \A f, at : Granted(f, at) => Granted(f, at)'
    <3> SUFFICES ASSUME NEW f, NEW at, Granted(f, at) PROVE Granted(f, at)'
      OBVIOUS
    <3>1. f \in DOMAIN grants
      BY DEF Granted
    <3>2. clock \in Nat
      BY DEF AccessInv, AccessTyped
    <3> QED BY <1>5, <2>2, <2>3, <3>1, <3>2, GrantedKept DEF AccessInv
  <2>7. Workers' /\ NoneReaches("start_session")
    BY <2>1, OtherStage DEF AccessInv
  <2>8. \A v \in Worker : At(v, "start_session")' => At(v, "start_session") /\ requests'[v] = requests[v]
    BY <2>7 DEF NoneReaches, At
  <2>9. AccessTyped'
    BY <1>5, <2>1, <2>3, <2>5 DEF AccessInv, AccessTyped
  <2>10. \A f \in DOMAIN grants' : grants'[f].contact \in DOMAIN contacts'
    BY <2>1, <2>2, <2>3 DEF AccessInv
  <2>11. \A v \in Worker : At(v, "start_session")' => Granted(requests[v].grant, requests[v].at)'
    BY <2>6, <2>8 DEF AccessInv
  <2>12. ASSUME NEW s \in DOMAIN access_sessions'
         PROVE  /\ access_sessions'[s].grant \in DOMAIN grants'
                /\ access_sessions'[s].open =>
                     /\ Granted(access_sessions[s].grant, access_sessions[s].requested_at)'
                     /\ contacts'[grants'[access_sessions'[s].grant].contact]
    <3> DEFINE session == access_sessions[s]
    <3>1. /\ session.grant \in DOMAIN grants
          /\ session.open => Granted(session.grant, session.requested_at)
                              /\ contacts[grants[session.grant].contact]
      BY <2>5, <2>12 DEF AccessInv
    <3>2. /\ session'.grant = session.grant /\ session'.requested_at = session.requested_at
          /\ session'.open => session.open
      BY <2>4, <2>5, <2>12
    <3>3. grants'[session.grant].contact = grants[session.grant].contact
      BY <2>2, <3>1
    <3> QED BY <2>1, <2>3, <2>6, <3>1, <3>2, <3>3
  <2> QED BY <2>7, <2>9, <2>10, <2>11, <2>12 DEF AccessInv
<1>6. ASSUME NEW w \in Worker, StartSessionInsert(w), UNCHANGED clock PROVE AccessInv'
  <2> DEFINE new == [grant |-> requests[w].grant, requested_at |-> requests[w].at, open |-> TRUE]
  <2>1. /\ At(w, "start_session") /\ contacts[grants[requests[w].grant].contact]
        /\ access_sessions' = Append(access_sessions, new)
        /\ requests' = [requests EXCEPT ![w] = Absent]
        /\ UNCHANGED <<contacts, grants>>
    BY <1>6 DEF StartSessionInsert, Finish, Continue
  <2>2. Granted(requests[w].grant, requests[w].at)
    BY <2>1 DEF AccessInv
  <2>3. requests[w].grant \in Nat /\ requests[w].at \in Nat
    BY <2>2 DEF Granted, AccessInv, AccessTyped
  <2>4. new \in SessionRow /\ Granted(new.grant, new.requested_at) /\ contacts[grants[new.grant].contact]
    BY <2>1, <2>2, <2>3 DEF SessionRow
  <2> HIDE DEF new
  <2>5. /\ access_sessions' \in Seq(SessionRow)
        /\ \A s \in DOMAIN access_sessions' :
             access_sessions'[s] = new \/ (s \in DOMAIN access_sessions /\ access_sessions'[s] = access_sessions[s])
    <3>1. access_sessions' \in Seq(SessionRow)
      BY <2>1, <2>4 DEF AccessInv, AccessTyped
    <3>2. Inserted(access_sessions, new, access_sessions')
      BY <2>1, AppendedRow DEF AccessInv, AccessTyped, IsSeq
    <3> QED BY <3>1, <3>2 DEF Inserted
  <2>6. \A g, at : Granted(g, at)' <=> Granted(g, at)
    BY <1>6, <2>1 DEF Granted
  <2>7. Workers' /\ NoneReaches("start_session")
    BY <2>1, OtherStage DEF AccessInv
  <2>8. \A v \in Worker : At(v, "start_session")' => At(v, "start_session") /\ requests'[v] = requests[v]
    BY <2>7 DEF NoneReaches, At
  <2>9. new.grant \in DOMAIN grants
    BY <2>4 DEF Granted
  <2>10. ASSUME NEW s \in DOMAIN access_sessions'
         PROVE  /\ access_sessions'[s].grant \in DOMAIN grants
                /\ access_sessions'[s].open =>
                     /\ Granted(access_sessions'[s].grant, access_sessions'[s].requested_at)
                     /\ contacts[grants[access_sessions'[s].grant].contact]
    BY <2>4, <2>5, <2>9 DEF AccessInv
  <2> QED BY <1>6, <2>1, <2>5, <2>6, <2>7, <2>8, <2>10 DEF AccessInv, AccessTyped
<1>7. ASSUME NEW w \in Worker, NEW g \in DOMAIN grants, StartSessionCheck(w, g), UNCHANGED clock
      PROVE  AccessInv'
  <2>1. /\ InForce(g) /\ UNCHANGED <<contacts, grants, access_sessions>>
        /\ requests' = [requests EXCEPT ![w] = [stage |-> "start_session", grant |-> g, at |-> clock]]
    BY <1>7 DEF StartSessionCheck, Begin, grantRows
  <2>2. Granted(g, clock)
    BY <2>1 DEF InForce, Granted, AccessInv, AccessTyped, GrantRow
  <2>3. \A f, at : Granted(f, at)' <=> Granted(f, at)
    BY <1>7, <2>1 DEF Granted
  <2>4. Workers'
    BY <2>1 DEF AccessInv, Workers
  <2>5. \A v \in Worker :
          requests'[v] = IF v = w THEN [stage |-> "start_session", grant |-> g, at |-> clock] ELSE requests[v]
    BY <2>1 DEF AccessInv, Workers
  <2>6. \A v \in Worker : At(v, "start_session")' => Granted(requests'[v].grant, requests'[v].at)
    BY <2>2, <2>5 DEF AccessInv, At
  <2> QED BY <1>7, <2>1, <2>3, <2>4, <2>6 DEF AccessInv, AccessTyped
<1>8. ASSUME NEW s \in DOMAIN access_sessions, end_session(s), UNCHANGED clock PROVE AccessInv'
  <2>1. /\ access_sessions' = [access_sessions EXCEPT ![s] = [access_sessions[s] EXCEPT !.open = FALSE]]
        /\ UNCHANGED <<requests, contacts, grants>>
    BY <1>8 DEF end_session
  <2>2. ASSUME NEW t \in DOMAIN access_sessions
        PROVE  /\ access_sessions'[t] \in SessionRow
               /\ access_sessions'[t].grant = access_sessions[t].grant
               /\ access_sessions'[t].requested_at = access_sessions[t].requested_at
               /\ access_sessions'[t].open => access_sessions[t].open
    <3>1. access_sessions[t] \in SessionRow
      BY DEF AccessInv, AccessTyped
    <3> QED BY <2>1, <3>1 DEF SessionRow
  <2>3. access_sessions' \in Seq(SessionRow) /\ DOMAIN access_sessions' = DOMAIN access_sessions
    <3>1. access_sessions' = [r \in DOMAIN access_sessions |-> access_sessions'[r]]
      BY <2>1
    <3> QED BY <2>2, <3>1, RowsTyped DEF AccessInv, AccessTyped
  <2>4. \A g, at : Granted(g, at)' <=> Granted(g, at)
    BY <1>8, <2>1 DEF Granted
  <2> QED BY <1>8, <2>1, <2>2, <2>3, <2>4 DEF AccessInv, AccessTyped, Workers, At
<1> QED BY <1>1, <1>2, <1>3, <1>4, <1>5, <1>6, <1>7, <1>8 DEF AccessStep

(* A session that is open on a grant no longer in force was requested      *)
(* before the revocation, and never after the expiry.                      *)
THEOREM SessionsWereGranted == AccessServiceSpec => []OpenSessionsWereGranted
<1>1. RequestsInit /\ AccessServiceInit /\ clock = 1 => AccessInv
  BY DEF RequestsInit, AccessServiceInit, AccessInv, Workers, AccessTyped, At
<1>2. AccessInv /\
      [(AccessServiceNext /\ UNCHANGED clock) \/
       ((\E d \in Steps : Tick(d)) /\ UNCHANGED accessServiceVars)]_<<clock, accessServiceVars>>
      => AccessInv'
  <2>1. AccessInv => Workers /\ clock \in Nat
    BY DEF AccessInv, AccessTyped
  <2> QED BY <2>1, StepsOfAccess, AccessInvKept
<1>3. AccessInv => OpenSessionsWereGranted
  BY DEF AccessInv, Granted, OpenSessionsWereGranted
<1> QED BY <1>1, <1>2, <1>3, PTL DEF AccessServiceSpec

-----------------------------------------------------------------------------
(* Borrowing: the amounts. *)

(* A share of an amount is a natural number. *)
LEMMA ShareIsNat ==
  ASSUME NEW a \in Nat, NEW bps \in Nat
  PROVE  Share(a, bps) \in Nat
<1> DEFINE product == a * bps
<1>1. product \in Nat
  OBVIOUS
<1> HIDE DEF product
<1>2. product \div 10000 \in Nat
  BY <1>1
<1> QED BY <1>2 DEF Share, product

(* A quotient of natural numbers is one. *)
LEMMA QuotientIsNat ==
  ASSUME NEW a \in Nat, NEW b \in Nat, NEW c \in Nat \ {0}
  PROVE  (a * b) \div c \in Nat
<1> DEFINE product == a * b
<1>1. product \in Nat
  OBVIOUS
<1> HIDE DEF product
<1>2. product \div c \in Nat
  BY <1>1
<1> QED BY <1>2 DEF product

(* A covered transfer leaves no balance negative. *)
LEMMA PurseTyped ==
  ASSUME purse \in [Collaterals -> [Account \cup {Desk} -> Nat]],
         NEW t \in Collaterals, NEW from \in Account \cup {Desk}, NEW to \in Account \cup {Desk},
         NEW amount \in Nat, Holds(from, t, amount)
  PROVE  Moved(t, from, to, amount) \in [Collaterals -> [Account \cup {Desk} -> Nat]]
<1>1. purse[t] \in [Account \cup {Desk} -> Nat] /\ purse[t][from] >= amount
  BY DEF Holds
<1>2. Transfer(purse[t], from, to, amount) \in [Account \cup {Desk} -> Nat]
  BY <1>1 DEF Transfer
<1> QED BY <1>2 DEF Moved

-----------------------------------------------------------------------------
(* The inductive invariant of the loans is their type and the property:    *)
(* the extension fee of a loan that is active and not owed would not be an *)
(* amount.                                                                 *)

OwedLoan == {loan \in ContractLoan : loan.is_active <=> Debt(loan) > 0}

SettingsTyped ==
  /\ borrow_roles \subseteq Account \X Role
  /\ borrow_paused \in BOOLEAN /\ global_pause \in BOOLEAN
  /\ accepted \subseteq Collaterals /\ vault_pause \subseteq Collaterals

AuctionsTyped == IsMap(auctions, DOMAIN contracts, LiquidationAuction)

PurseOK == purse \in [Collaterals -> [Account \cup {Desk} -> Nat]]

BorrowingInv ==
  /\ SettingsTyped
  /\ contracts \in Seq(OwedLoan)
  /\ AuctionsTyped
  /\ PurseOK
  /\ clock \in Nat

(* One loan is written. *)
LEMMA LoanWritten ==
  ASSUME BorrowingInv, NEW id \in DOMAIN contracts, NEW loan \in OwedLoan,
         contracts' = [contracts EXCEPT ![id] = loan],
         PurseOK', AuctionsTyped', UNCHANGED <<borrowingSettings, clock>>
  PROVE  BorrowingInv'
<1>1. contracts' = [i \in DOMAIN contracts |-> contracts'[i]]
  OBVIOUS
<1>2. \A i \in DOMAIN contracts : contracts'[i] \in OwedLoan
  BY DEF BorrowingInv
<1>3. contracts' \in Seq(OwedLoan)
  BY <1>1, <1>2, RowsTyped DEF BorrowingInv
<1> QED BY <1>3 DEF BorrowingInv, SettingsTyped, borrowingSettings

(* Writing a loan leaves the auctions those of loans. *)
LEMMA AuctionsKept ==
  ASSUME BorrowingInv, NEW id, NEW loan, contracts' = [contracts EXCEPT ![id] = loan], UNCHANGED auctions
  PROVE  AuctionsTyped'
<1>1. DOMAIN contracts' = DOMAIN contracts
  OBVIOUS
<1> QED BY <1>1 DEF BorrowingInv, AuctionsTyped

(* A loan of the contract. *)
LEMMA LoanTyped ==
  ASSUME BorrowingInv, NEW id \in DOMAIN contracts
  PROVE  /\ contracts[id] \in ContractLoan
         /\ contracts[id].is_active <=> Debt(contracts[id]) > 0
         /\ Debt(contracts[id]) \in Int
<1>1. contracts[id] \in OwedLoan
  BY DEF BorrowingInv
<1> QED BY <1>1 DEF OwedLoan, ContractLoan, Debt

(* An auction is started or goes on; the loans stay where they are. *)
LEMMA AuctionWritten ==
  ASSUME BorrowingInv, NEW id \in DOMAIN contracts, NEW auction \in LiquidationAuction,
         auctions' = Put(auctions, id, auction) \/ auctions' = [auctions EXCEPT ![id] = auction],
         DOMAIN contracts' = DOMAIN contracts
  PROVE  AuctionsTyped'
BY DEF BorrowingInv, AuctionsTyped, IsMap, Put

(* A new loan owes its principal. *)
LEMMA CreateLoanKept ==
  ASSUME BorrowingInv, NEW b \in Account, NEW r \in ContractRequest, NEW days \in ContractDays,
         NEW t \in Collaterals, CreateLoan(b, r.principal, clock + days, t, r.collateral),
         UNCHANGED clock
  PROVE  BorrowingInv'
<1> DEFINE loan == [borrower |-> b, principal |-> r.principal, due_date |-> clock + days,
                    amount_repaid |-> 0, collateral_amount |-> r.collateral, collateral_token |-> t,
                    is_active |-> TRUE, extension_count |-> 0]
<1>1. /\ r.principal \in Nat \ {0} /\ r.collateral \in Nat /\ days \in Nat /\ clock \in Nat
  BY BorrowingAssumption DEF BorrowingInv
<1>2. loan \in OwedLoan
  BY <1>1 DEF OwedLoan, ContractLoan, Debt, MAX_EXTENSIONS
<1>3. /\ contracts' = Append(contracts, loan) /\ UNCHANGED <<borrowingSettings, auctions>>
      /\ Holds(b, t, r.collateral) /\ purse' = Moved(t, b, Desk, r.collateral)
  BY DEF CreateLoan
<1> HIDE DEF loan
<1>4. contracts' \in Seq(OwedLoan) /\ DOMAIN contracts \subseteq DOMAIN contracts'
  BY <1>2, <1>3 DEF BorrowingInv
<1>5. PurseOK'
  BY <1>1, <1>3, PurseTyped DEF BorrowingInv, PurseOK
<1>6. AuctionsTyped'
  BY <1>3, <1>4 DEF BorrowingInv, AuctionsTyped, IsMap
<1>7. SettingsTyped' /\ clock' \in Nat
  BY <1>3 DEF BorrowingInv, SettingsTyped, borrowingSettings
<1> QED BY <1>4, <1>5, <1>6, <1>7 DEF BorrowingInv

(* A repayment closes a loan when nothing is owed any more. *)
LEMMA RepayLoanKept ==
  ASSUME BorrowingInv, NEW id \in DOMAIN contracts, NEW amount \in RepayAmount, RepayLoan(id, amount),
         UNCHANGED clock
  PROVE  BorrowingInv'
<1> DEFINE old == contracts[id]
           repaid == old.amount_repaid + amount
           loan == [old EXCEPT !.amount_repaid = repaid,
                               !.is_active = old.is_active /\ ~(repaid >= old.principal)]
<1>1. amount \in Nat \ {0}
  BY BorrowingAssumption
<1>2. old \in ContractLoan /\ (old.is_active <=> Debt(old) > 0)
  BY LoanTyped
<1>3. /\ contracts' = [contracts EXCEPT ![id] = loan] /\ UNCHANGED <<borrowingSettings, auctions>>
      /\ \/ UNCHANGED purse
         \/ /\ Holds(Desk, old.collateral_token, old.collateral_amount)
            /\ purse' = Moved(old.collateral_token, Desk, old.borrower, old.collateral_amount)
  BY DEF RepayLoan
<1>4. loan \in OwedLoan
  <2>1. repaid \in Nat /\ (old.is_active /\ ~(repaid >= old.principal)) \in BOOLEAN
    BY <1>1, <1>2 DEF ContractLoan
  <2>2. loan \in ContractLoan
    BY <1>2, <2>1 DEF ContractLoan
  <2>3. /\ loan.principal = old.principal /\ loan.amount_repaid = repaid
        /\ loan.is_active <=> old.is_active /\ ~(repaid >= old.principal)
    BY <1>2 DEF ContractLoan
  <2>4. old.principal \in Nat /\ old.amount_repaid \in Nat
    BY <1>2 DEF ContractLoan
  <2>5. Debt(loan) > 0 <=> ~(repaid >= old.principal)
    BY <2>1, <2>3, <2>4 DEF Debt
  <2>6. ~(repaid >= old.principal) => Debt(old) > 0
    BY <1>1, <2>4 DEF Debt
  <2> HIDE DEF loan, repaid
  <2> QED BY <1>2, <2>2, <2>3, <2>5, <2>6 DEF OwedLoan
<1>5. PurseOK'
  <2>1. CASE UNCHANGED purse
    BY <2>1 DEF BorrowingInv, PurseOK
  <2>2. CASE Holds(Desk, old.collateral_token, old.collateral_amount)
             /\ purse' = Moved(old.collateral_token, Desk, old.borrower, old.collateral_amount)
    BY <1>2, <2>2, PurseTyped DEF BorrowingInv, PurseOK, ContractLoan
  <2> QED BY <1>3, <2>1, <2>2
<1> HIDE DEF loan
<1>6. AuctionsTyped'
  BY <1>3, AuctionsKept
<1> QED BY <1>3, <1>4, <1>5, <1>6, LoanWritten

(* The fee of an extension is an amount because the loan is owed. *)
LEMMA ExtendLoanKept ==
  ASSUME BorrowingInv, NEW id \in DOMAIN contracts, NEW days \in ExtensionDays, ExtendLoan(id, days),
         UNCHANGED clock
  PROVE  BorrowingInv'
<1> DEFINE old == contracts[id]
           loan == [old EXCEPT !.due_date = old.due_date + days, !.extension_count = old.extension_count + 1]
<1>1. days \in Nat
  BY BorrowingAssumption
<1>2. old \in ContractLoan /\ (old.is_active <=> Debt(old) > 0) /\ Debt(old) \in Int
  BY LoanTyped
<1>3. /\ contracts' = [contracts EXCEPT ![id] = loan] /\ UNCHANGED <<borrowingSettings, auctions>>
      /\ old.is_active /\ old.extension_count < MAX_EXTENSIONS
      /\ Holds(old.borrower, old.collateral_token, ExtensionFee(old))
      /\ purse' = Moved(old.collateral_token, old.borrower, Desk, ExtensionFee(old))
  BY DEF ExtendLoan
<1>4. loan \in OwedLoan
  <2>1. old.due_date + days \in Nat /\ old.extension_count + 1 \in 0..MAX_EXTENSIONS
    BY <1>1, <1>2, <1>3 DEF ContractLoan, MAX_EXTENSIONS
  <2>2. loan \in ContractLoan
    BY <1>2, <2>1 DEF ContractLoan
  <2>3. loan.is_active = old.is_active /\ Debt(loan) = Debt(old)
    BY <1>2 DEF ContractLoan, Debt
  <2> QED BY <1>2, <2>2, <2>3 DEF OwedLoan
<1>5. ExtensionFee(old) \in Nat
  <2>1. Debt(old) \in Nat
    BY <1>2, <1>3
  <2> QED BY <2>1, ShareIsNat DEF ExtensionFee, EXTENSION_FEE_BPS
<1>6. PurseOK'
  BY <1>2, <1>3, <1>5, PurseTyped DEF BorrowingInv, PurseOK, ContractLoan
<1> HIDE DEF loan
<1>7. AuctionsTyped'
  BY <1>3, AuctionsKept
<1> QED BY <1>3, <1>4, <1>6, <1>7, LoanWritten

(* An increase is one of a loan that is owed, and adds to what is owed. *)
LEMMA IncreaseKept ==
  ASSUME BorrowingInv, NEW id \in DOMAIN contracts, NEW amount \in RepayAmount,
         IncreaseLoanAmount(id, amount), UNCHANGED clock
  PROVE  BorrowingInv'
<1> DEFINE old == contracts[id]
           loan == [old EXCEPT !.principal = old.principal + amount]
<1>1. amount \in Nat \ {0}
  BY BorrowingAssumption
<1>2. old \in ContractLoan /\ (old.is_active <=> Debt(old) > 0)
  BY LoanTyped
<1>3. /\ contracts' = [contracts EXCEPT ![id] = loan] /\ UNCHANGED <<borrowingSettings, auctions, purse>>
      /\ old.is_active
  BY DEF IncreaseLoanAmount
<1>4. loan \in OwedLoan
  BY <1>1, <1>2, <1>3 DEF OwedLoan, ContractLoan, Debt
<1> HIDE DEF loan
<1>5. AuctionsTyped'
  BY <1>3, AuctionsKept
<1>6. PurseOK'
  BY <1>3 DEF BorrowingInv, PurseOK
<1> QED BY <1>3, <1>4, <1>5, <1>6, LoanWritten

(* What a liquidator pays reduces what is owed, and a loan that is closed  *)
(* stays closed when it is paid for again.                                 *)
LEMMA Seized ==
  ASSUME BorrowingInv, NEW id \in DOMAIN contracts, NEW liquidator \in Account,
         NEW amount \in Nat, NEW reward \in Nat, Seize(id, liquidator, amount, reward)
  PROVE  PurseOK' /\ \E loan \in OwedLoan : contracts' = [contracts EXCEPT ![id] = loan]
<1> DEFINE old == contracts[id]
           loan == [old EXCEPT !.collateral_amount = old.collateral_amount - reward,
                               !.amount_repaid = old.amount_repaid + amount,
                               !.is_active = old.is_active /\ old.amount_repaid + amount < old.principal]
<1>1. old \in ContractLoan /\ (old.is_active <=> Debt(old) > 0)
  BY LoanTyped
<1>2. /\ contracts' = [contracts EXCEPT ![id] = loan]
      /\ reward <= old.collateral_amount
      /\ Holds(Desk, old.collateral_token, reward)
      /\ purse' = Moved(old.collateral_token, Desk, liquidator, reward)
  BY DEF Seize
<1>3. loan \in OwedLoan
  <2> DEFINE repaid == old.amount_repaid + amount
  <2>1. old.principal \in Nat /\ old.amount_repaid \in Nat /\ old.collateral_amount \in Nat
    BY <1>1 DEF ContractLoan
  <2>2. old.collateral_amount - reward \in Nat /\ repaid \in Nat
        /\ (old.is_active /\ repaid < old.principal) \in BOOLEAN
    BY <1>2, <2>1
  <2>3. loan \in ContractLoan
    BY <1>1, <2>2 DEF ContractLoan
  <2>4. /\ loan.principal = old.principal /\ loan.amount_repaid = repaid
        /\ loan.is_active <=> old.is_active /\ repaid < old.principal
    BY <1>1 DEF ContractLoan
  <2>5. Debt(loan) > 0 <=> repaid < old.principal
    BY <2>1, <2>2, <2>4 DEF Debt
  <2>6. repaid < old.principal => Debt(old) > 0
    BY <2>1 DEF Debt
  <2> HIDE DEF loan, repaid
  <2> QED BY <1>1, <2>3, <2>4, <2>5, <2>6 DEF OwedLoan
<1>4. PurseOK'
  BY <1>1, <1>2, PurseTyped DEF BorrowingInv, PurseOK, ContractLoan
<1> HIDE DEF loan
<1> QED BY <1>2, <1>3, <1>4

(* A direct liquidation. *)
LEMMA LiquidateKept ==
  ASSUME BorrowingInv, NEW id \in DOMAIN contracts, NEW liquidator \in Liquidator,
         NEW amount \in RepayAmount, Liquidate(liquidator, id, amount), UNCHANGED clock
  PROVE  BorrowingInv'
<1>1. amount \in Nat \ {0} /\ LiquidationBonus \in Nat /\ liquidator \in Account
  BY BorrowingAssumption
<1>2. amount + Share(amount, LiquidationBonus) \in Nat
  <2>1. Share(amount, LiquidationBonus) \in Nat
    BY <1>1, ShareIsNat
  <2> QED BY <1>1, <2>1
<1>3. Seize(id, liquidator, amount, amount + Share(amount, LiquidationBonus))
      /\ UNCHANGED <<borrowingSettings, auctions>>
  BY DEF Liquidate
<1>4. PurseOK' /\ \E loan \in OwedLoan : contracts' = [contracts EXCEPT ![id] = loan]
  BY <1>1, <1>2, <1>3, Seized
<1>5. PICK loan \in OwedLoan : contracts' = [contracts EXCEPT ![id] = loan]
  BY <1>4
<1>6. AuctionsTyped'
  BY <1>3, <1>5, AuctionsKept
<1> QED BY <1>3, <1>4, <1>5, <1>6, LoanWritten

(* The discount of an auction is a natural number. *)
LEMMA DiscountIsNat ==
  ASSUME NEW auction \in LiquidationAuction, clock \in Nat
  PROVE  LiquidationDiscount(auction) \in Nat
<1> DEFINE elapsed == SaturatingSub(clock, auction.start_time)
           range == SaturatingSub(auction.max_discount_bps, auction.initial_discount_bps)
<1>1. elapsed \in Nat /\ range \in Nat /\ auction.duration \in Nat
      /\ auction.initial_discount_bps \in Nat /\ auction.max_discount_bps \in Nat
  BY DEF SaturatingSub, LiquidationAuction
<1>2. LiquidationDiscount(auction) =
        IF elapsed >= auction.duration THEN auction.max_discount_bps
        ELSE auction.initial_discount_bps + (range * elapsed) \div auction.duration
  BY DEF LiquidationDiscount
<1> HIDE DEF elapsed, range
<1>3. CASE elapsed >= auction.duration
  BY <1>1, <1>2, <1>3
<1>4. CASE ~(elapsed >= auction.duration)
  <2>1. auction.duration \in Nat \ {0}
    BY <1>1, <1>4
  <2>2. (range * elapsed) \div auction.duration \in Nat
    BY <1>1, <2>1, QuotientIsNat
  <2> QED BY <1>1, <1>2, <1>4, <2>2
<1> QED BY <1>3, <1>4

(* The steps of an auction before its execution leave the loans alone. *)
LEMMA AuctionKept ==
  ASSUME BorrowingInv, NEW id \in DOMAIN contracts,
         \/ \E terms \in AuctionTerms : StartLiquidationAuction(id, terms)
         \/ \E bidder \in Liquidator, amount \in RepayAmount : BidOnLiquidation(bidder, id, amount)
         \/ CancelAuction(id),
         UNCHANGED clock
  PROVE  BorrowingInv'
<1>1. UNCHANGED <<borrowingSettings, contracts, purse>>
  BY DEF StartLiquidationAuction, BidOnLiquidation, CancelAuction
<1>2. ASSUME NEW terms \in AuctionTerms, StartLiquidationAuction(id, terms) PROVE AuctionsTyped'
  <2> DEFINE auction == [start_time |-> clock, duration |-> terms.duration,
        initial_discount_bps |-> terms.initial_discount_bps,
        max_discount_bps |-> terms.max_discount_bps, status |-> "Active",
        winning_bidder |-> Absent, winning_bid_amount |-> 0, locked_discount_bps |-> 0]
  <2>1. terms \in [duration : Nat, initial_discount_bps : Nat, max_discount_bps : Nat] /\ clock \in Nat
    BY BorrowingAssumption DEF BorrowingInv
  <2>2. auction \in LiquidationAuction
    BY <2>1 DEF LiquidationAuction, AuctionStatus
  <2>3. auctions' = Put(auctions, id, auction)
    BY <1>2 DEF StartLiquidationAuction
  <2> HIDE DEF auction
  <2> QED BY <1>1, <2>2, <2>3, AuctionWritten
<1>3. ASSUME NEW bidder \in Liquidator, NEW amount \in RepayAmount, BidOnLiquidation(bidder, id, amount)
      PROVE  AuctionsTyped'
  <2> DEFINE old == auctions[id]
             auction == [old EXCEPT !.winning_bidder = bidder, !.winning_bid_amount = amount,
                                    !.locked_discount_bps = LiquidationDiscount(old)]
  <2>1. id \in DOMAIN auctions /\ auctions' = [auctions EXCEPT ![id] = auction]
    BY <1>3 DEF BidOnLiquidation, IsAuctioned
  <2>2. old \in LiquidationAuction
    BY <2>1 DEF BorrowingInv, AuctionsTyped, IsMap
  <2>3. bidder \in Account /\ amount \in Nat /\ LiquidationDiscount(old) \in Nat
    BY <2>2, BorrowingAssumption, DiscountIsNat DEF BorrowingInv
  <2>4. auction \in LiquidationAuction
    BY <2>2, <2>3 DEF LiquidationAuction
  <2> HIDE DEF auction
  <2> QED BY <1>1, <2>1, <2>4, AuctionWritten
<1>4. ASSUME CancelAuction(id) PROVE AuctionsTyped'
  <2> DEFINE old == auctions[id]
             auction == [old EXCEPT !.status = "Cancelled"]
  <2>1. id \in DOMAIN auctions /\ auctions' = [auctions EXCEPT ![id] = auction]
    BY <1>4 DEF CancelAuction, IsAuctioned
  <2>2. old \in LiquidationAuction
    BY <2>1 DEF BorrowingInv, AuctionsTyped, IsMap
  <2>3. auction \in LiquidationAuction
    BY <2>2 DEF LiquidationAuction, AuctionStatus
  <2> HIDE DEF auction
  <2> QED BY <1>1, <2>1, <2>3, AuctionWritten
<1>5. AuctionsTyped'
  BY <1>2, <1>3, <1>4
<1> QED BY <1>1, <1>5 DEF BorrowingInv, SettingsTyped, PurseOK, borrowingSettings

(* The execution of a bid, whatever has become of its loan. *)
LEMMA ExecutionKept ==
  ASSUME BorrowingInv, NEW id \in DOMAIN contracts, ExecuteAuction(id), UNCHANGED clock
  PROVE  BorrowingInv'
<1> DEFINE old == auctions[id]
           auction == [old EXCEPT !.status = "Executed"]
           reward == old.winning_bid_amount + Share(old.winning_bid_amount, old.locked_discount_bps)
<1>1. /\ id \in DOMAIN auctions /\ old.winning_bidder # Absent
      /\ auctions' = [auctions EXCEPT ![id] = auction] /\ UNCHANGED borrowingSettings
      /\ Seize(id, old.winning_bidder, old.winning_bid_amount, reward)
  BY DEF ExecuteAuction, IsAuctioned
<1>2. old \in LiquidationAuction
  BY <1>1 DEF BorrowingInv, AuctionsTyped, IsMap
<1>3. old.winning_bidder \in Account /\ old.winning_bid_amount \in Nat /\ old.locked_discount_bps \in Nat
      /\ auction \in LiquidationAuction
  BY <1>1, <1>2 DEF LiquidationAuction, AuctionStatus
<1>4. reward \in Nat
  <2>1. Share(old.winning_bid_amount, old.locked_discount_bps) \in Nat
    BY <1>3, ShareIsNat
  <2> QED BY <1>3, <2>1
<1> HIDE DEF auction, reward
<1>5. PurseOK' /\ \E loan \in OwedLoan : contracts' = [contracts EXCEPT ![id] = loan]
  BY <1>1, <1>3, <1>4, Seized
<1>6. PICK loan \in OwedLoan : contracts' = [contracts EXCEPT ![id] = loan]
  BY <1>5
<1>7. AuctionsTyped'
  BY <1>1, <1>3, <1>6, AuctionWritten
<1> QED BY <1>1, <1>5, <1>6, <1>7, LoanWritten

(* The settings of the administrator. *)
LEMMA BorrowingSettingsKept ==
  ASSUME BorrowingInv, BorrowingSettingsNext, UNCHANGED clock
  PROVE  BorrowingInv'
<1>1. UNCHANGED <<contracts, auctions, purse>> /\ SettingsTyped'
  BY DEF BorrowingSettingsNext, SetBorrowingRole, SetBorrowingPaused, WhitelistCollateral, SetGlobalPause,
         SetVaultPause, WithRole, Role, BorrowingInv, SettingsTyped
<1> QED BY <1>1 DEF BorrowingInv, AuctionsTyped, PurseOK

(* Every execution keeps the invariant. *)
LEMMA BorrowingInvHolds == BorrowingSpec => []BorrowingInv
<1>1. ASSUME BorrowingInit, clock = 1 PROVE BorrowingInv
  <2>1. SettingsTyped
    <3>1. borrow_roles = {<<BorrowingAdmin, "Admin">>} /\ BorrowingAdmin \in Account
      BY <1>1, BorrowingAssumption DEF BorrowingInit
    <3>2. borrow_roles \subseteq Account \X Role
      BY <3>1 DEF Role
    <3> QED BY <1>1, <3>2 DEF BorrowingInit, SettingsTyped
  <2>2. contracts \in Seq(OwedLoan) /\ AuctionsTyped
    BY <1>1 DEF BorrowingInit, AuctionsTyped, IsMap, EmptyMap
  <2>3. PurseOK
    BY <1>1, BorrowingAssumption DEF BorrowingInit, PurseOK
  <2> QED BY <1>1, <2>1, <2>2, <2>3 DEF BorrowingInv
<1>2. BorrowingInv /\ [BorrowingNext]_<<clock, borrowingVars>> => BorrowingInv'
  <2> SUFFICES ASSUME BorrowingInv, [BorrowingNext]_<<clock, borrowingVars>> PROVE BorrowingInv'
    OBVIOUS
  <2>1. CASE UNCHANGED borrowingVars /\ clock' \in Nat
    BY <2>1 DEF borrowingVars, BorrowingInv, SettingsTyped, AuctionsTyped, PurseOK
  <2>2. ASSUME ContractNext \/ ExtensionNext, UNCHANGED clock PROVE BorrowingInv'
    BY <2>2, CreateLoanKept, RepayLoanKept, IncreaseKept, ExtendLoanKept DEF ContractNext, ExtensionNext
  <2>3. ASSUME LiquidationNext, UNCHANGED clock PROVE BorrowingInv'
    BY <2>3, LiquidateKept, AuctionKept, ExecutionKept DEF LiquidationNext
  <2>4. ASSUME NEW days \in Steps, Tick(days), UNCHANGED borrowingVars PROVE BorrowingInv'
    BY <2>1, <2>4, ClockAssumption DEF Tick, BorrowingInv
  <2>5. ASSUME UNCHANGED <<clock, borrowingVars>> PROVE BorrowingInv'
    BY <2>1, <2>5 DEF BorrowingInv
  <2> QED BY <2>2, <2>3, <2>4, <2>5, BorrowingSettingsKept DEF BorrowingNext
<1> QED BY <1>1, <1>2, PTL DEF BorrowingSpec

(* A loan is active exactly as long as it is owed, in whatever order       *)
(* repayments, liquidations, auctions and increases come.                  *)
THEOREM OwedLoansAreActive == BorrowingSpec => []ActiveMeansOwed
<1>1. BorrowingInv => ActiveMeansOwed
  BY LoanTyped DEF ActiveMeansOwed
<1> QED BY <1>1, BorrowingInvHolds, PTL

(* The state of the borrowing contract has its type: no fee, reward or     *)
(* balance is ever negative.                                               *)
THEOREM BorrowingTypes == BorrowingSpec => []BorrowingTypeOK
<1>1. BorrowingInv => BorrowingTypeOK
  <2> SUFFICES ASSUME BorrowingInv PROVE BorrowingTypeOK
    OBVIOUS
  <2>1. OwedLoan \subseteq ContractLoan
    BY DEF OwedLoan
  <2>2. contracts \in Seq(ContractLoan)
    BY <2>1 DEF BorrowingInv
  <2> QED BY <2>2 DEF BorrowingInv, BorrowingTypeOK, SettingsTyped, AuctionsTyped, PurseOK
<1> QED BY <1>1, BorrowingInvHolds, PTL

-----------------------------------------------------------------------------
(* Governance.  The invariant: proposals are found by their place, and     *)
(* have a status and votes.                                                *)

ProposalsTyped ==
  /\ IsSeq(proposals)
  /\ \A id \in DOMAIN proposals : {"status", "votes"} \subseteq DOMAIN proposals[id]

(* What a step does to the proposals: nothing, a new one, or one of the    *)
(* calls about a proposal.                                                 *)
ProposalStep ==
  \/ UNCHANGED proposals
  \/ \E a \in Council : CreateProposal(a)
  \/ /\ UNCHANGED clock
     /\ \E id \in DOMAIN proposals :
          \/ \E a \in Council, choice \in {"Yes", "No"} : Vote(a, id, choice)
          \/ \E a \in Council : CancelProposal(a, id)
          \/ ExecuteProposal(id)

(* Every step is one of these. *)
LEMMA StepsOfProposals ==
  ASSUME [GovernanceNext]_<<clock, governanceVars>>
  PROVE  ProposalStep
<1>1. ASSUME UNCHANGED <<clock, governanceVars>> PROVE ProposalStep
  BY <1>1 DEF governanceVars, proposalVars, ProposalStep
<1>2. ASSUME NEW days \in Steps, Tick(days), UNCHANGED governanceVars PROVE ProposalStep
  BY <1>2 DEF governanceVars, proposalVars, ProposalStep
<1>3. ASSUME SigningNext PROVE ProposalStep
  <2>1. UNCHANGED proposalVars
    BY <1>3
    DEF SigningNext, UpdateMultiSigConfig, ProposeTransaction, SignTransaction, ExecuteTransaction,
        UpdateParameter, SetGovRole, SetGovPaused, AddControlledContract
  <2> QED BY <2>1 DEF proposalVars, ProposalStep
<1>4. ASSUME VotingNext, UNCHANGED clock PROVE ProposalStep
  <2>1. ASSUME \/ \E a, b \in Council : DelegateVotes(a, b)
               \/ \E a \in Council : UndelegateVotes(a)
               \/ \E b \in TokenBalance : SetTokenBalance(b.account, b.amount)
        PROVE  ProposalStep
    BY <2>1 DEF DelegateVotes, UndelegateVotes, SetTokenBalance, proposalVars, ProposalStep
  <2> QED BY <1>4, <2>1 DEF VotingNext, ProposalStep
<1> QED BY <1>1, <1>2, <1>3, <1>4 DEF GovernanceNext

(* The calls about a proposal write its votes or its status. *)
LEMMA ProposalCalls ==
  ASSUME NEW id \in DOMAIN proposals
  PROVE  /\ \A a, choice : Vote(a, id, choice) =>
              /\ clock <= proposals[id].expires_at /\ proposals[id].status = "Active"
              /\ \E votes : proposals' = [proposals EXCEPT ![id] = [proposals[id] EXCEPT !.votes = votes]]
         /\ \A a : CancelProposal(a, id) =>
              /\ proposals[id].status = "Active"
              /\ proposals' = [proposals EXCEPT ![id] = [proposals[id] EXCEPT !.status = "Cancelled"]]
         /\ ExecuteProposal(id) =>
              /\ ProposalStatus(proposals[id]) = "Passed"
              /\ proposals' = [proposals EXCEPT ![id] = [proposals[id] EXCEPT !.status = "Executed"]]
<1>1. ASSUME NEW a, NEW choice, Vote(a, id, choice)
      PROVE  \E votes : proposals' = [proposals EXCEPT ![id] = [proposals[id] EXCEPT !.votes = votes]]
  <2> DEFINE votes == [proposals[id].votes EXCEPT ![choice] = @ + VotingPower(a)]
  <2>1. proposals' = [proposals EXCEPT ![id] = [proposals[id] EXCEPT !.votes = votes]]
    BY <1>1 DEF Vote
  <2> HIDE DEF votes
  <2> QED BY <2>1
<1>2. ASSUME NEW a, NEW choice, Vote(a, id, choice)
      PROVE  clock <= proposals[id].expires_at /\ proposals[id].status = "Active"
  BY <1>2 DEF Vote
<1>3. ASSUME NEW a, CancelProposal(a, id)
      PROVE  /\ proposals[id].status = "Active"
             /\ proposals' = [proposals EXCEPT ![id] = [proposals[id] EXCEPT !.status = "Cancelled"]]
  BY <1>3 DEF CancelProposal
<1>4. ASSUME ExecuteProposal(id)
      PROVE  /\ ProposalStatus(proposals[id]) = "Passed"
             /\ proposals' = [proposals EXCEPT ![id] = [proposals[id] EXCEPT !.status = "Executed"]]
  BY <1>4 DEF ExecuteProposal
<1> QED BY <1>1, <1>2, <1>3, <1>4

(* They keep the type. *)
LEMMA ProposalsKept ==
  ASSUME ProposalsTyped, ProposalStep
  PROVE  ProposalsTyped'
<1>1. ASSUME NEW a, CreateProposal(a) PROVE ProposalsTyped'
  <2> DEFINE new == [proposer |-> a, votes |-> [c \in VoteChoice |-> 0], status |-> "Active",
                     expires_at |-> clock + PROPOSAL_DURATION]
  <2>1. proposals' = Append(proposals, new) /\ {"status", "votes"} \subseteq DOMAIN new
    BY <1>1 DEF CreateProposal
  <2> HIDE DEF new
  <2>2. Inserted(proposals, new, proposals')
    BY <2>1, AppendedRow DEF ProposalsTyped
  <2> QED BY <2>1, <2>2 DEF Inserted, ProposalsTyped
<1>2. ASSUME NEW id \in DOMAIN proposals, NEW row, proposals' = [proposals EXCEPT ![id] = row],
             DOMAIN row = DOMAIN proposals[id]
      PROVE  ProposalsTyped'
  <2>1. Replaced(proposals, id, row, proposals')
    BY <1>2, UpdatedRow DEF ProposalsTyped
  <2> QED BY <1>2, <2>1 DEF Replaced, ProposalsTyped
<1>3. ASSUME NEW id \in DOMAIN proposals,
             \/ \E a, choice : Vote(a, id, choice)
             \/ \E a : CancelProposal(a, id)
             \/ ExecuteProposal(id)
      PROVE  ProposalsTyped'
  <2>1. PICK row : proposals' = [proposals EXCEPT ![id] = row] /\ DOMAIN row = DOMAIN proposals[id]
    BY <1>3, ProposalCalls
  <2> QED BY <1>2, <2>1
<1> QED BY <1>1, <1>3 DEF ProposalStep, ProposalsTyped

(* What OutcomeIsSettled says of a proposal. *)
Settled(id) ==
  LET status == ProposalStatus(proposals[id])
  IN  /\ status # "Active" => proposals'[id].votes = proposals[id].votes
      /\ status \in {"Executed", "Cancelled"} => proposals'[id].status = status
      /\ proposals'[id].status = "Executed" => status \in {"Passed", "Executed"}

(* A proposal that is not written is settled. *)
LEMMA UntouchedIsSettled ==
  ASSUME NEW id, proposals'[id] = proposals[id]
  PROVE  Settled(id)
BY DEF Settled, ProposalStatus

(* Each step settles what it has to. *)
LEMMA StepSettles ==
  ASSUME ProposalsTyped, ProposalStep, NEW id \in DOMAIN proposals
  PROVE  Settled(id)
<1>1. CASE UNCHANGED proposals
  BY <1>1, UntouchedIsSettled
<1>2. ASSUME NEW a, CreateProposal(a) PROVE Settled(id)
  <2>1. PICK new : proposals' = Append(proposals, new)
    BY <1>2 DEF CreateProposal
  <2>2. proposals'[id] = proposals[id]
    BY <2>1, AppendedRow DEF Inserted, ProposalsTyped
  <2> QED BY <2>2, UntouchedIsSettled
<1>3. ASSUME NEW p \in DOMAIN proposals, NEW row, proposals' = [proposals EXCEPT ![p] = row], p # id
      PROVE  Settled(id)
  BY <1>3, UntouchedIsSettled
<1>4. ASSUME NEW a, NEW choice, Vote(a, id, choice) PROVE Settled(id)
  <2>1. ProposalStatus(proposals[id]) = "Active"
    BY <1>4, ProposalCalls DEF ProposalStatus
  <2>2. PICK votes : proposals' = [proposals EXCEPT ![id] = [proposals[id] EXCEPT !.votes = votes]]
    BY <1>4, ProposalCalls
  <2>3. proposals'[id].status = "Active"
    BY <1>4, <2>2, ProposalCalls DEF ProposalsTyped
  <2> QED BY <2>1, <2>3 DEF Settled
<1>5. ASSUME NEW a, CancelProposal(a, id) PROVE Settled(id)
  <2>1. /\ proposals[id].status = "Active"
        /\ proposals'[id] = [proposals[id] EXCEPT !.status = "Cancelled"]
    BY <1>5, ProposalCalls
  <2>2. ProposalStatus(proposals[id]) \notin {"Executed", "Cancelled"}
    BY <2>1 DEF ProposalStatus
  <2>3. proposals'[id].votes = proposals[id].votes /\ proposals'[id].status = "Cancelled"
    BY <2>1 DEF ProposalsTyped
  <2> QED BY <2>2, <2>3 DEF Settled
<1>6. ASSUME ExecuteProposal(id) PROVE Settled(id)
  <2>1. /\ ProposalStatus(proposals[id]) = "Passed"
        /\ proposals'[id] = [proposals[id] EXCEPT !.status = "Executed"]
    BY <1>6, ProposalCalls
  <2>2. proposals'[id].votes = proposals[id].votes
    BY <2>1 DEF ProposalsTyped
  <2> QED BY <2>1, <2>2 DEF Settled
<1>7. ASSUME NEW p \in DOMAIN proposals,
             \/ \E a \in Council, choice \in {"Yes", "No"} : Vote(a, p, choice)
             \/ \E a \in Council : CancelProposal(a, p)
             \/ ExecuteProposal(p)
      PROVE  Settled(id)
  <2>1. PICK row : proposals' = [proposals EXCEPT ![p] = row]
    BY <1>7, ProposalCalls
  <2> QED BY <1>3, <1>4, <1>5, <1>6, <1>7, <2>1
<1> QED BY <1>1, <1>2, <1>7 DEF ProposalStep

(* The result of a vote is that at its end, only a passed proposal is      *)
(* executed, and what is executed or cancelled stays so.                   *)
THEOREM VotesAreSettled == GovernanceSpec => OutcomeIsSettled
<1>1. GovernanceInit => ProposalsTyped
  BY EmptyIsSeq DEF GovernanceInit, ProposalsTyped
<1>2. ProposalsTyped /\ [GovernanceNext]_<<clock, governanceVars>> => ProposalsTyped'
  BY StepsOfProposals, ProposalsKept
<1>3. ProposalsTyped /\ [GovernanceNext]_<<clock, governanceVars>>
      => [\A id \in DOMAIN proposals :
            LET status == ProposalStatus(proposals[id])
            IN  /\ status # "Active" => proposals'[id].votes = proposals[id].votes
                /\ status \in {"Executed", "Cancelled"} => proposals'[id].status = status
                /\ proposals'[id].status = "Executed" => status \in {"Passed", "Executed"}
         ]_<<clock, governanceVars>>
  BY StepsOfProposals, StepSettles DEF Settled
<1> QED BY <1>1, <1>2, <1>3, PTL DEF GovernanceSpec, OutcomeIsSettled

-----------------------------------------------------------------------------
(* Delegations.  The inductive invariant: the accounts can be ranked so    *)
(* that every delegation goes to a higher one, and the lists of delegators *)
(* name exactly those who delegate, each once.                             *)

(* The accounts met on the way of n delegations, as DelegatesFrom follows  *)
(* them.                                                                   *)
Hops(map, account, n) ==
  CHOOSE at : at = [k \in 0..n |->
    IF k = 0 THEN account ELSE IF at[k - 1] \in DOMAIN map THEN map[at[k - 1]] ELSE at[k - 1]]

(* The way is followed step by step.                                       *)
LEMMA HopsDef ==
  ASSUME NEW map, NEW account, NEW n \in Nat, NEW at, at = Hops(map, account, n)
  PROVE  /\ at[0] = account
         /\ \A k \in 1..n : at[k] = IF at[k - 1] \in DOMAIN map THEN map[at[k - 1]] ELSE at[k - 1]
<1> DEFINE Way(g, k) == g = [i \in 0..k |->
             IF i = 0 THEN account ELSE IF g[i - 1] \in DOMAIN map THEN map[g[i - 1]] ELSE g[i - 1]]
           T == {k \in Nat : \E g : Way(g, k)}
<1>1. 0 \in T
  <2> DEFINE g == [i \in 0..0 |-> account]
  <2>1. Way(g, 0)
    OBVIOUS
  <2> QED BY <2>1
<1>2. ASSUME NEW k \in Nat, k \in T PROVE k + 1 \in T
  <2>1. PICK f : Way(f, k)
    BY <1>2
  <2> DEFINE last == IF f[k] \in DOMAIN map THEN map[f[k]] ELSE f[k]
             g == [i \in 0..(k + 1) |-> IF i = k + 1 THEN last ELSE f[i]]
  <2>2. ASSUME NEW i \in 0..(k + 1)
        PROVE  g[i] = IF i = 0 THEN account ELSE IF g[i - 1] \in DOMAIN map THEN map[g[i - 1]] ELSE g[i - 1]
    <3>1. CASE i = k + 1
      <4>1. g[k] = f[k] /\ k \in 0..(k + 1) /\ i - 1 = k /\ i # 0
        BY <3>1
      <4>2. g[i] = last
        BY <3>1
      <4> HIDE DEF g
      <4> QED BY <4>1, <4>2
    <3>2. CASE i # k + 1 /\ i # 0
      <4>1. i - 1 \in 0..k /\ i \in 0..k /\ g[i - 1] = f[i - 1] /\ g[i] = f[i]
        BY <3>2
      <4>2. f[i] = IF f[i - 1] \in DOMAIN map THEN map[f[i - 1]] ELSE f[i - 1]
        BY <2>1, <3>2, <4>1
      <4> HIDE DEF g
      <4> QED BY <3>2, <4>1, <4>2
    <3>3. CASE i = 0
      BY <2>1, <3>3
    <3> QED BY <3>1, <3>2, <3>3
  <2>3. Way(g, k + 1)
    BY <2>2
  <2> HIDE DEF g, Way
  <2> QED BY <2>3
<1>3. Nat \subseteq T
  <2> HIDE DEF T
  <2> QED BY <1>1, <1>2, SetInduction
<1>4. Way(at, n)
  BY <1>3 DEF Hops
<1>5. at = [k \in 0..n |->
        IF k = 0 THEN account ELSE IF at[k - 1] \in DOMAIN map THEN map[at[k - 1]] ELSE at[k - 1]]
  BY <1>4
<1> HIDE DEF T, Way
<1>6. at[0] = account
  BY <1>5
<1>7. ASSUME NEW k \in 1..n
      PROVE  at[k] = IF at[k - 1] \in DOMAIN map THEN map[at[k - 1]] ELSE at[k - 1]
  <2>1. k \in 0..n /\ k # 0
    OBVIOUS
  <2> QED BY <1>5, <2>1
<1> QED BY <1>6, <1>7

(* Every account that delegates is ranked below the one it delegates to.   *)
Ranks(rank, map, S) ==
  /\ DOMAIN map \subseteq S /\ \A x \in DOMAIN map : map[x] \in S
  /\ \A x \in S : rank[x] \in Nat
  /\ \A x \in DOMAIN map : rank[x] < rank[map[x]]

(* Those met are ranked ever higher while the way goes on.                 *)
LEMMA HopsClimb ==
  ASSUME NEW S, NEW map, NEW rank, Ranks(rank, map, S),
         NEW start, start \in S, NEW n, n \in Nat, NEW at, at = Hops(map, start, n)
  PROVE  \A k \in 0..n :
           /\ at[k] \in S /\ rank[start] <= rank[at[k]]
           /\ at[k] \in DOMAIN map => \A i \in 0..(k - 1) : at[i] \in DOMAIN map /\ rank[at[i]] < rank[at[k]]
<1> USE DEF Ranks
<1> DEFINE Climbs(k) ==
             /\ at[k] \in S /\ rank[start] <= rank[at[k]]
             /\ at[k] \in DOMAIN map => \A i \in 0..(k - 1) : at[i] \in DOMAIN map /\ rank[at[i]] < rank[at[k]]
           T == {k \in Nat : k <= n => \A j \in 0..k : Climbs(j)}
<1>1. /\ at[0] = start
      /\ \A k \in 1..n : at[k] = IF at[k - 1] \in DOMAIN map THEN map[at[k - 1]] ELSE at[k - 1]
  BY HopsDef
<1>2. 0 \in T
  <2>1. Climbs(0)
    BY <1>1
  <2> QED BY <2>1
<1>3. ASSUME NEW k \in Nat, k \in T PROVE k + 1 \in T
  <2> SUFFICES ASSUME k + 1 <= n PROVE \A j \in 0..(k + 1) : Climbs(j)
    OBVIOUS
  <2>1. \A j \in 0..k : Climbs(j)
    BY <1>3
  <2>2. at[k + 1] = IF at[k] \in DOMAIN map THEN map[at[k]] ELSE at[k]
    BY <1>1
  <2>3. Climbs(k + 1)
    <3>1. CASE at[k] \in DOMAIN map
      <4>1. /\ at[k + 1] = map[at[k]] /\ rank[at[k]] < rank[at[k + 1]]
            /\ at[k + 1] \in S /\ at[k] \in S
        BY <2>2, <3>1
      <4>2. /\ rank[start] \in Nat /\ rank[at[k]] \in Nat /\ rank[at[k + 1]] \in Nat
            /\ rank[start] <= rank[at[k]]
        BY <2>1, <4>1
      <4>3. ASSUME NEW i \in 0..k PROVE at[i] \in DOMAIN map /\ rank[at[i]] < rank[at[k + 1]]
        <5>1. CASE i = k
          BY <3>1, <4>1, <5>1
        <5>2. CASE i # k
          <6>1. at[i] \in DOMAIN map /\ rank[at[i]] < rank[at[k]] /\ at[i] \in S
            BY <2>1, <3>1, <5>2
          <6>2. rank[at[i]] \in Nat
            BY <6>1
          <6> QED BY <4>1, <4>2, <6>1, <6>2
        <5> QED BY <5>1, <5>2
      <4> QED BY <4>1, <4>2, <4>3
    <3>2. CASE at[k] \notin DOMAIN map
      BY <2>1, <2>2, <3>2
    <3> QED BY <3>1, <3>2
  <2> HIDE DEF Climbs
  <2> QED BY <2>1, <2>3
<1>4. Nat \subseteq T
  <2> HIDE DEF T
  <2> QED BY <1>2, <1>3, SetInduction
<1> HIDE DEF Climbs
<1>5. \A k \in 0..n : Climbs(k)
  BY <1>4
<1> QED BY <1>5 DEF Climbs

(* After as many delegations as there are the way has ended.               *)
LEMMA WayEnds ==
  ASSUME NEW S, NEW map, NEW rank, Ranks(rank, map, S), IsFiniteSet(DOMAIN map),
         NEW start, start \in S, NEW n, n = Cardinality(DOMAIN map), NEW at, at = Hops(map, start, n)
  PROVE  n \in Nat /\ at[n] \notin DOMAIN map
<1> DEFINE D == DOMAIN map
<1>1. n \in Nat
  BY FS_CardinalityType
<1>2. \A k \in 0..n :
        /\ at[k] \in S
        /\ at[k] \in D => \A i \in 0..(k - 1) : at[i] \in D /\ rank[at[i]] < rank[at[k]]
  BY <1>1, HopsClimb
<1>3. ASSUME at[n] \in D PROVE FALSE
  <2> DEFINE f == [i \in 0..n |-> at[i]]
             I == 0..n
  <2>1. \A i \in I : at[i] \in D
    BY <1>1, <1>2, <1>3
  <2>2. f \in [I -> D]
    BY <2>1
  <2>3. IsFiniteSet(I) /\ Cardinality(I) = n + 1
    BY <1>1, FS_Interval
  <2>4. Cardinality(D) < Cardinality(I)
    BY <1>1, <2>3
  <2>5. \A i \in I : f[i] = at[i]
    OBVIOUS
  <2> HIDE DEF f, I, D
  <2>6. IsFiniteSet(D)
    BY DEF D
  <2>7. PICK i \in I, j \in I : i # j /\ f[i] = f[j]
    BY <2>2, <2>3, <2>4, <2>6, FS_PigeonHole
  <2>8. \A k, l \in I : k < l => rank[at[k]] < rank[at[l]]
    BY <1>1, <1>2, <2>1 DEF I
  <2>9. rank[at[i]] \in Nat /\ at[i] = at[j] /\ i \in Nat /\ j \in Nat
    BY <1>2, <2>5, <2>7 DEF I, Ranks
  <2> QED BY <2>7, <2>8, <2>9
<1> QED BY <1>1, <1>3

(* A delegation to one whose way does not lead back leaves a ranking.      *)
LEMMA StillRanked ==
  ASSUME NEW S, NEW map, NEW rank, Ranks(rank, map, S), IsFiniteSet(DOMAIN map),
         NEW d, d \in S, NEW e, e \in S, NEW n, n = Cardinality(DOMAIN map),
         NEW at, at = Hops(map, e, n), \A k \in 0..n : at[k] # d,
         NEW new, new = Put(map, d, e)
  PROVE  \E r : Ranks(r, new, S)
<1> DEFINE Met == {at[k] : k \in 0..n}
           r == [x \in S |-> IF x \in Met THEN rank[x] + rank[d] + 1 ELSE rank[x]]
<1>1. n \in Nat /\ at[n] \notin DOMAIN map
  BY WayEnds
<1>2. /\ at[0] = e
      /\ \A k \in 1..n : at[k] = IF at[k - 1] \in DOMAIN map THEN map[at[k - 1]] ELSE at[k - 1]
  BY <1>1, HopsDef
<1>3. e \in Met /\ d \notin Met
  BY <1>1, <1>2
<1>4. ASSUME NEW x \in Met, x \in DOMAIN map PROVE map[x] \in Met
  <2>1. PICK k \in 0..n : x = at[k]
    BY <1>4
  <2>2. k # n
    BY <1>1, <1>4, <2>1
  <2>3. k + 1 \in 1..n /\ k + 1 \in 0..n /\ (k + 1) - 1 = k
    BY <1>1, <2>2
  <2>4. at[k + 1] = map[x]
    BY <1>2, <1>4, <2>1, <2>3
  <2> QED BY <2>3, <2>4
<1> HIDE DEF Met
<1>5. /\ DOMAIN new = DOMAIN map \cup {d} /\ new[d] = e
      /\ \A x \in DOMAIN map \ {d} : new[x] = map[x]
  BY DEF Put
<1>6. \A x \in S : r[x] = IF x \in Met THEN rank[x] + rank[d] + 1 ELSE rank[x]
  OBVIOUS
<1> HIDE DEF r
<1>7. \A x \in S : rank[x] \in Nat
  BY DEF Ranks
<1>8. \A x \in S : r[x] \in Nat
  BY <1>6, <1>7
<1>9. r[d] < r[e]
  BY <1>3, <1>6, <1>7
<1>10. ASSUME NEW x \in DOMAIN map \ {d} PROVE r[x] < r[map[x]]
  <2>1. x \in S /\ map[x] \in S /\ rank[x] < rank[map[x]]
    BY DEF Ranks
  <2>2. rank[x] \in Nat /\ rank[map[x]] \in Nat /\ rank[d] \in Nat
    BY <1>7, <2>1
  <2>3. CASE x \in Met
    BY <1>4, <1>6, <2>1, <2>2, <2>3
  <2>4. CASE x \notin Met
    BY <1>6, <2>1, <2>2, <2>4
  <2> QED BY <2>3, <2>4
<1>11. Ranks(r, new, S)
  <2>1. DOMAIN new \subseteq S /\ \A x \in DOMAIN new : new[x] \in S
    BY <1>5 DEF Ranks
  <2>2. \A x \in DOMAIN new : r[x] < r[new[x]]
    BY <1>5, <1>9, <1>10
  <2> QED BY <1>8, <2>1, <2>2 DEF Ranks
<1> QED BY <1>11

(* The lists of delegators: who is listed with whom. *)
Listed(map, d, a) == d \in DOMAIN map /\ InSeq(map[d], a)

Lists(map) == \A d \in DOMAIN map : map[d] \in ListOf(Council) /\ Distinct(map[d])

(* The empty list is a list. *)
LEMMA NobodyListed ==
  << >> \in ListOf(Council) /\ Distinct(<< >>) /\ \A x : ~InSeq(<< >>, x)
<1>1. << >> \in Seq(Council) /\ DOMAIN << >> = {}
  OBVIOUS
<1> QED BY <1>1 DEF ListOf, Distinct, InSeq

(* An account is listed, once. *)
LEMMA DelegatorListed ==
  ASSUME NEW map, Lists(map), NEW d, NEW a, a \in Council, NEW new, new = WithDelegator(map, d, a)
  PROVE  Lists(new) /\ \A e, x : Listed(new, e, x) <=> Listed(map, e, x) \/ (e = d /\ x = a)
<1> DEFINE s == Stored(map, d, << >>)
           t == PushNew(s, a)
<1>1. s \in ListOf(Council) /\ Distinct(s) /\ \A x : InSeq(s, x) <=> Listed(map, d, x)
  BY NobodyListed DEF Stored, Lists, Listed
<1>2. new = Put(map, d, t)
  BY DEF WithDelegator
<1> HIDE DEF s
<1>3. t \in ListOf(Council) /\ Distinct(t) /\ \A x : InSeq(t, x) <=> InSeq(s, x) \/ x = a
  <2>1. CASE InSeq(s, a)
    BY <1>1, <2>1 DEF PushNew
  <2>2. CASE ~InSeq(s, a)
    <3>1. t = Append(s, a)
      BY <2>2 DEF PushNew
    <3> HIDE DEF t
    <3>2. IsSeq(s)
      BY <1>1 DEF IsSeq, ListOf
    <3>3. Distinct(t) /\ \A x : InSeq(t, x) <=> InSeq(s, x) \/ x = a
      BY <1>1, <2>2, <3>1, <3>2, AppendKeeps
    <3>4. t \in ListOf(Council)
      BY <1>1, <3>1 DEF ListOf
    <3> QED BY <3>3, <3>4
  <2> QED BY <2>1, <2>2
<1> HIDE DEF t
<1>4. /\ DOMAIN new = DOMAIN map \cup {d} /\ new[d] = t
      /\ \A e \in DOMAIN map \ {d} : new[e] = map[e]
  BY <1>2 DEF Put
<1>5. Lists(new)
  BY <1>3, <1>4 DEF Lists
<1>6. ASSUME NEW e, NEW x PROVE Listed(new, e, x) <=> Listed(map, e, x) \/ (e = d /\ x = a)
  <2>1. CASE e = d
    BY <1>1, <1>3, <1>4, <2>1 DEF Listed
  <2>2. CASE e # d
    BY <1>4, <2>2 DEF Listed
  <2> QED BY <2>1, <2>2
<1> QED BY <1>5, <1>6

(* An account is taken off the list. *)
LEMMA DelegatorRemoved ==
  ASSUME NEW map, Lists(map), NEW d, NEW a, NEW new, new = WithoutDelegator(map, d, a)
  PROVE  Lists(new) /\ \A e, x : Listed(new, e, x) <=> Listed(map, e, x) /\ ~(e = d /\ x = a)
<1> DEFINE s == Stored(map, d, << >>)
           t == Without(s, {a})
<1>1. s \in ListOf(Council) /\ Distinct(s) /\ \A x : InSeq(s, x) <=> Listed(map, d, x)
  BY NobodyListed DEF Stored, Lists, Listed
<1>2. new = IF t = << >> THEN Drop(map, d) ELSE Put(map, d, t)
  BY DEF WithoutDelegator
<1> HIDE DEF s
<1>3. t \in ListOf(Council) /\ Distinct(t) /\ \A x : InSeq(t, x) <=> InSeq(s, x) /\ x # a
  BY <1>1, WithoutKeeps
<1> HIDE DEF t
<1>4. CASE t = << >>
  <2>1. DOMAIN new = DOMAIN map \ {d} /\ \A e \in DOMAIN map \ {d} : new[e] = map[e]
    BY <1>2, <1>4 DEF Drop
  <2>2. Lists(new)
    BY <2>1 DEF Lists
  <2>3. \A x : ~InSeq(t, x)
    BY <1>4, NobodyListed
  <2>4. ASSUME NEW e, NEW x PROVE Listed(new, e, x) <=> Listed(map, e, x) /\ ~(e = d /\ x = a)
    <3>1. CASE e = d
      BY <1>1, <1>3, <2>1, <2>3, <3>1 DEF Listed
    <3>2. CASE e # d
      BY <2>1, <3>2 DEF Listed
    <3> QED BY <3>1, <3>2
  <2> QED BY <2>2, <2>4
<1>5. CASE t # << >>
  <2>1. /\ DOMAIN new = DOMAIN map \cup {d} /\ new[d] = t
        /\ \A e \in DOMAIN map \ {d} : new[e] = map[e]
    BY <1>2, <1>5 DEF Put
  <2>2. Lists(new)
    BY <1>3, <2>1 DEF Lists
  <2>3. ASSUME NEW e, NEW x PROVE Listed(new, e, x) <=> Listed(map, e, x) /\ ~(e = d /\ x = a)
    <3>1. CASE e = d
      BY <1>1, <1>3, <2>1, <3>1 DEF Listed
    <3>2. CASE e # d
      BY <2>1, <3>2 DEF Listed
    <3> QED BY <3>1, <3>2
  <2> QED BY <2>2, <2>3
<1> QED BY <1>4, <1>5

DelegationInv ==
  /\ \E rank : Ranks(rank, delegation, Council)
  /\ Lists(delegators)
  /\ \A d, a : Listed(delegators, d, a) <=> a \in DOMAIN delegation /\ delegation[a] = d

(* Delegating keeps the invariant: the check has found no way back. *)
LEMMA DelegationKept ==
  ASSUME DelegationInv, NEW a \in Council, NEW d \in Council, DelegateVotes(a, d)
  PROVE  DelegationInv'
<1> DEFINE n == Cardinality(DOMAIN delegation)
           at == Hops(delegation, d, n)
           former == delegation[a]
           others == IF a \in DOMAIN delegation THEN WithoutDelegator(delegators, former, a) ELSE delegators
<1>1. /\ a \notin DelegatesFrom(d)
      /\ delegators' = WithDelegator(others, d, a) /\ delegation' = Put(delegation, a, d)
  BY DEF DelegateVotes, CircularDelegation
<1>2. PICK rank : Ranks(rank, delegation, Council)
  BY DEF DelegationInv
<1>3. IsFiniteSet(DOMAIN delegation)
  BY <1>2, GovernanceAssumption, FS_Subset DEF Ranks
<1>4. \A k \in 0..n : at[k] # a
  BY <1>1 DEF DelegatesFrom, Hops
<1>5. \E r : Ranks(r, delegation', Council)
  <2> HIDE DEF n, at
  <2>1. n = Cardinality(DOMAIN delegation) /\ at = Hops(delegation, d, n)
    BY DEF n, at
  <2> QED BY <1>1, <1>2, <1>3, <1>4, <2>1, StillRanked
<1>6. Lists(others) /\ \A e, x : Listed(others, e, x) <=> Listed(delegators, e, x) /\ x # a
  <2>1. CASE a \in DOMAIN delegation
    <3>1. Lists(others) /\ \A e, x : Listed(others, e, x) <=> Listed(delegators, e, x) /\ ~(e = former /\ x = a)
      BY <2>1, DelegatorRemoved DEF DelegationInv
    <3>2. \A e : Listed(delegators, e, a) <=> e = former
      BY <2>1 DEF DelegationInv
    <3> HIDE DEF others
    <3> QED BY <3>1, <3>2
  <2>2. CASE a \notin DOMAIN delegation
    BY <2>2 DEF DelegationInv
  <2> QED BY <2>1, <2>2
<1> HIDE DEF others
<1>7. /\ Lists(delegators')
      /\ \A e, x : Listed(delegators', e, x) <=> Listed(others, e, x) \/ (e = d /\ x = a)
  BY <1>1, <1>6, DelegatorListed
<1>8. /\ DOMAIN delegation' = DOMAIN delegation \cup {a} /\ delegation'[a] = d
      /\ \A x \in DOMAIN delegation \ {a} : delegation'[x] = delegation[x]
  BY <1>1 DEF Put
<1>9. ASSUME NEW e, NEW x
      PROVE  Listed(delegators', e, x) <=> x \in DOMAIN delegation' /\ delegation'[x] = e
  <2>1. Listed(delegators, e, x) <=> x \in DOMAIN delegation /\ delegation[x] = e
    BY DEF DelegationInv
  <2>2. CASE x = a
    BY <1>6, <1>7, <1>8, <2>2
  <2>3. CASE x # a
    BY <1>6, <1>7, <1>8, <2>1, <2>3
  <2> QED BY <2>2, <2>3
<1> QED BY <1>5, <1>7, <1>9 DEF DelegationInv

(* Taking a delegation back keeps the invariant. *)
LEMMA DelegationEnded ==
  ASSUME DelegationInv, NEW a \in Council, UndelegateVotes(a)
  PROVE  DelegationInv'
<1> DEFINE former == delegation[a]
<1>1. /\ a \in DOMAIN delegation
      /\ delegators' = WithoutDelegator(delegators, former, a) /\ delegation' = Drop(delegation, a)
  BY DEF UndelegateVotes
<1>2. /\ DOMAIN delegation' = DOMAIN delegation \ {a}
      /\ \A x \in DOMAIN delegation' : delegation'[x] = delegation[x]
  BY <1>1 DEF Drop
<1>3. PICK rank : Ranks(rank, delegation, Council)
  BY DEF DelegationInv
<1>4. Ranks(rank, delegation', Council)
  BY <1>2, <1>3 DEF Ranks
<1>5. /\ Lists(delegators')
      /\ \A e, x : Listed(delegators', e, x) <=> Listed(delegators, e, x) /\ ~(e = former /\ x = a)
  BY <1>1, DelegatorRemoved DEF DelegationInv
<1>6. ASSUME NEW e, NEW x
      PROVE  Listed(delegators', e, x) <=> x \in DOMAIN delegation' /\ delegation'[x] = e
  <2>1. Listed(delegators, e, x) <=> x \in DOMAIN delegation /\ delegation[x] = e
    BY DEF DelegationInv
  <2> QED BY <1>1, <1>2, <1>5, <2>1
<1> QED BY <1>4, <1>5, <1>6 DEF DelegationInv

(* However often votes are delegated, delegated on and taken back, the     *)
(* lists that voting power is counted from name exactly those who          *)
(* delegate, each once, and no delegation leads back to its delegator.     *)
THEOREM DelegationsStraight == GovernanceSpec => []DelegatorsAgree
<1>1. GovernanceInit => DelegationInv
  <2> SUFFICES ASSUME GovernanceInit PROVE DelegationInv
    OBVIOUS
  <2>1. DOMAIN delegation = {} /\ DOMAIN delegators = {}
    BY DEF GovernanceInit, EmptyMap
  <2> DEFINE r == [x \in Council |-> 0]
  <2>2. Ranks(r, delegation, Council)
    BY <2>1 DEF Ranks
  <2> QED BY <2>1, <2>2 DEF DelegationInv, Lists, Listed
<1>2. DelegationInv /\ [GovernanceNext]_<<clock, governanceVars>> => DelegationInv'
  <2> SUFFICES ASSUME DelegationInv, [GovernanceNext]_<<clock, governanceVars>> PROVE DelegationInv'
    OBVIOUS
  <2>1. ASSUME UNCHANGED delegationVars PROVE DelegationInv'
    <3>1. delegation' = delegation /\ delegators' = delegators
      BY <2>1 DEF delegationVars
    <3> QED BY <3>1 DEF DelegationInv
  <2>2. ASSUME SigningNext PROVE DelegationInv'
    BY <2>1, <2>2
    DEF SigningNext, UpdateMultiSigConfig, ProposeTransaction, SignTransaction, ExecuteTransaction,
        UpdateParameter, SetGovRole, SetGovPaused, AddControlledContract
  <2>3. ASSUME VotingNext PROVE DelegationInv'
    <3>1. ASSUME NEW a \in Council, NEW d \in Council, DelegateVotes(a, d) PROVE DelegationInv'
      BY <3>1, DelegationKept
    <3>2. ASSUME NEW a \in Council, UndelegateVotes(a) PROVE DelegationInv'
      BY <3>2, DelegationEnded
    <3>3. ASSUME \/ \E a \in Council : CreateProposal(a)
                 \/ \E a \in Council, id \in DOMAIN proposals :
                      \/ \E choice \in {"Yes", "No"} : Vote(a, id, choice)
                      \/ CancelProposal(a, id)
                 \/ \E id \in DOMAIN proposals : ExecuteProposal(id)
                 \/ \E b \in TokenBalance : SetTokenBalance(b.account, b.amount)
          PROVE  DelegationInv'
      BY <2>1, <3>3 DEF CreateProposal, Vote, CancelProposal, ExecuteProposal, SetTokenBalance
    <3> QED BY <2>3, <3>1, <3>2, <3>3 DEF VotingNext
  <2> QED BY <2>1, <2>2, <2>3 DEF GovernanceNext, governanceVars
<1>3. DelegationInv => DelegatorsAgree
  <2> SUFFICES ASSUME DelegationInv PROVE DelegatorsAgree
    OBVIOUS
  <2>1. PICK rank : Ranks(rank, delegation, Council)
    BY DEF DelegationInv
  <2>2. ASSUME NEW a \in DOMAIN delegation
        PROVE  /\ delegation[a] \in DOMAIN delegators /\ InSeq(delegators[delegation[a]], a)
               /\ VotingPower(a) = 0
    BY DEF DelegationInv, Listed, VotingPower
  <2>3. ASSUME NEW a \in DOMAIN delegation PROVE ~CircularDelegation(a, delegation[a])
    <3> DEFINE n == Cardinality(DOMAIN delegation)
               d == delegation[a]
               at == Hops(delegation, d, n)
    <3>1. d \in Council /\ rank[a] < rank[d] /\ a \in Council /\ \A x \in Council : rank[x] \in Nat
      BY <2>1 DEF Ranks
    <3>2. n \in Nat
      BY <2>1, GovernanceAssumption, FS_Subset, FS_CardinalityType DEF Ranks
    <3>3. DelegatesFrom(d) = {at[k] : k \in 0..n}
      BY DEF DelegatesFrom, Hops
    <3> HIDE DEF n, d
    <3>4. at = Hops(delegation, d, n)
      OBVIOUS
    <3> HIDE DEF at
    <3>5. \A k \in 0..n : at[k] \in Council /\ rank[d] <= rank[at[k]]
      BY <2>1, <3>1, <3>2, <3>4, HopsClimb
    <3>6. \A k \in 0..n : at[k] # a
      BY <3>1, <3>5
    <3> QED BY <3>3, <3>6 DEF CircularDelegation, d
  <2>4. ASSUME NEW d \in DOMAIN delegators, NEW i \in DOMAIN delegators[d], NEW j \in DOMAIN delegators[d]
        PROVE  /\ delegators[d][i] \in DOMAIN delegation /\ delegation[delegators[d][i]] = d
               /\ delegators[d][i] = delegators[d][j] => i = j
    <3>1. Listed(delegators, d, delegators[d][i])
      BY DEF Listed, InSeq
    <3>2. delegators[d][i] \in DOMAIN delegation /\ delegation[delegators[d][i]] = d
      BY <3>1 DEF DelegationInv
    <3>3. Distinct(delegators[d])
      BY DEF DelegationInv, Lists
    <3> QED BY <3>2, <3>3 DEF Distinct
  <2> QED BY <2>2, <2>3, <2>4 DEF DelegatorsAgree
<1> QED BY <1>1, <1>2, <1>3, PTL DEF GovernanceSpec

-----------------------------------------------------------------------------
(* Keys and messages.  The newest key is active, so a message is sealed    *)
(* with it; what a handler has read of keys and messages is still there    *)
(* when it writes, because rows are only added.                            *)

SealedRow ==
  [status : {"pending", "delivered", "failed"}, key : DOMAIN message_keys, unlock_at : Nat]

KeysTyped ==
  /\ IsSeq(message_keys)
  /\ \A k \in DOMAIN message_keys : message_keys[k] \in {"active", "retired"}

SealedTyped ==
  /\ IsSeq(sealed) /\ \A m \in DOMAIN sealed : sealed[m] \in SealedRow
  /\ IsSeq(deliveries) /\ DOMAIN deliveries = DOMAIN sealed /\ Len(deliveries) = Len(sealed)
  /\ \A m \in DOMAIN deliveries : deliveries[m] \in Nat

SealRequests ==
  \A w \in Worker : At(w, "seal") =>
    requests[w].key \in DOMAIN message_keys /\ requests[w].unlock_at \in Nat

KeyInv ==
  /\ Workers /\ clock \in Nat
  /\ KeysTyped /\ NewestKeyIsActive
  /\ SealedTyped /\ SealRequests

(* A rotation or the first key leaves the new key active. *)
LEMMA KeyCreated ==
  ASSUME KeysTyped, NEW retired, CreateKey(retired)
  PROVE  KeysTyped' /\ NewestKeyIsActive' /\ DOMAIN message_keys \subseteq DOMAIN message_keys'
<1> DEFINE kept == Retired(message_keys, retired)
<1>1. kept = [k \in DOMAIN message_keys |-> kept[k]]
  BY DEF Retired
<1>2. \A k \in DOMAIN message_keys : kept[k] \in {"active", "retired"}
  BY DEF Retired, KeysTyped
<1>3. message_keys' = Append(kept, "active")
  BY DEF CreateKey
<1> HIDE DEF kept
<1>4. IsSeq(kept) /\ DOMAIN kept = DOMAIN message_keys
  BY <1>1, UpdatedRows DEF KeysTyped
<1>5. Inserted(kept, "active", message_keys')
  BY <1>3, <1>4, AppendedRow
<1> QED BY <1>2, <1>4, <1>5 DEF Inserted, KeysTyped, NewestKeyIsActive

(* The key a message is sealed with is the newest one. *)
LEMMA SealedWithNewest ==
  ASSUME KeysTyped, NewestKeyIsActive, ActiveKeys # {}
  PROVE  NewestActive = Len(message_keys) /\ Len(message_keys) \in DOMAIN message_keys
<1>1. PICK S : message_keys \in Seq(S)
  BY DEF KeysTyped, IsSeq
<1>2. DOMAIN message_keys = 1..Len(message_keys) /\ Len(message_keys) \in Nat
  BY <1>1
<1>3. message_keys # <<>> /\ Len(message_keys) \in DOMAIN message_keys
  BY <1>1, <1>2 DEF ActiveKeys
<1>4. Len(message_keys) \in ActiveKeys /\ \A k \in ActiveKeys : k \in 1..Len(message_keys)
  BY <1>2, <1>3 DEF ActiveKeys, NewestKeyIsActive
<1>5. \A k \in ActiveKeys :
        (\A j \in ActiveKeys : j <= k) <=> k = Len(message_keys)
  BY <1>2, <1>4
<1> QED BY <1>3, <1>4, <1>5 DEF NewestActive

(* A statement that leaves the keys alone and reaches no seal. *)
LEMMA KeysLeft ==
  ASSUME KeyInv, UNCHANGED <<clock, message_keys>>, Workers', NoneReaches("seal"), SealedTyped'
  PROVE  KeyInv'
<1>1. SealRequests'
  BY DEF KeyInv, SealRequests, NoneReaches, At
<1> QED BY <1>1 DEF KeyInv, KeysTyped, NewestKeyIsActive

(* Nothing but a handler's memory changes. *)
LEMMA MemoryOnly ==
  ASSUME KeyInv, NEW w \in Worker, NEW r, requests' = [requests EXCEPT ![w] = r],
         r = Absent \/ r.stage # "seal",
         UNCHANGED <<clock, message_keys, sealed, deliveries>>
  PROVE  KeyInv'
<1>1. Workers' /\ NoneReaches("seal")
  BY OtherStage DEF KeyInv
<1>2. SealedTyped'
  BY DEF KeyInv, SealedTyped, SealedRow
<1> QED BY <1>1, <1>2, KeysLeft

(* The statements on keys. *)
LEMMA KeyStep ==
  ASSUME KeyInv, NEW w \in Worker, KeyNext(w), UNCHANGED clock
  PROVE  KeyInv'
<1>1. ASSUME EnsureKey(w) \/ RotateStart(w) \/ RotateRetire(w) \/ KeyVersion(w) PROVE KeyInv'
  BY <1>1, MemoryOnly
  DEF EnsureKey, RotateStart, RotateRetire, KeyVersion, Begin, Continue
<1>2. ASSUME KeyCommit(w) PROVE KeyInv'
  <2>1. PICK retired : CreateKey(retired)
    BY <1>2 DEF KeyCommit
  <2>2. /\ KeysTyped' /\ NewestKeyIsActive'
        /\ DOMAIN message_keys \subseteq DOMAIN message_keys'
    BY <2>1, KeyCreated DEF KeyInv
  <2>3. requests' = [requests EXCEPT ![w] = Absent] /\ UNCHANGED <<sealed, deliveries>>
    BY <1>2 DEF KeyCommit, Finish, Continue
  <2>4. Workers' /\ NoneReaches("seal")
    BY <2>3, OtherStage DEF KeyInv
  <2>5. SealRequests'
    BY <2>2, <2>4 DEF KeyInv, SealRequests, NoneReaches, At
  <2>6. \A row \in SealedRow : row \in SealedRow'
    BY <2>2 DEF SealedRow
  <2>7. SealedTyped'
    BY <2>3, <2>6 DEF KeyInv, SealedTyped
  <2> QED BY <1>2, <2>2, <2>4, <2>5, <2>7 DEF KeyInv
<1> QED BY <1>1, <1>2 DEF KeyNext

(* A message is sealed with the key that was the newest when it was read.  *)
LEMMA SealStep ==
  ASSUME KeyInv, NEW w \in Worker, SealNext(w), UNCHANGED clock
  PROVE  KeyInv'
<1>1. ASSUME NEW days \in UnlockDays, SealRead(w, days) PROVE KeyInv'
  <2> DEFINE r == [stage |-> "seal", key |-> NewestActive, unlock_at |-> clock + days]
  <2>1. NewestActive \in DOMAIN message_keys
    BY <1>1, SealedWithNewest DEF SealRead, KeyInv
  <2>2. clock + days \in Nat
    BY MessageServiceAssumption DEF KeyInv
  <2>3. r.key \in DOMAIN message_keys /\ r.unlock_at \in Nat
    BY <2>1, <2>2
  <2>4. requests' = [requests EXCEPT ![w] = r]
        /\ UNCHANGED <<message_keys, sealed, deliveries>>
    BY <1>1 DEF SealRead, Begin
  <2> HIDE DEF r
  <2>5. requests' = [v \in Worker |-> requests'[v]]
        /\ \A v \in Worker : requests'[v] = IF v = w THEN r ELSE requests[v]
    BY <2>4 DEF KeyInv, Workers
  <2>6. Workers' /\ SealRequests'
    BY <2>3, <2>4, <2>5 DEF KeyInv, Workers, SealRequests, At
  <2>7. SealedTyped'
    BY <2>4 DEF KeyInv, SealedTyped, SealedRow
  <2> QED BY <2>4, <2>6, <2>7 DEF KeyInv, KeysTyped, NewestKeyIsActive
<1>2. ASSUME SealInsert(w) PROVE KeyInv'
  <2> DEFINE row == [status |-> "pending", key |-> requests[w].key,
                     unlock_at |-> requests[w].unlock_at]
  <2>1. row \in SealedRow
    BY <1>2 DEF SealInsert, KeyInv, SealRequests, SealedRow
  <2>2. /\ sealed' = Append(sealed, row) /\ deliveries' = Append(deliveries, 0)
        /\ requests' = [requests EXCEPT ![w] = Absent] /\ message_keys' = message_keys
    BY <1>2 DEF SealInsert, Finish, Continue
  <2> HIDE DEF row
  <2>3. Inserted(sealed, row, sealed') /\ Inserted(deliveries, 0, deliveries')
    BY <2>2, AppendedRow DEF KeyInv, SealedTyped
  <2>4. SealedTyped'
    BY <2>1, <2>2, <2>3 DEF Inserted, KeyInv, SealedTyped, SealedRow
  <2>5. Workers' /\ NoneReaches("seal")
    BY <2>2, OtherStage DEF KeyInv
  <2> QED BY <2>2, <2>4, <2>5, KeysLeft
<1> QED BY <1>1, <1>2 DEF SealNext

(* A delivery writes the status of a message that is there. *)
LEMMA DeliveryStep ==
  ASSUME KeyInv, NEW w \in Worker, DeliveryNext(w), UNCHANGED clock
  PROVE  KeyInv'
<1>1. ASSUME DueScan(w) PROVE KeyInv'
  BY <1>1, MemoryOnly DEF DueScan, Begin
<1>2. ASSUME NEW m \in DOMAIN sealed, NextMessage(w, m), UNCHANGED message_keys,
             NEW status \in {"delivered", "failed"},
             sealed' = [sealed EXCEPT ![m].status = status],
             \/ deliveries' = deliveries
             \/ deliveries' = [deliveries EXCEPT ![m] = @ + 1]
      PROVE  KeyInv'
  <2>1. Workers' /\ NoneReaches("seal")
    <3>1. CASE requests[w].rows = {m}
      BY <1>2, <3>1, OtherStage DEF NextMessage, Finish, Continue, KeyInv
    <3>2. CASE requests[w].rows # {m}
      <4> DEFINE r == [requests[w] EXCEPT !.rows = @ \ {m}]
      <4>1. requests' = [requests EXCEPT ![w] = r] /\ r.stage # "seal"
        BY <1>2, <3>2 DEF NextMessage, Continue, At
      <4> HIDE DEF r
      <4> QED BY <4>1, OtherStage DEF KeyInv
    <3> QED BY <3>1, <3>2
  <2> DEFINE row == [sealed[m] EXCEPT !.status = status]
  <2>2. row \in SealedRow
    <3>1. sealed[m] \in SealedRow
      BY DEF KeyInv, SealedTyped
    <3> QED BY <3>1 DEF SealedRow
  <2>3. sealed' = [sealed EXCEPT ![m] = row]
    BY <1>2
  <2> HIDE DEF row
  <2>4. Replaced(sealed, m, row, sealed')
    BY <2>3, UpdatedRow DEF KeyInv, SealedTyped
  <2>5. /\ IsSeq(deliveries') /\ DOMAIN deliveries' = DOMAIN deliveries
        /\ Len(deliveries') = Len(deliveries)
        /\ \A k \in DOMAIN deliveries : deliveries'[k] \in Nat
    <3>1. CASE deliveries' = deliveries
      BY <3>1 DEF KeyInv, SealedTyped
    <3>2. CASE deliveries' = [deliveries EXCEPT ![m] = @ + 1]
      <4> DEFINE e == deliveries[m] + 1
      <4>1. e \in Nat /\ deliveries' = [deliveries EXCEPT ![m] = e]
        BY <3>2 DEF KeyInv, SealedTyped
      <4> HIDE DEF e
      <4>2. Replaced(deliveries, m, e, deliveries')
        BY <4>1, UpdatedRow DEF KeyInv, SealedTyped
      <4> QED BY <4>1, <4>2 DEF Replaced, KeyInv, SealedTyped
    <3> QED BY <1>2, <3>1, <3>2
  <2>6. SealedTyped'
    BY <1>2, <2>2, <2>4, <2>5 DEF Replaced, KeyInv, SealedTyped, SealedRow
  <2> QED BY <1>2, <2>1, <2>6, KeysLeft
<1>3. ASSUME NEW m \in DOMAIN sealed, DeliverSingle(w, m) \/ DeliverFails(w, m) PROVE KeyInv'
  BY <1>2, <1>3 DEF DeliverSingle, DeliverFails
<1> QED BY <1>1, <1>3 DEF DeliveryNext

(* Every step keeps the invariant. *)
LEMMA KeyInvKept ==
  ASSUME KeyInv,
         [(MessageServiceNext /\ UNCHANGED clock) \/
          ((\E d \in Steps : Tick(d)) /\ UNCHANGED messageServiceVars)]_<<clock, messageServiceVars>>
  PROVE  KeyInv'
<1>1. ASSUME UNCHANGED messageServiceVars, clock' \in Nat PROVE KeyInv'
  BY <1>1
  DEF messageServiceVars, KeyInv, Workers, KeysTyped, NewestKeyIsActive, SealedTyped, SealedRow,
      SealRequests, At
<1>2. ASSUME NEW d \in Steps, Tick(d) PROVE clock' \in Nat
  BY <1>2, ClockAssumption DEF Tick, KeyInv
<1>3. ASSUME NEW w \in Worker, RollBack(w), UNCHANGED <<clock, message_keys, sealed, deliveries>>
      PROVE  KeyInv'
  BY <1>3, MemoryOnly DEF RollBack, Finish, Continue
<1>4. clock \in Nat
  BY DEF KeyInv
<1> QED BY <1>1, <1>2, <1>3, <1>4, KeyStep, SealStep, DeliveryStep DEF MessageServiceNext

(* The invariant holds in every state. *)
LEMMA KeyInvHolds == MessageServiceSpec => []KeyInv
<1>1. RequestsInit /\ MessageServiceInit /\ clock = 1 => KeyInv
  BY EmptyIsSeq
  DEF RequestsInit, MessageServiceInit, KeyInv, Workers, KeysTyped, NewestKeyIsActive,
      SealedTyped, SealRequests, At
<1> QED BY <1>1, KeyInvKept, PTL DEF MessageServiceSpec

(* Once there is a key the newest one is active, whatever rotations run at *)
(* the same time or stop half-way (rotate_active_key).                     *)
THEOREM NewestKeyStaysActive == MessageServiceSpec => []NewestKeyIsActive
<1>1. KeyInv => NewestKeyIsActive
  BY DEF KeyInv
<1> QED BY <1>1, KeyInvHolds, PTL

(* The tables of keys, messages and deliveries are typed; in particular    *)
(* the key of every message exists.                                        *)
THEOREM MessagesHaveKeys == MessageServiceSpec => []MessageServiceTypeOK
<1>1. ASSUME KeyInv PROVE MessageServiceTypeOK
  <2>1. message_keys \in Seq({"active", "retired"})
    BY <1>1, SeqOfRows DEF KeyInv, KeysTyped
  <2>2. sealed \in Seq(SealedRow) /\ deliveries \in Seq(Nat)
    BY <1>1, SeqOfRows DEF KeyInv, SealedTyped
  <2> QED BY <1>1, <2>1, <2>2 DEF MessageServiceTypeOK, SealedRow, KeyInv, SealedTyped
<1>2. KeyInv => MessageServiceTypeOK
  BY <1>1
<1> QED BY <1>2, KeyInvHolds, PTL

-----------------------------------------------------------------------------
(* Loans of the backend: the collateral they hold of an asset, and the     *)
(* events that explain it.                                                 *)

Pledged(loans, a) ==
  Total([id \in {i \in DOMAIN loans : loans[i].asset = a} |-> loans[id].collateral])

OpenedWith(a) ==
  Total([id \in {i \in LoanIdsInDb : loan_opening[i].asset = a} |-> loan_opening[id].amount])

PartOf(asset, amount, a) == IF asset = a THEN amount ELSE 0

Pledge(row, a) == PartOf(row.asset, row.collateral, a)

GoodLoan ==
  {row \in LoanRow : row.principal # 0 /\ (row.status = "repaid" <=> row.amount_repaid >= row.principal)}

Opening == [asset : LoanAsset, amount : Nat]

DbLoansTyped ==
  /\ IsSeq(db_loans)
  /\ \A id \in LoanIdsInDb : db_loans[id] \in GoodLoan /\ db_loans[id].plan \in PlanIds \cup {Absent}
  /\ IsSeq(loan_opening) /\ DOMAIN loan_opening = LoanIdsInDb /\ Len(loan_opening) = Len(db_loans)
  /\ \A id \in LoanIdsInDb : loan_opening[id] \in Opening
  /\ deposits \in [LoanAsset -> Int]
  /\ price \in [LoanAsset -> AssetPrice]

LoanRequests ==
  \A w \in Worker : At(w, "create_loan") =>
    /\ requests[w].terms \in LoanTerms /\ requests[w].plan \in PlanIds \cup {Absent}
    /\ requests[w].due \in Nat

LoanInv ==
  /\ Workers /\ clock \in Nat /\ PlanIds \subseteq Nat
  /\ DbLoansTyped /\ LoanRequests /\ EventsExplainCollateral

(* A map of the rows of a table to amounts, restricted to some of them. *)
LEMMA SomeRows ==
  ASSUME NEW t, IsSeq(t), NEW S, S \subseteq DOMAIN t, NEW f, DOMAIN f = S,
         \A k \in S : f[k] \in Nat
  PROVE  IntMap(f) /\ IsFiniteSet(DOMAIN f)
<1>1. IsFiniteSet(S)
  BY RowsAreFinite, FS_Subset
<1> QED BY <1>1 DEF IntMap

(* What a changed row changes of the collateral pledged. *)
LEMMA PledgedReplaced ==
  ASSUME NEW old, IsSeq(old), \A id \in DOMAIN old : old[id].collateral \in Nat,
         NEW id \in DOMAIN old, NEW row, row.collateral \in Nat,
         NEW new, Replaced(old, id, row, new), NEW a
  PROVE  /\ Pledged(old, a) \in Int /\ Pledged(new, a) \in Int
         /\ Pledged(new, a) - Pledge(row, a) = Pledged(old, a) - Pledge(old[id], a)
<1> DEFINE S == {i \in DOMAIN old : old[i].asset = a}
           T == {i \in DOMAIN new : new[i].asset = a}
           f == [i \in S |-> old[i].collateral]
           e == [i \in T |-> new[i].collateral]
<1>1. /\ IsSeq(new) /\ DOMAIN new = DOMAIN old /\ new[id] = row
      /\ \A i \in DOMAIN old \ {id} : new[i] = old[i]
  BY DEF Replaced
<1>2. /\ DOMAIN f = S /\ \A i \in S : f[i] = old[i].collateral /\ f[i] \in Nat
      /\ DOMAIN e = T /\ \A i \in T : e[i] = new[i].collateral /\ e[i] \in Nat
  BY <1>1
<1>3. Pledged(old, a) = Total(f) /\ Pledged(new, a) = Total(e)
  BY DEF Pledged
<1>4. S \subseteq DOMAIN old /\ T \subseteq DOMAIN new
  OBVIOUS
<1>5. S \ {id} = T \ {id} /\ (id \in S <=> old[id].asset = a) /\ (id \in T <=> row.asset = a)
  BY <1>1
<1> HIDE DEF f, e
<1>6. \A i \in S \ {id} : e[i] = f[i]
  BY <1>1, <1>2, <1>5
<1> HIDE DEF S, T
<1>7. IntMap(f) /\ IntMap(e)
  BY <1>1, <1>2, <1>4, SomeRows
<1>8. /\ Total(f) \in Int /\ Total(e) \in Int
      /\ Total(e) - Stored(e, id, 0) = Total(f) - Stored(f, id, 0)
  BY <1>2, <1>5, <1>6, <1>7, TotalChanges
<1>9. Stored(e, id, 0) = Pledge(row, a) /\ Stored(f, id, 0) = Pledge(old[id], a)
  BY <1>1, <1>2, <1>5 DEF Stored, Pledge, PartOf
<1> QED BY <1>3, <1>8, <1>9

(* What a new row adds to them. *)
LEMMA RowsTotalInserted ==
  ASSUME NEW f, IntMap(f), NEW e, IntMap(e), NEW n, n \notin DOMAIN f,
         DOMAIN e \ {n} = DOMAIN f, \A k \in DOMAIN f : e[k] = f[k]
  PROVE  /\ Total(f) \in Int /\ Total(e) \in Int /\ Stored(e, n, 0) \in Int
         /\ Total(e) = Total(f) + Stored(e, n, 0)
<1>1. /\ Total(f) \in Int /\ Total(e) \in Int
      /\ Total(e) - Stored(e, n, 0) = Total(f) - Stored(f, n, 0)
  <2>1. DOMAIN f \ {n} = DOMAIN e \ {n} /\ \A k \in DOMAIN f \ {n} : e[k] = f[k]
    OBVIOUS
  <2> QED BY <2>1, TotalChanges
<1>2. Stored(f, n, 0) = 0 /\ Stored(e, n, 0) \in Int
  BY DEF Stored, IntMap
<1> QED BY <1>1, <1>2

(* EventsExplainCollateral for one asset. *)
Explained(a) == Pledged(db_loans, a) = deposits[a] + OpenedWith(a)

(* The property, asset by asset.                                            *)
LEMMA ExplainedIs == EventsExplainCollateral <=> \A a \in LoanAsset : Explained(a)
BY DEF EventsExplainCollateral, Explained, Pledged, OpenedWith, LoanIdsInDb

(* Steps that leave the loans alone. *)
NoLoan ==
  /\ UNCHANGED <<loanRows, price>> /\ Workers' /\ NoneReaches("create_loan")

(* Such a step keeps the invariant. *)
LEMMA NoLoanKept ==
  ASSUME LoanInv, NoLoan, clock' \in Nat, PlanIds \subseteq PlanIds', PlanIds' \subseteq Nat
  PROVE  LoanInv'
<1>1. \A w \in Worker : At(w, "create_loan")' => At(w, "create_loan") /\ requests'[w] = requests[w]
  BY DEF NoLoan, NoneReaches, At
<1>2. LoanRequests'
  BY <1>1 DEF LoanInv, LoanRequests
<1>3. DbLoansTyped' /\ EventsExplainCollateral'
  BY DEF NoLoan, loanRows, LoanInv, DbLoansTyped, LoanIdsInDb, EventsExplainCollateral
<1> QED BY <1>2, <1>3 DEF LoanInv, NoLoan

(* A loan is checked and then inserted. *)
LEMMA LoanChecked ==
  ASSUME LoanInv, NEW w \in Worker, NEW plan \in PlanIds \cup {Absent}, NEW terms \in LoanTerms,
         CreateLoanCheck(w, plan, terms), UNCHANGED clock
  PROVE  LoanInv'
<1> DEFINE r == [stage |-> "create_loan", plan |-> plan, terms |-> terms, due |-> clock + terms.days]
<1>1. clock + terms.days \in Nat
  BY LoanServiceAssumption DEF LoanInv
<1>2. r.terms \in LoanTerms /\ r.plan \in PlanIds \cup {Absent} /\ r.due \in Nat
  BY <1>1
<1>3. requests' = [requests EXCEPT ![w] = r] /\ UNCHANGED <<planRows, loanRows, price>>
  BY DEF CreateLoanCheck, Begin
<1> HIDE DEF r
<1>4. /\ requests' = [v \in Worker |-> requests'[v]]
      /\ \A v \in Worker : requests'[v] = IF v = w THEN r ELSE requests[v]
  BY <1>3 DEF LoanInv, Workers
<1>5. Workers' /\ LoanRequests'
  BY <1>2, <1>3, <1>4 DEF LoanInv, Workers, LoanRequests, At, planRows, PlanIds
<1>6. DbLoansTyped' /\ EventsExplainCollateral' /\ PlanIds' = PlanIds
  BY <1>3 DEF loanRows, planRows, LoanInv, DbLoansTyped, LoanIdsInDb, EventsExplainCollateral, PlanIds
<1> QED BY <1>5, <1>6 DEF LoanInv

(* The loan inserted opens with its collateral. *)
LEMMA LoanInserted ==
  ASSUME LoanInv, NEW w \in Worker, CreateLoanInsert(w), UNCHANGED clock
  PROVE  LoanInv'
<1> DEFINE terms == requests[w].terms
           row == [plan |-> requests[w].plan, asset |-> terms.asset, principal |-> terms.principal,
                   collateral |-> terms.collateral, amount_repaid |-> 0, status |-> "active",
                   due_date |-> requests[w].due]
           entry == [asset |-> terms.asset, amount |-> terms.collateral]
<1>1. /\ db_loans' = Append(db_loans, row) /\ loan_opening' = Append(loan_opening, entry)
      /\ requests' = [requests EXCEPT ![w] = Absent]
      /\ UNCHANGED <<planRows, deposits, price>>
  BY DEF CreateLoanInsert, Finish, Continue
<1>2. /\ terms \in LoanTerms /\ requests[w].plan \in PlanIds \cup {Absent}
      /\ requests[w].due \in Nat
  BY DEF CreateLoanInsert, LoanInv, LoanRequests
<1>3. /\ terms.principal \in Nat \ {0} /\ terms.collateral \in Nat /\ terms.asset \in LoanAsset
  BY <1>2, LoanServiceAssumption
<1> HIDE DEF terms
<1>4. row \in GoodLoan
  <2>1. row \in LoanRow
    BY <1>2, <1>3 DEF LoanRow, LoanStatus, LoanInv
  <2>2. row.principal # 0 /\ row.status # "repaid" /\ ~(row.amount_repaid >= row.principal)
    BY <1>3
  <2> QED BY <2>1, <2>2 DEF GoodLoan
<1>5. /\ row.plan \in PlanIds \cup {Absent} /\ row.asset = terms.asset
      /\ row.collateral = terms.collateral /\ entry \in Opening
      /\ entry.asset = terms.asset /\ entry.amount = terms.collateral
  BY <1>2, <1>3 DEF Opening
<1> HIDE DEF row, entry
<1> DEFINE n == Len(db_loans')
<1>6. Inserted(db_loans, row, db_loans') /\ Inserted(loan_opening, entry, loan_opening')
  BY <1>1, AppendedRow DEF LoanInv, DbLoansTyped
<1>7. /\ IsSeq(db_loans') /\ IsSeq(loan_opening')
      /\ Len(loan_opening') = n /\ n \notin LoanIdsInDb
      /\ LoanIdsInDb' = LoanIdsInDb \cup {n} /\ DOMAIN loan_opening' = LoanIdsInDb'
      /\ db_loans'[n] = row /\ loan_opening'[n] = entry
      /\ \A id \in LoanIdsInDb : db_loans'[id] = db_loans[id] /\ loan_opening'[id] = loan_opening[id]
  BY <1>6 DEF Inserted, LoanInv, DbLoansTyped, LoanIdsInDb
<1> HIDE DEF n
<1>8. PlanIds' = PlanIds
  BY <1>1 DEF planRows, PlanIds
<1>9. DbLoansTyped'
  <2>1. \A id \in LoanIdsInDb' :
          /\ db_loans'[id] \in GoodLoan /\ db_loans'[id].plan \in PlanIds \cup {Absent}
          /\ loan_opening'[id] \in Opening
    BY <1>4, <1>5, <1>7 DEF LoanInv, DbLoansTyped
  <2>2. Len(db_loans') = n
    BY DEF n
  <2> QED BY <1>1, <1>7, <1>8, <2>1, <2>2 DEF LoanInv, DbLoansTyped
<1>10. ASSUME NEW a \in LoanAsset PROVE Explained(a)'
  <2> DEFINE S == {i \in LoanIdsInDb : db_loans[i].asset = a}
             T == {i \in LoanIdsInDb' : db_loans'[i].asset = a}
             f == [i \in S |-> db_loans[i].collateral]
             e == [i \in T |-> db_loans'[i].collateral]
             U == {i \in LoanIdsInDb : loan_opening[i].asset = a}
             V == {i \in LoanIdsInDb' : loan_opening'[i].asset = a}
             g == [i \in U |-> loan_opening[i].amount]
             h == [i \in V |-> loan_opening'[i].amount]
  <2>1. /\ Pledged(db_loans, a) = Total(f) /\ Pledged(db_loans', a) = Total(e)
        /\ OpenedWith(a) = Total(g) /\ OpenedWith(a)' = Total(h)
    BY DEF Pledged, OpenedWith, LoanIdsInDb
  <2>2. /\ S \subseteq LoanIdsInDb /\ T \subseteq LoanIdsInDb'
        /\ U \subseteq LoanIdsInDb /\ V \subseteq LoanIdsInDb'
    OBVIOUS
  <2>3. /\ T \ {n} = S /\ V \ {n} = U
        /\ n \in T <=> terms.asset = a
        /\ n \in V <=> terms.asset = a
    BY <1>5, <1>7
  <2>4. /\ \A i \in LoanIdsInDb : db_loans[i].collateral \in Nat /\ loan_opening[i].amount \in Nat
        /\ \A i \in LoanIdsInDb' : db_loans'[i].collateral \in Nat /\ loan_opening'[i].amount \in Nat
    BY <1>9 DEF LoanInv, DbLoansTyped, GoodLoan, LoanRow, Opening
  <2>5. /\ DOMAIN f = S /\ DOMAIN e = T /\ DOMAIN g = U /\ DOMAIN h = V
        /\ \A i \in S : f[i] = db_loans[i].collateral /\ f[i] \in Nat
        /\ \A i \in T : e[i] = db_loans'[i].collateral /\ e[i] \in Nat
        /\ \A i \in U : g[i] = loan_opening[i].amount /\ g[i] \in Nat
        /\ \A i \in V : h[i] = loan_opening'[i].amount /\ h[i] \in Nat
    BY <2>2, <2>4
  <2> HIDE DEF f, e, g, h
  <2>6. (\A i \in S : e[i] = f[i]) /\ (\A i \in U : h[i] = g[i])
    BY <1>7, <2>2, <2>3, <2>5
  <2>7. /\ Stored(e, n, 0) = PartOf(terms.asset, terms.collateral, a)
        /\ Stored(h, n, 0) = PartOf(terms.asset, terms.collateral, a)
    BY <1>5, <1>7, <2>3, <2>5 DEF Stored, PartOf
  <2>8. /\ IsSeq(db_loans) /\ IsSeq(db_loans') /\ IsSeq(loan_opening) /\ IsSeq(loan_opening')
        /\ S \subseteq DOMAIN db_loans /\ T \subseteq DOMAIN db_loans'
        /\ U \subseteq DOMAIN loan_opening /\ V \subseteq DOMAIN loan_opening'
        /\ n \notin S /\ n \notin U
    BY <1>7, <2>2 DEF LoanInv, DbLoansTyped, LoanIdsInDb
  <2> HIDE DEF S, T, U, V
  <2>9. IntMap(f) /\ IntMap(e) /\ IntMap(g) /\ IntMap(h)
    BY <2>5, <2>8, SomeRows
  <2>10. /\ Total(f) \in Int /\ Total(e) \in Int /\ Stored(e, n, 0) \in Int
         /\ Total(e) = Total(f) + Stored(e, n, 0)
         /\ Total(g) \in Int /\ Total(h) \in Int /\ Stored(h, n, 0) \in Int
         /\ Total(h) = Total(g) + Stored(h, n, 0)
    BY <2>3, <2>5, <2>6, <2>8, <2>9, RowsTotalInserted
  <2>11. Explained(a) /\ deposits'[a] = deposits[a] /\ deposits[a] \in Int
    BY <1>1, ExplainedIs DEF LoanInv, DbLoansTyped
  <2>12. Total(e) = deposits[a] + Total(h)
    BY <2>1, <2>7, <2>10, <2>11 DEF Explained
  <2> QED BY <2>1, <2>11, <2>12 DEF Explained
<1>11. EventsExplainCollateral'
  BY <1>10 DEF EventsExplainCollateral, Explained, Pledged, OpenedWith, LoanIdsInDb
<1>12. Workers' /\ NoneReaches("create_loan")
  BY <1>1, OtherStage DEF LoanInv
<1>13. LoanRequests'
  <2>1. \A v \in Worker : At(v, "create_loan")' => At(v, "create_loan") /\ requests'[v] = requests[v]
    BY <1>12 DEF NoneReaches, At
  <2> QED BY <1>8, <2>1 DEF LoanInv, LoanRequests
<1> QED BY <1>8, <1>9, <1>11, <1>12, <1>13 DEF LoanInv

(* A statement on one loan keeps the invariant if its events say how its   *)
(* collateral changed.                                                     *)
LEMMA LoanEdited ==
  ASSUME LoanInv, UNCHANGED <<clock, planServiceVars, loan_opening, price>>,
         NEW id \in LoanIdsInDb, NEW row \in GoodLoan, row.plan = db_loans[id].plan, Update(id, row),
         deposits' \in [LoanAsset -> Int],
         \A a \in LoanAsset : deposits'[a] = deposits[a] + Pledge(row, a) - Pledge(db_loans[id], a)
  PROVE  LoanInv'
<1>1. Replaced(db_loans, id, row, db_loans')
  BY UpdatedRow DEF Update, LoanInv, DbLoansTyped
<1>2. UNCHANGED <<requests, db_plans>> /\ PlanIds' = PlanIds
  BY DEF planServiceVars, planRows, PlanIds
<1>3. \A i \in LoanIdsInDb : db_loans[i].collateral \in Nat
  BY DEF LoanInv, DbLoansTyped, GoodLoan, LoanRow
<1>4. /\ IsSeq(db_loans') /\ LoanIdsInDb' = LoanIdsInDb /\ Len(db_loans') = Len(db_loans)
      /\ \A i \in LoanIdsInDb : db_loans'[i] = IF i = id THEN row ELSE db_loans[i]
  BY <1>1 DEF Replaced, LoanIdsInDb
<1>5. DbLoansTyped'
  BY <1>2, <1>4 DEF LoanInv, DbLoansTyped
<1>6. ASSUME NEW a \in LoanAsset PROVE Explained(a)'
  <2>1. /\ Pledged(db_loans, a) \in Int /\ Pledged(db_loans', a) \in Int
        /\ Pledged(db_loans', a) - Pledge(row, a) = Pledged(db_loans, a) - Pledge(db_loans[id], a)
    <3>1. /\ IsSeq(db_loans) /\ \A i \in DOMAIN db_loans : db_loans[i].collateral \in Nat
          /\ id \in DOMAIN db_loans /\ row.collateral \in Nat
      BY <1>3 DEF LoanInv, DbLoansTyped, LoanIdsInDb, GoodLoan, LoanRow
    <3> QED BY <1>1, <3>1, PledgedReplaced
  <2>2. OpenedWith(a)' = OpenedWith(a)
    BY <1>4 DEF OpenedWith
  <2>3. Pledged(db_loans, a) = deposits[a] + OpenedWith(a) /\ deposits[a] \in Int
    BY ExplainedIs DEF LoanInv, Explained, DbLoansTyped
  <2>4. Pledge(row, a) \in Int /\ Pledge(db_loans[id], a) \in Int
    BY <1>3 DEF Pledge, PartOf, GoodLoan, LoanRow
  <2>5. OpenedWith(a) \in Int
    <3> DEFINE S == {i \in LoanIdsInDb : loan_opening[i].asset = a}
               f == [i \in S |-> loan_opening[i].amount]
    <3>1. S \subseteq DOMAIN loan_opening /\ IsSeq(loan_opening) /\ DOMAIN f = S
      BY DEF LoanInv, DbLoansTyped
    <3>2. \A i \in S : f[i] \in Nat
      BY DEF LoanInv, DbLoansTyped, Opening
    <3>3. OpenedWith(a) = Total(f)
      BY DEF OpenedWith
    <3> HIDE DEF f, S
    <3> QED BY <3>1, <3>2, <3>3, SomeRows, TotalIsInt
  <2>6. deposits'[a] = deposits[a] + Pledge(row, a) - Pledge(db_loans[id], a)
    OBVIOUS
  <2>7. Pledged(db_loans', a) = deposits'[a] + OpenedWith(a)
    <3> DEFINE p == Pledged(db_loans, a)
               q == Pledged(db_loans', a)
               r == Pledge(row, a)
               s == Pledge(db_loans[id], a)
               d == deposits[a]
               o == OpenedWith(a)
               e == deposits'[a]
    <3>1. /\ p \in Int /\ q \in Int /\ r \in Int /\ s \in Int /\ d \in Int /\ o \in Int
          /\ q - r = p - s /\ p = d + o /\ e = d + r - s
      BY <2>1, <2>3, <2>4, <2>5, <2>6
    <3> HIDE DEF p, q, r, s, d, o, e
    <3>2. q = e + o
      BY <3>1
    <3> QED BY <3>2 DEF p, q, r, s, d, o, e
  <2> QED BY <2>2, <2>7 DEF Explained
<1>7. EventsExplainCollateral'
  BY <1>6 DEF EventsExplainCollateral, Explained, Pledged, OpenedWith, LoanIdsInDb
<1>8. LoanRequests'
  BY <1>2 DEF LoanInv, LoanRequests, At
<1> QED BY <1>2, <1>5, <1>7, <1>8 DEF LoanInv, Workers

(* A statement that leaves the collateral of its loan alone. *)
LEMMA LoanRowKept ==
  ASSUME LoanInv, UNCHANGED <<clock, planServiceVars, loan_opening, deposits, price>>,
         NEW id \in LoanIdsInDb, NEW row \in GoodLoan, row.plan = db_loans[id].plan,
         row.asset = db_loans[id].asset, row.collateral = db_loans[id].collateral,
         Update(id, row)
  PROVE  LoanInv'
<1>1. /\ deposits' \in [LoanAsset -> Int]
      /\ \A a \in LoanAsset : deposits'[a] \in Int
  BY DEF LoanInv, DbLoansTyped
<1>2. \A a : Pledge(row, a) = Pledge(db_loans[id], a) /\ Pledge(row, a) \in Int
  BY DEF Pledge, PartOf, GoodLoan, LoanRow
<1>3. \A a \in LoanAsset : deposits'[a] = deposits[a] + Pledge(row, a) - Pledge(db_loans[id], a)
  BY <1>1, <1>2
<1> QED BY <1>1, <1>3, LoanEdited

(* Repayments and liquidations. *)
LEMMA RepaidOrLiquidated ==
  ASSUME LoanInv, UNCHANGED clock, NEW id \in LoanIdsInDb,
         liquidate_loan(id) \/ \E amount \in LoanPayment : repay_loan(id, amount)
  PROVE  LoanInv'
<1> DEFINE loan == db_loans[id]
<1>1. loan \in GoodLoan /\ loan \in LoanRow
  BY DEF LoanInv, DbLoansTyped, GoodLoan
<1>2. ASSUME NEW amount \in LoanPayment, repay_loan(id, amount) PROVE LoanInv'
  <2> DEFINE repaid == loan.amount_repaid + amount
             status == IF repaid >= loan.principal THEN "repaid" ELSE loan.status
             row == [loan EXCEPT !.amount_repaid = repaid, !.status = status]
  <2>1. repaid \in Nat /\ loan.status \notin {"repaid", "liquidated"} /\ status \in LoanStatus
    <3>1. amount \in Nat /\ loan.amount_repaid \in Nat /\ loan.status \in LoanStatus
      BY <1>1, LoanServiceAssumption DEF LoanRow
    <3>2. repaid \in Nat
      BY <3>1
    <3>3. loan.status \notin {"repaid", "liquidated"}
      BY <1>2 DEF repay_loan
    <3>4. "repaid" \in LoanStatus
      BY DEF LoanStatus
    <3> HIDE DEF repaid
    <3> QED BY <3>1, <3>2, <3>3, <3>4
  <2>2. status = "repaid" <=> repaid >= loan.principal
    BY <2>1
  <2> HIDE DEF repaid, status
  <2>3. row \in GoodLoan
    BY <1>1, <2>1, <2>2 DEF GoodLoan, LoanRow
  <2>4. row.plan = loan.plan /\ row.asset = loan.asset /\ row.collateral = loan.collateral
    OBVIOUS
  <2>5. Update(id, row) /\ UNCHANGED <<planServiceVars, loan_opening, deposits, price>>
    BY <1>2 DEF repay_loan, repaid, status
  <2> HIDE DEF row
  <2> QED BY <2>3, <2>4, <2>5, LoanRowKept
<1>3. ASSUME liquidate_loan(id) PROVE LoanInv'
  <2> DEFINE row == [loan EXCEPT !.status = "liquidated"]
  <2>1. loan.status # "repaid"
    BY <1>3 DEF liquidate_loan
  <2>2. row \in GoodLoan
    BY <1>1, <2>1 DEF GoodLoan, LoanRow, LoanStatus
  <2>3. row.plan = loan.plan /\ row.asset = loan.asset /\ row.collateral = loan.collateral
    OBVIOUS
  <2>4. Update(id, row) /\ UNCHANGED <<planServiceVars, loan_opening, deposits, price>>
    BY <1>3 DEF liquidate_loan
  <2> HIDE DEF row
  <2> QED BY <2>2, <2>3, <2>4, LoanRowKept
<1> QED BY <1>2, <1>3

(* Changes of collateral. *)
LEMMA CollateralChanged ==
  ASSUME LoanInv, UNCHANGED clock, NEW id \in LoanIdsInDb, NEW amount \in CollateralAmount,
         \/ add_collateral(id, amount)
         \/ remove_collateral(id, amount)
         \/ \E asset \in LoanAsset : swap_collateral(id, asset, amount)
  PROVE  LoanInv'
<1> DEFINE loan == db_loans[id]
<1>1. loan \in GoodLoan /\ loan \in LoanRow
  BY DEF LoanInv, DbLoansTyped, GoodLoan
<1>2. /\ loan.collateral \in Nat /\ loan.asset \in LoanAsset /\ amount \in Nat
      /\ deposits \in [LoanAsset -> Int]
  BY <1>1, LoanServiceAssumption DEF LoanRow, LoanInv, DbLoansTyped
<1>3. ASSUME NEW asset \in LoanAsset, NEW c \in Nat, NEW row,
             row = [loan EXCEPT !.asset = asset, !.collateral = c],
             Update(id, row), UNCHANGED <<planServiceVars, loan_opening, price>>,
             deposits' \in [LoanAsset -> Int],
             \A a \in LoanAsset :
               deposits'[a] = deposits[a] + PartOf(asset, c, a) - PartOf(loan.asset, loan.collateral, a)
      PROVE  LoanInv'
  <2>1. row \in GoodLoan /\ row.plan = loan.plan
    BY <1>1, <1>3 DEF GoodLoan, LoanRow
  <2>2. row.asset = asset /\ row.collateral = c
    BY <1>1, <1>3 DEF LoanRow
  <2>3. \A a \in LoanAsset : deposits'[a] = deposits[a] + Pledge(row, a) - Pledge(loan, a)
    BY <1>3, <2>2 DEF Pledge
  <2> QED BY <1>3, <2>1, <2>3, LoanEdited
<1>4. ASSUME add_collateral(id, amount) PROVE LoanInv'
  <2> DEFINE c == loan.collateral + amount
             row == [loan EXCEPT !.asset = loan.asset, !.collateral = c]
  <2>1. /\ row = [loan EXCEPT !.collateral = c]
        /\ row = [loan EXCEPT !.asset = loan.asset, !.collateral = c]
    BY <1>1 DEF LoanRow
  <2>2. Update(id, row) /\ UNCHANGED <<planServiceVars, loan_opening, price>>
        /\ deposits' = Deposited(deposits, loan.asset, amount)
    BY <1>4, <2>1 DEF add_collateral
  <2>3. /\ deposits' \in [LoanAsset -> Int]
        /\ \A a \in LoanAsset : deposits'[a] = deposits[a] + PartOf(loan.asset, amount, a)
    <3>1. amount \in Int
      BY <1>2
    <3> QED BY <1>2, <2>2, <3>1 DEF Deposited, PartOf
  <2>4. c \in Nat
    BY <1>2
  <2>5. \A a \in LoanAsset :
          deposits'[a] = deposits[a] + PartOf(loan.asset, c, a) - PartOf(loan.asset, loan.collateral, a)
    BY <1>2, <2>3, <2>4 DEF PartOf
  <2> HIDE DEF row, c
  <2> QED BY <1>2, <1>3, <2>1, <2>2, <2>3, <2>4, <2>5
<1>5. ASSUME remove_collateral(id, amount) PROVE LoanInv'
  <2> DEFINE c == loan.collateral - amount
             row == [loan EXCEPT !.asset = loan.asset, !.collateral = c]
  <2>1. /\ row = [loan EXCEPT !.collateral = c]
        /\ row = [loan EXCEPT !.asset = loan.asset, !.collateral = c]
    BY <1>1 DEF LoanRow
  <2>2. Update(id, row) /\ UNCHANGED <<planServiceVars, loan_opening, price>>
        /\ deposits' = Deposited(deposits, loan.asset, -amount) /\ amount <= loan.collateral
    BY <1>5, <2>1 DEF remove_collateral
  <2>3. /\ deposits' \in [LoanAsset -> Int]
        /\ \A a \in LoanAsset : deposits'[a] = deposits[a] + PartOf(loan.asset, -amount, a)
    <3> DEFINE m == -amount
    <3>1. m \in Int /\ deposits' = Deposited(deposits, loan.asset, m)
      BY <1>2, <2>2
    <3> HIDE DEF m
    <3>2. /\ deposits' \in [LoanAsset -> Int]
          /\ \A a \in LoanAsset : deposits'[a] = deposits[a] + PartOf(loan.asset, m, a)
      BY <1>2, <3>1 DEF Deposited, PartOf
    <3> QED BY <3>2 DEF m
  <2>4. c \in Nat
    BY <1>2, <2>2
  <2>5. \A a \in LoanAsset :
          deposits'[a] = deposits[a] + PartOf(loan.asset, c, a) - PartOf(loan.asset, loan.collateral, a)
    BY <1>2, <2>3, <2>4 DEF PartOf
  <2> HIDE DEF row, c
  <2> QED BY <1>2, <1>3, <2>1, <2>2, <2>3, <2>4, <2>5
<1>6. ASSUME NEW asset \in LoanAsset, swap_collateral(id, asset, amount) PROVE LoanInv'
  <2> DEFINE row == [loan EXCEPT !.asset = asset, !.collateral = amount]
             mid == Deposited(deposits, loan.asset, -loan.collateral)
  <2>1. Update(id, row) /\ UNCHANGED <<planServiceVars, loan_opening, price>>
        /\ deposits' = Deposited(mid, asset, amount)
        /\ row = [loan EXCEPT !.asset = asset, !.collateral = amount]
        /\ mid = Deposited(deposits, loan.asset, -loan.collateral)
    BY <1>6 DEF swap_collateral, SwapEvents
  <2> HIDE DEF row, mid
  <2>2. amount \in Int
    BY <1>2
  <2>3. /\ mid \in [LoanAsset -> Int]
        /\ \A a \in LoanAsset : mid[a] = deposits[a] + PartOf(loan.asset, -loan.collateral, a)
    <3> DEFINE m == -loan.collateral
    <3>1. m \in Int /\ mid = Deposited(deposits, loan.asset, m)
      BY <1>2, <2>1
    <3> HIDE DEF m
    <3>2. /\ mid \in [LoanAsset -> Int]
          /\ \A a \in LoanAsset : mid[a] = deposits[a] + PartOf(loan.asset, m, a)
      BY <1>2, <3>1 DEF Deposited, PartOf
    <3> QED BY <3>2 DEF m
  <2>4. /\ deposits' \in [LoanAsset -> Int]
        /\ \A a \in LoanAsset : deposits'[a] = mid[a] + PartOf(asset, amount, a)
    BY <2>1, <2>2, <2>3 DEF Deposited, PartOf
  <2>5. \A a \in LoanAsset :
          deposits'[a] = deposits[a] + PartOf(asset, amount, a) - PartOf(loan.asset, loan.collateral, a)
    BY <1>2, <2>3, <2>4 DEF PartOf
  <2> QED BY <1>2, <1>3, <2>1, <2>4, <2>5
<1> HIDE DEF loan
<1> QED BY <1>4, <1>5, <1>6

(* The sweep of overdue loans and the prices leave the collateral alone.   *)
LEMMA SweptOrPriced ==
  ASSUME LoanInv, UNCHANGED clock,
         \/ mark_overdue_loans
         \/ \E asset \in LoanAsset, value \in AssetPrice : update_price(asset, value)
  PROVE  LoanInv'
<1>1. ASSUME NEW asset \in LoanAsset, NEW value \in AssetPrice, update_price(asset, value)
      PROVE  LoanInv'
  <2>1. price' \in [LoanAsset -> AssetPrice] /\ UNCHANGED <<planServiceVars, loanRows>>
    BY <1>1 DEF update_price, LoanInv, DbLoansTyped
  <2>2. UNCHANGED <<db_loans, loan_opening, deposits>> /\ PlanIds' = PlanIds /\ LoanIdsInDb' = LoanIdsInDb
    BY <2>1 DEF loanRows, planServiceVars, planRows, PlanIds, LoanIdsInDb
  <2>3. Workers' /\ LoanRequests'
    BY <2>1 DEF planServiceVars, planRows, LoanInv, Workers, LoanRequests, At, PlanIds
  <2>4. DbLoansTyped'
    BY <2>1, <2>2 DEF LoanInv, DbLoansTyped
  <2>5. EventsExplainCollateral'
    <3>1. EventsExplainCollateral
      BY DEF LoanInv
    <3> QED BY <2>2, <3>1 DEF EventsExplainCollateral
  <2> QED BY <2>2, <2>3, <2>4, <2>5 DEF LoanInv
<1>2. ASSUME mark_overdue_loans PROVE LoanInv'
  <2> DEFINE swept(row) == IF Overdue(row) THEN [row EXCEPT !.status = "overdue"] ELSE row
  <2>1. /\ db_loans' = [id \in DOMAIN db_loans |-> swept(db_loans[id])]
        /\ UNCHANGED <<planServiceVars, loan_opening, deposits, price>>
    BY <1>2 DEF mark_overdue_loans, LoanIdsInDb
  <2>2. ASSUME NEW row \in GoodLoan
        PROVE  /\ swept(row) \in GoodLoan /\ swept(row).plan = row.plan
               /\ swept(row).asset = row.asset /\ swept(row).collateral = row.collateral
    BY DEF GoodLoan, LoanRow, LoanStatus, Overdue
  <2>3. db_loans' = [id \in DOMAIN db_loans |-> db_loans'[id]]
        /\ \A id \in DOMAIN db_loans : db_loans'[id] = swept(db_loans[id])
    <3> DEFINE table == db_loans'
    <3>1. table = [id \in DOMAIN db_loans |-> swept(db_loans[id])]
      BY <2>1
    <3> HIDE DEF table, swept
    <3>2. table = [id \in DOMAIN db_loans |-> table[id]]
          /\ \A id \in DOMAIN db_loans : table[id] = swept(db_loans[id])
      BY <3>1
    <3> QED BY <3>2 DEF table
  <2> HIDE DEF swept
  <2>4. IsSeq(db_loans') /\ LoanIdsInDb' = LoanIdsInDb /\ Len(db_loans') = Len(db_loans)
    BY <2>3, UpdatedRows DEF LoanInv, DbLoansTyped, LoanIdsInDb
  <2>5. \A id \in LoanIdsInDb :
          /\ db_loans'[id] \in GoodLoan /\ db_loans'[id].plan = db_loans[id].plan
          /\ db_loans'[id].asset = db_loans[id].asset
          /\ db_loans'[id].collateral = db_loans[id].collateral
    BY <2>2, <2>3 DEF LoanInv, DbLoansTyped, LoanIdsInDb
  <2>6. PlanIds' = PlanIds
    BY <2>1 DEF planServiceVars, planRows, PlanIds
  <2>7. DbLoansTyped'
    BY <2>1, <2>4, <2>5, <2>6 DEF LoanInv, DbLoansTyped
  <2>8. ASSUME NEW a \in LoanAsset PROVE Pledged(db_loans', a) = Pledged(db_loans, a)
    BY <2>4, <2>5 DEF Pledged, LoanIdsInDb
  <2>9. EventsExplainCollateral'
    <3>1. \A a \in LoanAsset : Explained(a)
      BY ExplainedIs DEF LoanInv
    <3>2. \A a \in LoanAsset : OpenedWith(a)' = OpenedWith(a)
      BY <2>1, <2>4 DEF OpenedWith
    <3>3. \A a \in LoanAsset : Explained(a)'
      BY <2>1, <2>8, <3>1, <3>2 DEF Explained
    <3> QED BY <3>3 DEF EventsExplainCollateral, Explained, Pledged, OpenedWith, LoanIdsInDb
  <2>10. Workers' /\ LoanRequests'
    BY <2>1, <2>6 DEF planServiceVars, LoanInv, Workers, LoanRequests, At
  <2> QED BY <2>6, <2>7, <2>9, <2>10 DEF LoanInv
<1> QED BY <1>1, <1>2

(* Steps of the plans begin neither a loan nor a payout.                   *)
Elsewhere == Workers' /\ NoneReaches("create_loan") /\ NoneReaches("payout")

LoanStep ==
  [(LoanServiceNext /\ UNCHANGED clock) \/
   ((\E d \in Steps : Tick(d)) /\ UNCHANGED loanServiceVars)]_<<clock, loanServiceVars>>

(* Such a step is one of a handler that is at another stage, or of none.   *)
LEMMA PlansAreElsewhere ==
  ASSUME Workers, PlanServiceNext
  PROVE  Elsewhere
<1>1. ASSUME NEW w \in Worker, NEW r, requests' = [requests EXCEPT ![w] = r],
             r = Absent \/ r.stage \notin {"create_loan", "payout"}
      PROVE  Elsewhere
  BY <1>1, OtherStage DEF Elsewhere
<1>2. ASSUME UNCHANGED requests PROVE Elsewhere
  BY <1>2, NoHandler DEF Elsewhere
<1>3. ASSUME KycNext \/ LedgerEvents PROVE Elsewhere
  BY <1>2, <1>3 DEF KycNext, submit_kyc, update_kyc_status, LedgerEvents, LinkContract, RecordEvent
<1>4. ASSUME RollBackNext PROVE Elsewhere
  BY <1>1, <1>4 DEF RollBackNext, RollBack, Finish, Continue
<1>5. ASSUME ClaimNext PROVE Elsewhere
  <2>1. ASSUME NEW w \in Worker,
               \/ \E user \in PlanUser, amount \in PlanAmount : CreatePlanCheck(w, user, amount)
               \/ \E p \in PlanIds : ClaimCheck(w, p) \/ CancelCheck(w, p)
               \/ ClaimLock(w)
        PROVE  Elsewhere
    BY <1>1, <2>1 DEF CreatePlanCheck, ClaimCheck, CancelCheck, ClaimLock, Begin, Continue
  <2>2. ASSUME NEW w \in Worker, CreatePlanInsert(w) \/ ClaimCommit(w) \/ CancelWrite(w)
        PROVE  Elsewhere
    BY <1>1, <2>2 DEF CreatePlanInsert, ClaimCommit, CancelWrite, Finish, Continue
  <2> QED BY <1>5, <2>1, <2>2 DEF ClaimNext
<1>6. ASSUME FreezeNext PROVE Elsewhere
  <2>1. ASSUME NEW w \in Worker, NEW p \in PlanIds, PauseCheck(w, p) \/ UnpauseCheck(w, p)
        PROVE  Elsewhere
    BY <1>1, <2>1 DEF PauseCheck, UnpauseCheck, Begin
  <2>2. ASSUME NEW w \in Worker, PauseWrite(w) \/ UnpauseWrite(w) PROVE Elsewhere
    BY <1>1, <2>2 DEF PauseWrite, UnpauseWrite, Finish, Continue
  <2>3. ASSUME NEW p \in PlanIds, NEW enabled \in BOOLEAN, set_risk_override(p, enabled) PROVE Elsewhere
    BY <1>2, <2>3 DEF set_risk_override
  <2> QED BY <1>6, <2>1, <2>2, <2>3 DEF FreezeNext
<1>7. ASSUME WatchNext PROVE Elsewhere
  <2>1. ASSUME NEW w \in Worker, RiskScan(w) \/ LiquidationScan(w) PROVE Elsewhere
    BY <1>1, <2>1 DEF RiskScan, LiquidationScan, Job, Begin
  <2>2. ASSUME NEW w \in Worker, NEW row, NEW kind \in {"risk", "liquidate"}, JobRow(w, kind, row)
        PROVE  Elsewhere
    <3>1. CASE requests[w].rows = {row}
      BY <1>1, <2>2, <3>1 DEF JobRow, Finish, Continue
    <3>2. CASE requests[w].rows # {row}
      <4> DEFINE r == [requests[w] EXCEPT !.rows = @ \ {row}]
      <4>1. requests' = [requests EXCEPT ![w] = r]
        BY <2>2, <3>2 DEF JobRow, Continue
      <4>2. r.stage = requests[w].stage /\ requests[w].stage = kind
        BY <2>2 DEF JobRow, At
      <4> HIDE DEF r
      <4> QED BY <1>1, <4>1, <4>2
    <3> QED BY <3>1, <3>2
  <2>3. ASSUME simulate_mass_default PROVE Elsewhere
    BY <1>2, <2>3 DEF simulate_mass_default
  <2> QED BY <1>7, <2>1, <2>2, <2>3 DEF WatchNext, RiskWrite, LiquidatePlan
<1> QED BY <1>3, <1>4, <1>5, <1>6, <1>7 DEF PlanServiceNext

(* No row of a plan is ever deleted.                                       *)
LEMMA PlansStay ==
  ASSUME ClaimInv, LoanStep
  PROVE  PlanIds \subseteq PlanIds' /\ PlanIds' \subseteq Nat
<1>1. ClaimStep
  BY StepsOfClaims DEF ClaimInv, LoanStep
<1>2. PlanIds \subseteq PlanIds'
  <2>1. CASE NoClaim
    BY <2>1 DEF NoClaim
  <2>2. ASSUME NEW w \in Worker, CreatePlanInsert(w) PROVE PlanIds \subseteq PlanIds'
    <3>1. PICK row : db_plans' = Append(db_plans, row)
      BY <2>2 DEF CreatePlanInsert
    <3>2. Inserted(db_plans, row, db_plans')
      BY <3>1, AppendedRow DEF ClaimInv, ClaimTyped
    <3> QED BY <3>2 DEF Inserted, PlanIds
  <2>3. ASSUME NEW w \in Worker, ClaimLock(w) \/ \E p \in PlanIds : ClaimCheck(w, p)
        PROVE  PlanIds \subseteq PlanIds'
    BY <2>3 DEF ClaimLock, ClaimCheck, planRows, PlanIds
  <2>4. ASSUME NEW w \in Worker, ClaimCommit(w) PROVE PlanIds \subseteq PlanIds'
    BY <2>4 DEF ClaimCommit, InsertClaim, WithClaim, PlanIds
  <2> QED BY <1>1, <2>1, <2>2, <2>3, <2>4 DEF ClaimStep
<1>3. IsSeq(db_plans')
  BY ClaimInvKept, <1>1 DEF ClaimInv, ClaimTyped
<1> QED BY <1>2, <1>3 DEF IsSeq, PlanIds

(* Every step keeps the invariant of the loans.                            *)
LEMMA LoanInvKept ==
  ASSUME ClaimInv, LoanInv, LoanStep
  PROVE  LoanInv'
<1>1. /\ PlanIds \subseteq PlanIds' /\ PlanIds' \subseteq Nat
      /\ Workers /\ clock \in Nat
  BY PlansStay DEF LoanInv
<1>2. ASSUME UNCHANGED <<loanRows, price>>, Workers', NoneReaches("create_loan"), clock' \in Nat
      PROVE  LoanInv'
  BY <1>1, <1>2, NoLoanKept DEF NoLoan
<1>3. ASSUME PlanServiceNext, UNCHANGED <<loanRows, price>>, UNCHANGED clock PROVE LoanInv'
  BY <1>1, <1>2, <1>3, PlansAreElsewhere DEF Elsewhere
<1>4. ASSUME FundNext, UNCHANGED clock PROVE LoanInv'
  <2>1. ASSUME UNCHANGED <<loanRows, price, requests>> PROVE LoanInv'
    BY <1>1, <1>2, <1>4, <2>1, NoHandler
  <2>2. ASSUME NEW w \in Worker, NEW r, requests' = [requests EXCEPT ![w] = r],
               r = Absent \/ r.stage # "create_loan", UNCHANGED <<loanRows, price>>
        PROVE  LoanInv'
    BY <1>1, <1>2, <1>4, <2>2, OtherStage
  <2>3. ASSUME \/ \E kind \in {"contribution", "yield", "fee"}, amount \in FundAmount : FundTransaction(kind, amount)
               \/ \E amount \in InsuredAmount : create_insurance_claim(amount)
               \/ \E id \in DOMAIN fund_claims, approved \in BOOLEAN :
                    \E amount \in ApprovedAmount \cup {fund_claims[id].claimed} : process_claim(id, approved, amount)
        PROVE  LoanInv'
    BY <2>1, <2>3 DEF FundTransaction, create_insurance_claim, process_claim, planServiceVars
  <2>4. ASSUME NEW w \in Worker, NEW id, PayoutFund(w, id) PROVE LoanInv'
    BY <2>2, <2>4 DEF PayoutFund, Begin
  <2>5. ASSUME NEW w \in Worker, PayoutMark(w) PROVE LoanInv'
    BY <2>2, <2>5 DEF PayoutMark, Finish, Continue
  <2>6. ASSUME NEW w \in Worker, MetricsRead(w) PROVE LoanInv'
    BY <2>2, <2>6 DEF MetricsRead, Begin
  <2>7. ASSUME NEW w \in Worker, MetricsWrite(w) PROVE LoanInv'
    BY <2>2, <2>7 DEF MetricsWrite, Finish, Continue
  <2> QED BY <1>4, <2>3, <2>4, <2>5, <2>6, <2>7 DEF FundNext
<1>5. ASSUME LoanRequestNext, UNCHANGED clock PROVE LoanInv'
  BY <1>5, LoanChecked, LoanInserted DEF LoanRequestNext
<1>6. ASSUME LoanRowNext, UNCHANGED clock PROVE LoanInv'
  <2>1. ASSUME NEW id \in LoanIdsInDb,
               liquidate_loan(id) \/ \E amount \in LoanPayment : repay_loan(id, amount)
        PROVE  LoanInv'
    BY <1>6, <2>1, RepaidOrLiquidated
  <2>2. ASSUME NEW id \in LoanIdsInDb, NEW amount \in CollateralAmount,
               \/ add_collateral(id, amount)
               \/ remove_collateral(id, amount)
               \/ \E asset \in LoanAsset : swap_collateral(id, asset, amount)
        PROVE  LoanInv'
    BY <1>6, <2>2, CollateralChanged
  <2>3. ASSUME \/ mark_overdue_loans
               \/ \E asset \in LoanAsset, value \in AssetPrice : update_price(asset, value)
        PROVE  LoanInv'
    BY <1>6, <2>3, SweptOrPriced
  <2> QED BY <1>6, <2>1, <2>2, <2>3 DEF LoanRowNext
<1>7. ASSUME NEW d \in Steps, Tick(d), UNCHANGED loanServiceVars PROVE LoanInv'
  <2>1. clock' \in Nat
    BY <1>1, <1>7, ClockAssumption DEF Tick
  <2> QED BY <1>1, <1>2, <1>7, <2>1, NoHandler DEF loanServiceVars, planServiceVars
<1>8. ASSUME UNCHANGED <<clock, loanServiceVars>> PROVE LoanInv'
  BY <1>1, <1>2, <1>8, NoHandler DEF loanServiceVars, planServiceVars
<1> QED BY <1>3, <1>4, <1>5, <1>6, <1>7, <1>8 DEF LoanStep, LoanServiceNext

-----------------------------------------------------------------------------
(* The insurance fund.  The inductive invariant: the fund has paid the sum *)
(* of the payments recorded, which are of claims approved and of their     *)
(* amounts; a claim that is paid, or whose payment is under way, has one;  *)
(* and a claim under way is approved and one handler's.                    *)

FundRow == [reserves : Nat, contributions : Nat, payouts : Int, yield : Nat, status : FundStatus]

FundClaim == [status : {"pending", "approved", "rejected", "paid"}, claimed : Nat, payout : Int]

FundPayout == [claim : DOMAIN fund_claims, amount : Int]

FundTyped ==
  /\ fund \in FundRow
  /\ fund.reserves + fund.payouts <= fund.contributions + fund.yield
  /\ IsSeq(fund_claims) /\ \A id \in DOMAIN fund_claims : fund_claims[id] \in FundClaim
  /\ IsSeq(fund_payouts) /\ \A n \in DOMAIN fund_payouts : fund_payouts[n] \in FundPayout

PaidTotal == Total([n \in DOMAIN fund_payouts |-> fund_payouts[n].amount])

PaymentMade(id) == \E n \in DOMAIN fund_payouts : fund_payouts[n].claim = id

PaymentsGood ==
  /\ \A n \in DOMAIN fund_payouts :
       /\ fund_claims[fund_payouts[n].claim].status \in {"approved", "paid"}
       /\ fund_payouts[n].amount = fund_claims[fund_payouts[n].claim].payout
  /\ \A id \in DOMAIN fund_claims : fund_claims[id].status = "paid" \/ ClaimHeld(id) => PaymentMade(id)

PayoutRequests ==
  /\ \A w \in Worker : At(w, "payout") =>
       requests[w].claim \in DOMAIN fund_claims /\ fund_claims[requests[w].claim].status = "approved"
  /\ \A v, w \in Worker :
       At(v, "payout") /\ At(w, "payout") /\ requests[v].claim = requests[w].claim => v = w

FundInv ==
  /\ Workers /\ FundTyped /\ PayoutRequests /\ PaymentsGood
  /\ PaidTotal = fund.payouts

(* Steps that leave the claims on the fund and its payments alone. *)
LEMMA ClaimsLeft ==
  ASSUME FundInv, UNCHANGED <<fund_claims, fund_payouts>>, Workers', NoneReaches("payout"),
         fund' \in FundRow, fund'.payouts = fund.payouts,
         fund'.reserves + fund'.payouts <= fund'.contributions + fund'.yield
  PROVE  FundInv'
<1>1. \A w \in Worker : At(w, "payout")' => At(w, "payout") /\ requests'[w] = requests[w]
  BY DEF NoneReaches, At
<1>2. \A id : ClaimHeld(id)' => ClaimHeld(id)
  BY <1>1 DEF ClaimHeld, Pays
<1>3. PaidTotal' = PaidTotal
  BY DEF PaidTotal
<1>4. PayoutRequests'
  BY <1>1 DEF FundInv, PayoutRequests
<1>5. PaymentsGood'
  BY <1>2 DEF FundInv, PaymentsGood, PaymentMade
<1>6. FundTyped'
  BY DEF FundInv, FundTyped, FundPayout
<1> QED BY <1>3, <1>4, <1>5, <1>6 DEF FundInv

(* The fund as it is satisfies them. *)
LEMMA FundLeft ==
  ASSUME FundInv, UNCHANGED <<fund, fund_claims, fund_payouts>>, Workers', NoneReaches("payout")
  PROVE  FundInv'
BY ClaimsLeft DEF FundInv, FundTyped

(* Contributions, earnings and fees. *)
LEMMA FundPaidIn ==
  ASSUME FundInv, NEW kind \in {"contribution", "yield", "fee"}, NEW amount \in FundAmount,
         FundTransaction(kind, amount)
  PROVE  FundInv'
<1>1. amount \in Nat /\ fund \in FundRow
  BY LoanServiceAssumption DEF FundInv, FundTyped
<1>2. /\ fund.reserves \in Nat /\ fund.contributions \in Nat /\ fund.payouts \in Int
      /\ fund.yield \in Nat /\ fund.status \in FundStatus
      /\ fund.reserves + fund.payouts <= fund.contributions + fund.yield
  BY DEF FundInv, FundTyped, FundRow
<1>3. /\ UNCHANGED <<requests, fund_claims, fund_payouts>> /\ fund' = FundAfter(kind, amount)
      /\ fund'.reserves \in 0 .. MaxFund
  BY DEF FundTransaction, RecordTransaction, planServiceVars
<1>4. Workers' /\ NoneReaches("payout")
  BY <1>3, NoHandler DEF FundInv
<1>5. ASSUME NEW r \in Nat, NEW c \in Nat, NEW y \in Nat,
             fund' = [fund EXCEPT !.reserves = r, !.contributions = c, !.yield = y],
             r + fund.payouts <= c + y
      PROVE  FundInv'
  <2>1. /\ fund' \in FundRow /\ fund'.payouts = fund.payouts
        /\ fund'.reserves = r /\ fund'.contributions = c /\ fund'.yield = y
    BY <1>1, <1>5 DEF FundRow
  <2> QED BY <1>3, <1>4, <1>5, <2>1, ClaimsLeft
<1>6. CASE kind = "contribution"
  <2> DEFINE r == fund.reserves + amount
             c == fund.contributions + amount
             y == fund.yield
  <2>1. fund' = [fund EXCEPT !.reserves = r, !.contributions = c, !.yield = y]
    BY <1>1, <1>3, <1>6 DEF FundAfter, FundRow
  <2>2. r \in Nat /\ c \in Nat /\ y \in Nat /\ r + fund.payouts <= c + y
    BY <1>1, <1>2
  <2> HIDE DEF r, c, y
  <2> QED BY <1>5, <2>1, <2>2
<1>7. CASE kind = "yield"
  <2> DEFINE r == fund.reserves + amount
             c == fund.contributions
             y == fund.yield + amount
  <2>1. fund' = [fund EXCEPT !.reserves = r, !.contributions = c, !.yield = y]
    BY <1>1, <1>3, <1>7 DEF FundAfter, FundRow
  <2>2. r \in Nat /\ c \in Nat /\ y \in Nat /\ r + fund.payouts <= c + y
    BY <1>1, <1>2
  <2> HIDE DEF r, c, y
  <2> QED BY <1>5, <2>1, <2>2
<1>8. CASE kind = "fee"
  <2> DEFINE r == fund.reserves - amount
             c == fund.contributions
             y == fund.yield
  <2>1. fund' = [fund EXCEPT !.reserves = r, !.contributions = c, !.yield = y]
    BY <1>1, <1>3, <1>8 DEF FundAfter, FundRow
  <2>2. fund'.reserves = r
    BY <1>1, <2>1 DEF FundRow
  <2>3. r \in Nat /\ c \in Nat /\ y \in Nat /\ r + fund.payouts <= c + y
    BY <1>1, <1>2, <1>3, <2>2, LoanServiceAssumption
  <2> HIDE DEF r, c, y
  <2> QED BY <1>5, <2>1, <2>3
<1> QED BY <1>6, <1>7, <1>8

(* A claim is made, and then decided. *)
LEMMA FundClaimed ==
  ASSUME FundInv,
         \/ \E amount \in InsuredAmount : create_insurance_claim(amount)
         \/ \E id \in DOMAIN fund_claims, approved \in BOOLEAN :
              \E amount \in ApprovedAmount \cup {fund_claims[id].claimed} : process_claim(id, approved, amount)
  PROVE  FundInv'
<1>1. ASSUME UNCHANGED <<requests, fund, fund_payouts>>, IsSeq(fund_claims'),
             DOMAIN fund_claims \subseteq DOMAIN fund_claims',
             \A i \in DOMAIN fund_claims' : fund_claims'[i] \in FundClaim,
             \A i \in DOMAIN fund_claims : fund_claims[i].status \in {"approved", "paid"} \/ ClaimHeld(i)
                                             => fund_claims'[i] = fund_claims[i],
             \A i \in DOMAIN fund_claims' : fund_claims'[i].status = "paid"
                                             => i \in DOMAIN fund_claims /\ fund_claims[i].status = "paid"
      PROVE  FundInv'
  <2>1. FundTyped'
    <3>1. \A n \in DOMAIN fund_payouts : fund_payouts[n] \in [claim : DOMAIN fund_claims', amount : Int]
      BY <1>1 DEF FundInv, FundTyped, FundPayout
    <3> QED BY <1>1, <3>1 DEF FundInv, FundTyped, FundPayout
  <2>2. \A id : ClaimHeld(id)' <=> ClaimHeld(id)
    BY <1>1 DEF ClaimHeld, Pays, At
  <2>3. \A id : ClaimHeld(id) => id \in DOMAIN fund_claims
    BY DEF FundInv, PayoutRequests, ClaimHeld, Pays
  <2>4. PayoutRequests' /\ Workers'
    BY <1>1 DEF FundInv, Workers, PayoutRequests, At
  <2>5. \A n \in DOMAIN fund_payouts : fund_payouts[n].claim \in DOMAIN fund_claims
    BY DEF FundInv, FundTyped, FundPayout
  <2>6. PaymentsGood'
    <3>1. \A n \in DOMAIN fund_payouts : fund_claims'[fund_payouts[n].claim] = fund_claims[fund_payouts[n].claim]
      BY <1>1, <2>5 DEF FundInv, PaymentsGood
    <3>2. ASSUME NEW id \in DOMAIN fund_claims', fund_claims'[id].status = "paid" \/ ClaimHeld(id)
          PROVE  PaymentMade(id)
      BY <1>1, <2>3, <3>2 DEF FundInv, PaymentsGood
    <3>3. \A id : PaymentMade(id)' <=> PaymentMade(id)
      BY <1>1 DEF PaymentMade
    <3> QED BY <1>1, <2>2, <3>1, <3>2, <3>3 DEF FundInv, PaymentsGood
  <2>7. PaidTotal' = PaidTotal
    BY <1>1 DEF PaidTotal
  <2> QED BY <1>1, <2>1, <2>4, <2>6, <2>7 DEF FundInv
<1>2. ASSUME NEW amount \in InsuredAmount, create_insurance_claim(amount) PROVE FundInv'
  <2> DEFINE row == [status |-> "pending", claimed |-> amount, payout |-> 0]
             n == Len(fund_claims')
  <2>1. fund_claims' = Append(fund_claims, row) /\ UNCHANGED <<requests, fund, fund_payouts>>
    BY <1>2 DEF create_insurance_claim, planServiceVars
  <2>2. row \in FundClaim /\ row.status # "paid"
    BY LoanServiceAssumption DEF FundClaim
  <2> HIDE DEF row
  <2>3. Inserted(fund_claims, row, fund_claims')
    BY <2>1, AppendedRow DEF FundInv, FundTyped
  <2>4. /\ IsSeq(fund_claims')
        /\ DOMAIN fund_claims' = DOMAIN fund_claims \cup {n} /\ fund_claims'[n] = row
        /\ \A id \in DOMAIN fund_claims : fund_claims'[id] = fund_claims[id]
    BY <2>3 DEF Inserted
  <2> HIDE DEF n
  <2>5. \A i \in DOMAIN fund_claims' : fund_claims'[i] \in FundClaim
    BY <2>2, <2>4 DEF FundInv, FundTyped
  <2>6. \A i \in DOMAIN fund_claims' : fund_claims'[i].status = "paid"
          => i \in DOMAIN fund_claims /\ fund_claims[i].status = "paid"
    BY <2>2, <2>4
  <2> QED BY <1>1, <2>1, <2>4, <2>5, <2>6
<1>3. ASSUME NEW id \in DOMAIN fund_claims, NEW approved \in BOOLEAN,
             NEW amount \in ApprovedAmount \cup {fund_claims[id].claimed}, process_claim(id, approved, amount)
      PROVE  FundInv'
  <2> DEFINE status == IF approved THEN "approved" ELSE "rejected"
             paid == IF approved THEN amount ELSE 0
             row == [fund_claims[id] EXCEPT !.status = status, !.payout = paid]
  <2>1. /\ ~ClaimHeld(id) /\ fund_claims[id].status = "pending"
        /\ fund_claims' = [fund_claims EXCEPT ![id] = row] /\ UNCHANGED <<requests, fund, fund_payouts>>
    BY <1>3 DEF process_claim, planServiceVars
  <2>2. amount \in Int
    BY LoanServiceAssumption DEF FundInv, FundTyped, FundClaim
  <2>3. status \in {"approved", "rejected"} /\ paid \in Int
    BY <2>2
  <2> HIDE DEF status, paid
  <2>4. row \in FundClaim /\ row.status # "paid"
    BY <2>3 DEF FundInv, FundTyped, FundClaim
  <2> HIDE DEF row
  <2>5. Replaced(fund_claims, id, row, fund_claims')
    BY <2>1, UpdatedRow DEF FundInv, FundTyped
  <2>6. /\ IsSeq(fund_claims') /\ DOMAIN fund_claims' = DOMAIN fund_claims
        /\ \A i \in DOMAIN fund_claims : fund_claims'[i] = IF i = id THEN row ELSE fund_claims[i]
    BY <2>5 DEF Replaced
  <2>7. \A i \in DOMAIN fund_claims' : fund_claims'[i] \in FundClaim
    BY <2>4, <2>6 DEF FundInv, FundTyped
  <2>8. \A i \in DOMAIN fund_claims : fund_claims[i].status \in {"approved", "paid"} \/ ClaimHeld(i)
                                        => fund_claims'[i] = fund_claims[i]
    BY <2>1, <2>6
  <2>9. \A i \in DOMAIN fund_claims' : fund_claims'[i].status = "paid"
          => i \in DOMAIN fund_claims /\ fund_claims[i].status = "paid"
    BY <2>4, <2>6
  <2> QED BY <1>1, <2>1, <2>6, <2>7, <2>8, <2>9
<1> QED BY <1>2, <1>3

(* The payment of a claim leaves the fund and is recorded. *)
LEMMA FundPaysOut ==
  ASSUME FundInv, NEW w \in Worker, NEW id \in DOMAIN fund_claims, PayoutFund(w, id)
  PROVE  FundInv'
<1> DEFINE p == fund_claims[id].payout
           r == [stage |-> "payout", claim |-> id]
           row == [claim |-> id, amount |-> p]
           reserves == fund.reserves - p
           payouts == fund.payouts + p
           k == Len(fund_payouts')
<1>1. /\ ~ClaimHeld(id) /\ fund_claims[id].status = "approved"
      /\ requests[w] = Absent /\ requests' = [requests EXCEPT ![w] = r]
      /\ fund' = [fund EXCEPT !.reserves = reserves, !.payouts = payouts]
      /\ fund'.reserves \in 0 .. MaxFund
      /\ fund_payouts' = Append(fund_payouts, row)
      /\ UNCHANGED fund_claims
  BY DEF PayoutFund, PayFromFund, RecordTransaction, FundAfter, Begin
<1>2. r.claim = id /\ row.claim = id /\ row.amount = p
  OBVIOUS
<1>3. p \in Int /\ row \in FundPayout
  BY DEF FundInv, FundTyped, FundClaim, FundPayout
<1> HIDE DEF r, row
<1>4. /\ requests' = [v \in Worker |-> requests'[v]]
      /\ \A v \in Worker : requests'[v] = IF v = w THEN r ELSE requests[v]
  BY <1>1 DEF FundInv, Workers
<1>5. Inserted(fund_payouts, row, fund_payouts')
  BY <1>1, AppendedRow DEF FundInv, FundTyped
<1>6. /\ IsSeq(fund_payouts') /\ k \notin DOMAIN fund_payouts
      /\ DOMAIN fund_payouts' = DOMAIN fund_payouts \cup {k} /\ fund_payouts'[k] = row
      /\ \A n \in DOMAIN fund_payouts : fund_payouts'[n] = fund_payouts[n]
  BY <1>5 DEF Inserted
<1> HIDE DEF k
<1>7. FundTyped' /\ fund'.payouts = fund.payouts + p /\ fund.payouts \in Int
  <2> HIDE DEF p
  <2>1. /\ fund \in FundRow /\ fund.reserves \in Nat /\ fund.payouts \in Int
        /\ fund.contributions \in Nat /\ fund.yield \in Nat
        /\ fund.reserves + fund.payouts <= fund.contributions + fund.yield
    BY DEF FundInv, FundTyped, FundRow
  <2>2. /\ fund'.reserves = reserves /\ fund'.payouts = payouts
        /\ fund'.contributions = fund.contributions /\ fund'.yield = fund.yield
    BY <1>1, <2>1 DEF FundRow
  <2>3. reserves \in Nat
    BY <1>1, <1>3, <2>1, <2>2, LoanServiceAssumption
  <2>4. payouts \in Int /\ reserves + payouts <= fund.contributions + fund.yield
    BY <1>3, <2>1
  <2> HIDE DEF reserves, payouts
  <2>5. fund' \in FundRow
    BY <1>1, <2>1, <2>3, <2>4 DEF FundRow
  <2>6. \A n \in DOMAIN fund_payouts' : fund_payouts'[n] \in FundPayout
    BY <1>3, <1>6 DEF FundInv, FundTyped
  <2>7. FundPayout' = FundPayout
    BY <1>1 DEF FundPayout
  <2>8. FundTyped'
    BY <1>1, <1>6, <2>2, <2>4, <2>5, <2>6, <2>7 DEF FundInv, FundTyped
  <2> QED BY <2>1, <2>2, <2>8 DEF payouts
<1>8. Workers' /\ PayoutRequests'
  BY <1>1, <1>2, <1>4 DEF FundInv, Workers, PayoutRequests, At, ClaimHeld, Pays
<1>9. PaymentsGood'
  <2>1. \A i : ClaimHeld(i)' => ClaimHeld(i) \/ i = id
    BY <1>1, <1>2, <1>4 DEF ClaimHeld, Pays, At
  <2>2. PaymentMade(id)' /\ \A i : PaymentMade(i) => PaymentMade(i)'
    BY <1>2, <1>6 DEF PaymentMade
  <2>3. ASSUME NEW n \in DOMAIN fund_payouts'
        PROVE  /\ fund_claims'[fund_payouts'[n].claim].status \in {"approved", "paid"}
               /\ fund_payouts'[n].amount = fund_claims'[fund_payouts'[n].claim].payout
    <3>1. CASE n = k
      BY <1>1, <1>2, <1>6, <3>1
    <3>2. CASE n \in DOMAIN fund_payouts
      BY <1>1, <1>6, <3>2 DEF FundInv, PaymentsGood
    <3> QED BY <1>6, <3>1, <3>2
  <2>4. ASSUME NEW i \in DOMAIN fund_claims', fund_claims'[i].status = "paid" \/ ClaimHeld(i)'
        PROVE  PaymentMade(i)'
    BY <1>1, <2>1, <2>2, <2>4 DEF FundInv, PaymentsGood
  <2> QED BY <2>3, <2>4 DEF PaymentsGood
<1>10. PaidTotal' = PaidTotal + p
  <2> DEFINE f == [n \in DOMAIN fund_payouts |-> fund_payouts[n].amount]
             e == [n \in DOMAIN fund_payouts' |-> fund_payouts'[n].amount]
  <2>1. PaidTotal = Total(f) /\ PaidTotal' = Total(e)
    BY DEF PaidTotal
  <2>2. /\ IsFiniteSet(DOMAIN fund_payouts) /\ IsFiniteSet(DOMAIN fund_payouts')
        /\ \A n \in DOMAIN fund_payouts : fund_payouts[n].amount \in Int
    BY <1>6, RowsAreFinite DEF FundInv, FundTyped, FundPayout
  <2>3. IntMap(f) /\ IntMap(e)
    BY <1>2, <1>3, <1>6, <2>2 DEF IntMap
  <2>4. /\ k \notin DOMAIN f /\ DOMAIN e \ {k} = DOMAIN f /\ e[k] = p /\ k \in DOMAIN e
        /\ \A n \in DOMAIN f : e[n] = f[n]
    BY <1>2, <1>6
  <2> HIDE DEF f, e
  <2>5. Total(e) = Total(f) + Stored(e, k, 0)
    BY <2>3, <2>4, RowsTotalInserted
  <2>6. Stored(e, k, 0) = p
    BY <2>4 DEF Stored
  <2> QED BY <2>1, <2>5, <2>6
<1>11. PaidTotal' = fund'.payouts
  BY <1>7, <1>10 DEF FundInv
<1> QED BY <1>7, <1>8, <1>9, <1>11 DEF FundInv

(* The claim is then marked paid. *)
LEMMA ClaimMarked ==
  ASSUME FundInv, NEW w \in Worker, PayoutMark(w)
  PROVE  FundInv'
<1> DEFINE id == requests[w].claim
           row == [fund_claims[id] EXCEPT !.status = "paid"]
<1>1. /\ At(w, "payout") /\ fund_claims' = [fund_claims EXCEPT ![id] = row]
      /\ requests' = [requests EXCEPT ![w] = Absent] /\ UNCHANGED <<fund, fund_payouts>>
  BY DEF PayoutMark, Finish, Continue
<1>2. id \in DOMAIN fund_claims /\ ClaimHeld(id)
  BY <1>1 DEF FundInv, PayoutRequests, ClaimHeld, Pays
<1>3. row \in FundClaim /\ row.payout = fund_claims[id].payout /\ row.status = "paid"
  BY <1>2 DEF FundInv, FundTyped, FundClaim
<1>4. \A v \in Worker : At(v, "payout") /\ requests[v].claim = id => v = w
  BY <1>1 DEF FundInv, PayoutRequests
<1> HIDE DEF id, row
<1>5. Replaced(fund_claims, id, row, fund_claims')
  BY <1>1, UpdatedRow DEF FundInv, FundTyped
<1>6. /\ IsSeq(fund_claims') /\ DOMAIN fund_claims' = DOMAIN fund_claims
      /\ \A i \in DOMAIN fund_claims : fund_claims'[i] = IF i = id THEN row ELSE fund_claims[i]
  BY <1>5 DEF Replaced
<1>7. FundTyped'
  BY <1>1, <1>3, <1>6 DEF FundInv, FundTyped, FundPayout
<1>8. /\ requests' = [v \in Worker |-> requests'[v]]
      /\ \A v \in Worker : requests'[v] = IF v = w THEN Absent ELSE requests[v]
  BY <1>1 DEF FundInv, Workers
<1>9. \A v \in Worker : At(v, "payout")' =>
        v # w /\ At(v, "payout") /\ requests'[v] = requests[v] /\ requests[v].claim # id
  BY <1>4, <1>8 DEF At
<1>10. Workers' /\ PayoutRequests'
  <2>1. \A v \in Worker : At(v, "payout")' =>
          requests'[v].claim \in DOMAIN fund_claims' /\ fund_claims'[requests'[v].claim].status = "approved"
    BY <1>6, <1>9 DEF FundInv, PayoutRequests
  <2>2. \A u, v \in Worker :
          At(u, "payout")' /\ At(v, "payout")' /\ requests'[u].claim = requests'[v].claim => u = v
    BY <1>9 DEF FundInv, PayoutRequests
  <2> QED BY <1>8, <2>1, <2>2 DEF Workers, PayoutRequests
<1>11. PaymentsGood'
  <2>1. \A i : ClaimHeld(i)' => ClaimHeld(i)
    BY <1>9 DEF ClaimHeld, Pays
  <2>2. \A i : PaymentMade(i)' <=> PaymentMade(i)
    BY <1>1 DEF PaymentMade
  <2>3. PaymentMade(id)
    BY <1>2 DEF FundInv, PaymentsGood
  <2>4. \A n \in DOMAIN fund_payouts : fund_payouts[n].claim \in DOMAIN fund_claims
    BY DEF FundInv, FundTyped, FundPayout
  <2>5. ASSUME NEW n \in DOMAIN fund_payouts'
        PROVE  /\ fund_claims'[fund_payouts'[n].claim].status \in {"approved", "paid"}
               /\ fund_payouts'[n].amount = fund_claims'[fund_payouts'[n].claim].payout
    BY <1>1, <1>3, <1>6, <2>4 DEF FundInv, PaymentsGood
  <2>6. ASSUME NEW i \in DOMAIN fund_claims', fund_claims'[i].status = "paid" \/ ClaimHeld(i)'
        PROVE  PaymentMade(i)'
    BY <1>6, <2>1, <2>2, <2>3, <2>6 DEF FundInv, PaymentsGood
  <2> QED BY <2>5, <2>6 DEF PaymentsGood
<1>12. PaidTotal' = PaidTotal
  BY <1>1 DEF PaidTotal
<1> QED BY <1>1, <1>7, <1>10, <1>11, <1>12 DEF FundInv

(* Every step keeps the invariant of the fund.                             *)
LEMMA FundInvKept ==
  ASSUME FundInv, LoanStep
  PROVE  FundInv'
<1>1. Workers
  BY DEF FundInv
<1>2. ASSUME UNCHANGED <<requests, fundRows>> PROVE FundInv'
  BY <1>1, <1>2, NoHandler, FundLeft DEF fundRows
<1>3. ASSUME NEW w \in Worker, NEW r, requests' = [requests EXCEPT ![w] = r],
             r = Absent \/ r.stage # "payout", UNCHANGED fundRows
      PROVE  FundInv'
  BY <1>1, <1>3, OtherStage, FundLeft DEF fundRows
<1>4. ASSUME LoanRequestNext PROVE FundInv'
  <2>1. ASSUME NEW w \in Worker, NEW plan, NEW terms, CreateLoanCheck(w, plan, terms) PROVE FundInv'
    BY <1>3, <2>1 DEF CreateLoanCheck, Begin
  <2>2. ASSUME NEW w \in Worker, CreateLoanInsert(w) PROVE FundInv'
    BY <1>3, <2>2 DEF CreateLoanInsert, Finish, Continue
  <2> QED BY <1>4, <2>1, <2>2 DEF LoanRequestNext
<1>5. ASSUME LoanRowNext PROVE FundInv'
  BY <1>2, <1>5
  DEF LoanRowNext, repay_loan, liquidate_loan, add_collateral, remove_collateral, swap_collateral,
      mark_overdue_loans, update_price, planServiceVars
<1>6. ASSUME FundNext PROVE FundInv'
  <2>1. ASSUME NEW w \in Worker, MetricsRead(w) PROVE FundInv'
    BY <1>3, <2>1 DEF MetricsRead, Begin
  <2>2. ASSUME NEW w \in Worker, MetricsWrite(w) PROVE FundInv'
    <3> DEFINE status == determine_status(requests[w].reserves, CoveredLiabilities)
    <3>1. /\ fund' = [fund EXCEPT !.status = status]
          /\ requests' = [requests EXCEPT ![w] = Absent] /\ UNCHANGED <<fund_claims, fund_payouts>>
      BY <2>2 DEF MetricsWrite, Finish, Continue
    <3>2. status \in FundStatus
      BY DEF determine_status, FundStatus
    <3> HIDE DEF status
    <3>3. /\ fund' \in FundRow /\ fund'.payouts = fund.payouts /\ fund'.reserves = fund.reserves
          /\ fund'.contributions = fund.contributions /\ fund'.yield = fund.yield
      BY <3>1, <3>2 DEF FundInv, FundTyped, FundRow
    <3>4. fund'.reserves + fund'.payouts <= fund'.contributions + fund'.yield
      BY <3>3 DEF FundInv, FundTyped
    <3>5. Workers' /\ NoneReaches("payout")
      BY <1>1, <3>1, OtherStage
    <3> QED BY <3>1, <3>3, <3>4, <3>5, ClaimsLeft
  <2>3. ASSUME NEW w \in Worker,
               PayoutMark(w) \/ \E id \in DOMAIN fund_claims : PayoutFund(w, id)
        PROVE  FundInv'
    BY <2>3, ClaimMarked, FundPaysOut
  <2>4. ASSUME \/ \E kind \in {"contribution", "yield", "fee"}, amount \in FundAmount : FundTransaction(kind, amount)
               \/ \E amount \in InsuredAmount : create_insurance_claim(amount)
               \/ \E id \in DOMAIN fund_claims, approved \in BOOLEAN :
                    \E amount \in ApprovedAmount \cup {fund_claims[id].claimed} : process_claim(id, approved, amount)
        PROVE  FundInv'
    BY <2>4, FundPaidIn, FundClaimed
  <2> QED BY <1>6, <2>1, <2>2, <2>3, <2>4 DEF FundNext
<1>7. ASSUME PlanServiceNext, UNCHANGED fundRows PROVE FundInv'
  BY <1>1, <1>7, PlansAreElsewhere, FundLeft DEF Elsewhere, fundRows
<1>8. ASSUME UNCHANGED loanServiceVars PROVE FundInv'
  BY <1>2, <1>8 DEF loanServiceVars, planServiceVars
<1> QED BY <1>4, <1>5, <1>6, <1>7, <1>8 DEF LoanStep, LoanServiceNext

(* Both invariants hold in every state. *)
LEMMA LoanInvHolds == LoanServiceSpec => [](LoanInv /\ FundInv)
<1>1. PlanServiceInit /\ LoanServiceInit /\ clock = 1 => LoanInv /\ FundInv
  <2> SUFFICES ASSUME PlanServiceInit, LoanServiceInit, clock = 1 PROVE LoanInv /\ FundInv
    OBVIOUS
  <2>1. /\ Workers /\ PlanIds = {} /\ LoanIdsInDb = {} /\ DOMAIN loan_opening = {}
        /\ DOMAIN fund_claims = {} /\ DOMAIN fund_payouts = {}
        /\ \A w \in Worker : \A mark : ~At(w, mark)
    BY EmptyIsSeq
    DEF PlanServiceInit, LoanServiceInit, RequestsInit, Workers, At, PlanIds, LoanIdsInDb
  <2>2. DbLoansTyped
    BY <2>1, EmptyIsSeq DEF DbLoansTyped, LoanServiceInit
  <2>3. EventsExplainCollateral
    <3>1. ASSUME NEW a \in LoanAsset PROVE Explained(a)
      <4>1. deposits[a] = 0
        BY DEF LoanServiceInit
      <4>2. \A f : DOMAIN f = {} => Total(f) = 0
        BY TotalOfNothing
      <4>3. Pledged(db_loans, a) = 0
        BY <2>1, <4>2 DEF Pledged, LoanIdsInDb
      <4>4. OpenedWith(a) = 0
        BY <2>1, <4>2 DEF OpenedWith
      <4> QED BY <4>1, <4>3, <4>4 DEF Explained
    <3> QED BY <3>1, ExplainedIs
  <2>4. FundTyped
    BY <2>1, EmptyIsSeq DEF LoanServiceInit, FundTyped, FundRow, FundStatus
  <2>5. PaidTotal = fund.payouts
    <3>1. \A f : DOMAIN f = {} => Total(f) = 0
      BY TotalOfNothing
    <3>2. PaidTotal = 0
      BY <2>1, <3>1 DEF PaidTotal
    <3> QED BY <3>2 DEF LoanServiceInit
  <2>6. PaymentsGood
    BY <2>1 DEF PaymentsGood
  <2> QED BY <2>1, <2>2, <2>3, <2>4, <2>5, <2>6 DEF LoanInv, FundInv, LoanRequests, PayoutRequests
<1>2. ClaimInv /\ (LoanInv /\ FundInv) /\
      [(LoanServiceNext /\ UNCHANGED clock) \/
       ((\E d \in Steps : Tick(d)) /\ UNCHANGED loanServiceVars)]_<<clock, loanServiceVars>>
      => (LoanInv /\ FundInv)'
  <2>1. ASSUME ClaimInv, LoanInv, FundInv, LoanStep PROVE LoanInv' /\ FundInv'
    BY <2>1, LoanInvKept, FundInvKept
  <2> QED BY <2>1 DEF LoanStep
<1> QED BY <1>1, <1>2, ClaimInvHolds, PTL DEF LoanServiceSpec

(* The rows of the loans, of their events and of the fund agree in every   *)
(* state: a loan is repaid exactly when its payments reach the principal,  *)
(* the deposit events explain the collateral, and the fund has paid what   *)
(* its payments say, each for an approved claim and to its amount, of any  *)
(* sign, every claim marked paid among them, and no more than it received. *)
THEOREM LoanRowsTellOneStory == LoanServiceSpec => []LoanRowsAgree
<1>1. ASSUME LoanInv, FundInv PROVE LoanRowsAgree
  <2>1. RepaidIsFinal
    BY <1>1 DEF LoanInv, DbLoansTyped, GoodLoan, RepaidIsFinal
  <2>2. EventsExplainCollateral
    BY <1>1 DEF LoanInv
  <2>3. PaidClaimsAreFunded
    <3>1. /\ fund.payouts = Total([n \in DOMAIN fund_payouts |-> fund_payouts[n].amount])
          /\ fund.reserves + fund.payouts <= fund.contributions + fund.yield
      BY <1>1 DEF FundInv, FundTyped, PaidTotal
    <3>2. PaymentsGood /\ PayoutRequests
      BY <1>1 DEF FundInv
    <3> QED BY <3>1, <3>2 DEF PaidClaimsAreFunded, PaymentsGood, PaymentMade, PayoutRequests, Pays
  <2> QED BY <2>1, <2>2, <2>3 DEF LoanRowsAgree
<1>2. LoanInv /\ FundInv => LoanRowsAgree
  BY <1>1
<1> QED BY <1>2, LoanInvHolds, PTL

(* The tables of the loans, of their events and of the fund are typed, and *)
(* the plan of every loan exists.                                          *)
THEOREM LoanTypes == LoanServiceSpec => []LoanServiceTypeOK
<1>1. ASSUME LoanInv, FundInv PROVE LoanServiceTypeOK
  <2>1. db_loans \in Seq(LoanRow)
    BY <1>1, SeqOfRows DEF LoanInv, DbLoansTyped, GoodLoan, LoanIdsInDb
  <2>2. loan_opening \in Seq(Opening)
    BY <1>1, SeqOfRows DEF LoanInv, DbLoansTyped
  <2>3. fund_claims \in Seq(FundClaim) /\ fund_payouts \in Seq(FundPayout)
    BY <1>1, SeqOfRows DEF FundInv, FundTyped
  <2>4. fund \in FundRow
    BY <1>1 DEF FundInv, FundTyped
  <2>5. /\ \A id \in LoanIdsInDb : db_loans[id].plan \in PlanIds \cup {Absent}
        /\ deposits \in [LoanAsset -> Int] /\ price \in [LoanAsset -> AssetPrice]
    BY <1>1 DEF LoanInv, DbLoansTyped
  <2> QED BY <2>1, <2>2, <2>3, <2>4, <2>5 DEF LoanServiceTypeOK, Opening, FundClaim, FundPayout, FundRow
<1>2. LoanInv /\ FundInv => LoanServiceTypeOK
  BY <1>1
<1> QED BY <1>2, LoanInvHolds, PTL

-----------------------------------------------------------------------------
(* Borrowing: the collateral of active loans. *)

(* What a loan locks of a token, and what every loan of a table does.      *)
Lock(loan, t) ==
  IF loan.is_active /\ loan.collateral_token = t THEN loan.collateral_amount ELSE 0

Locks(table, t) == [id \in DOMAIN table |-> Lock(table[id], t)]

(* A loan locks an amount. *)
LEMMA LockIsNat ==
  ASSUME NEW loan, loan \in ContractLoan, NEW t
  PROVE  Lock(loan, t) \in Nat
BY DEF Lock, ContractLoan

(* The surplus in these terms. *)
LEMMA SurplusIs ==
  ASSUME NEW t
  PROVE  /\ Surplus(t) = purse[t][Desk] - Total(Locks(contracts, t))
         /\ Surplus(t)' = purse'[t][Desk] - Total(Locks(contracts', t))
<1>1. Surplus(t) = purse[t][Desk] - Total(Locks(contracts, t))
  BY DEF Surplus, Locks, Lock
<1>2. Surplus(t)' = purse'[t][Desk] - Total(Locks(contracts', t))
  BY DEF Surplus, Locks, Lock
<1> QED BY <1>1, <1>2

(* A table of loans. *)
LoanTableTyped(table) == IsSeq(table) /\ \A id \in DOMAIN table : table[id] \in ContractLoan

(* The contract has one. *)
LEMMA ContractsTyped ==
  ASSUME BorrowingInv
  PROVE  /\ LoanTableTyped(contracts)
         /\ \A t \in Collaterals : purse[t][Desk] \in Nat
<1>1. contracts \in Seq(OwedLoan)
  BY DEF BorrowingInv
<1>2. IsSeq(contracts)
  BY <1>1 DEF IsSeq
<1>3. \A id \in DOMAIN contracts : contracts[id] \in ContractLoan
  BY LoanTyped
<1> QED BY <1>2, <1>3 DEF LoanTableTyped, BorrowingInv, PurseOK

(* What loans lock is a finite map to amounts. *)
LEMMA LocksAreMap ==
  ASSUME NEW table, LoanTableTyped(table), NEW t
  PROVE  IntMap(Locks(table, t)) /\ DOMAIN Locks(table, t) = DOMAIN table
<1>1. IsFiniteSet(DOMAIN table)
  BY RowsAreFinite DEF LoanTableTyped
<1>2. \A id \in DOMAIN table : Locks(table, t)[id] \in Int
  BY LockIsNat DEF LoanTableTyped, Locks
<1> QED BY <1>1, <1>2 DEF IntMap, Locks

(* One loan changes what is locked by what it locks before and after.      *)
LEMMA LocksReplaced ==
  ASSUME NEW table, LoanTableTyped(table), NEW id, id \in DOMAIN table,
         NEW loan, loan \in ContractLoan, NEW new, Replaced(table, id, loan, new), NEW t
  PROVE  /\ Total(Locks(table, t)) \in Int /\ Total(Locks(new, t)) \in Int
         /\ Total(Locks(new, t)) - Lock(loan, t) = Total(Locks(table, t)) - Lock(table[id], t)
<1>2. LoanTableTyped(new) /\ DOMAIN new = DOMAIN table /\ new[id] = loan
      /\ \A i \in DOMAIN table \ {id} : new[i] = table[i]
  BY DEF Replaced, LoanTableTyped
<1> DEFINE f == Locks(table, t)
           e == Locks(new, t)
<1>3. IntMap(f) /\ IntMap(e) /\ DOMAIN f = DOMAIN table /\ DOMAIN e = DOMAIN table
  BY <1>2, LocksAreMap
<1>4. \A i \in DOMAIN table \ {id} : e[i] = f[i]
  BY <1>2 DEF Locks
<1>5. Stored(e, id, 0) = Lock(loan, t) /\ Stored(f, id, 0) = Lock(table[id], t)
  BY <1>2, <1>3 DEF Stored, Locks
<1> HIDE DEF f, e
<1>6. /\ Total(f) \in Int /\ Total(e) \in Int
      /\ Total(e) - Stored(e, id, 0) = Total(f) - Stored(f, id, 0)
  BY <1>3, <1>4, TotalChanges
<1> QED BY <1>5, <1>6 DEF f, e

(* A new loan adds what it locks.                                          *)
LEMMA LocksInserted ==
  ASSUME NEW table, LoanTableTyped(table), NEW loan, loan \in ContractLoan,
         NEW new, Inserted(table, loan, new), NEW t
  PROVE  /\ Total(Locks(table, t)) \in Int /\ Total(Locks(new, t)) \in Int
         /\ Total(Locks(new, t)) = Total(Locks(table, t)) + Lock(loan, t)
<1> DEFINE n == Len(new)
<1>2. LoanTableTyped(new) /\ n \notin DOMAIN table /\ DOMAIN new = DOMAIN table \cup {n}
      /\ new[n] = loan /\ \A i \in DOMAIN table : new[i] = table[i]
  BY DEF Inserted, LoanTableTyped
<1> HIDE DEF n
<1> DEFINE f == Locks(table, t)
           e == Locks(new, t)
<1>3. IntMap(f) /\ IntMap(e) /\ DOMAIN f = DOMAIN table /\ DOMAIN e = DOMAIN table \cup {n}
  BY <1>2, LocksAreMap
<1>4. \A i \in DOMAIN table : e[i] = f[i]
  BY <1>2 DEF Locks
<1>5. Stored(e, n, 0) = Lock(loan, t)
  BY <1>2, <1>3 DEF Stored, Locks
<1> HIDE DEF f, e
<1>6. /\ n \notin DOMAIN f /\ DOMAIN e \ {n} = DOMAIN f /\ \A k \in DOMAIN f : e[k] = f[k]
  BY <1>2, <1>3, <1>4
<1>7. /\ Total(f) \in Int /\ Total(e) \in Int /\ Total(e) = Total(f) + Stored(e, n, 0)
  BY <1>3, <1>6, RowsTotalInserted
<1> QED BY <1>5, <1>7 DEF f, e

(* What a transfer moves into and out of the contract.                     *)
LEMMA DeskMoves ==
  ASSUME PurseOK, NEW t \in Collaterals, NEW a \in Account, NEW amount \in Nat, NEW u \in Collaterals
  PROVE  /\ purse' = Moved(t, a, Desk, amount) =>
              purse'[u][Desk] = purse[u][Desk] + (IF u = t THEN amount ELSE 0)
         /\ purse' = Moved(t, Desk, a, amount) =>
              purse'[u][Desk] = purse[u][Desk] - (IF u = t THEN amount ELSE 0)
<1>1. a # Desk /\ purse[u] \in [Account \cup {Desk} -> Nat] /\ purse[u][Desk] \in Nat
  BY BorrowingAssumption DEF PurseOK
<1>2. \A from, to : Moved(t, from, to, amount)[u] =
         IF u = t THEN Transfer(purse[u], from, to, amount) ELSE purse[u]
  BY DEF Moved, PurseOK
<1>3. /\ Transfer(purse[u], a, Desk, amount)[Desk] = purse[u][Desk] + amount
      /\ Transfer(purse[u], Desk, a, amount)[Desk] = purse[u][Desk] - amount
  BY <1>1 DEF Transfer
<1> QED BY <1>1, <1>2, <1>3

(* Nobody's collateral is paid out for another's loan. *)
SurplusKept == \A t \in Collaterals : Surplus(t)' >= Surplus(t)

(* A step that writes one loan and takes no more than it unlocks.          *)
LEMMA OneLoanKeeps ==
  ASSUME BorrowingInv, BorrowingInv', NEW id, id \in DOMAIN contracts,
         NEW loan, loan \in ContractLoan, contracts' = [contracts EXCEPT ![id] = loan],
         \A t \in Collaterals :
           purse'[t][Desk] - Lock(loan, t) >= purse[t][Desk] - Lock(contracts[id], t)
  PROVE  SurplusKept
<1> SUFFICES ASSUME NEW t \in Collaterals PROVE Surplus(t)' >= Surplus(t)
  BY DEF SurplusKept
<1> DEFINE old == Total(Locks(contracts, t))
           new == Total(Locks(contracts', t))
           before == purse[t][Desk]
           after == purse'[t][Desk]
           l == Lock(loan, t)
           k == Lock(contracts[id], t)
<1>1. old \in Int /\ new \in Int /\ new - l = old - k
  <2>1. LoanTableTyped(contracts)
    BY ContractsTyped
  <2> DEFINE table == contracts'
  <2>2. Replaced(contracts, id, loan, table)
    BY <2>1, UpdatedRow DEF LoanTableTyped
  <2>3. old = Total(Locks(contracts, t)) /\ new = Total(Locks(table, t))
        /\ l = Lock(loan, t) /\ k = Lock(contracts[id], t)
    OBVIOUS
  <2> HIDE DEF old, new, l, k, table
  <2> QED BY <2>1, <2>2, <2>3, LocksReplaced
<1>2. l \in Nat /\ k \in Nat
  BY LockIsNat, LoanTyped
<1>3. before \in Nat /\ after \in Nat
  <2>1. PurseOK /\ PurseOK'
    BY DEF BorrowingInv
  <2> QED BY <2>1 DEF PurseOK
<1>4. after - l >= before - k
  OBVIOUS
<1>5. Surplus(t) = before - old /\ Surplus(t)' = after - new
  BY SurplusIs
<1> HIDE DEF old, new, before, after, l, k
<1> QED BY <1>1, <1>2, <1>3, <1>4, <1>5

(* What a new loan locks has been brought. *)
LEMMA NewLoanIsKept ==
  ASSUME BorrowingInv, BorrowingInv', NEW b \in Account, NEW r \in ContractRequest,
         NEW days \in ContractDays, NEW t \in Collaterals,
         CreateLoan(b, r.principal, clock + days, t, r.collateral)
  PROVE  SurplusKept
<1> DEFINE loan == [borrower |-> b, principal |-> r.principal, due_date |-> clock + days,
                    amount_repaid |-> 0, collateral_amount |-> r.collateral, collateral_token |-> t,
                    is_active |-> TRUE, extension_count |-> 0]
           c == r.collateral
<1>1. /\ r.principal \in Nat \ {0} /\ c \in Nat /\ days \in Nat /\ clock \in Nat
  BY BorrowingAssumption DEF BorrowingInv
<1>2. loan \in ContractLoan
  BY <1>1 DEF ContractLoan, MAX_EXTENSIONS
<1>3. contracts' = Append(contracts, loan) /\ purse' = Moved(t, b, Desk, c)
  BY DEF CreateLoan
<1>4. ASSUME NEW u PROVE Lock(loan, u) = IF u = t THEN c ELSE 0
  BY DEF Lock
<1> HIDE DEF loan, c
<1> SUFFICES ASSUME NEW u \in Collaterals PROVE Surplus(u)' >= Surplus(u)
  BY DEF SurplusKept
<1> DEFINE old == Total(Locks(contracts, u))
           table == contracts'
           new == Total(Locks(table, u))
           before == purse[u][Desk]
           after == purse'[u][Desk]
           l == Lock(loan, u)
<1>5. LoanTableTyped(contracts) /\ before \in Nat /\ l \in Nat
  BY <1>2, ContractsTyped, LockIsNat
<1>6. after = before + l
  <2>1. PurseOK
    BY DEF BorrowingInv
  <2> QED BY <1>1, <1>3, <1>4, <2>1, DeskMoves
<1>7. Surplus(u) = before - old /\ Surplus(u)' = after - new
  BY SurplusIs
<1>8. Inserted(contracts, loan, table)
  BY <1>3, <1>5, AppendedRow DEF LoanTableTyped
<1> HIDE DEF table
<1>9. old \in Int /\ new \in Int /\ new = old + l
  BY <1>2, <1>5, <1>8, LocksInserted
<1> HIDE DEF old, new, before, after, l
<1> QED BY <1>5, <1>6, <1>7, <1>9

(* What is returned of an active loan was locked by it.                    *)
LEMMA RepaymentIsKept ==
  ASSUME BorrowingInv, BorrowingInv', NEW id \in DOMAIN contracts, NEW amount \in RepayAmount,
         RepayLoan(id, amount), contracts[id].is_active
  PROVE  SurplusKept
<1> DEFINE old == contracts[id]
           repaid == old.amount_repaid + amount
           closed == repaid >= old.principal
           loan == [old EXCEPT !.amount_repaid = repaid, !.is_active = old.is_active /\ ~closed]
           c == old.collateral_amount
           s == old.collateral_token
<1>1. amount \in Nat
  BY BorrowingAssumption
<1>2. old \in ContractLoan
  BY LoanTyped
<1>3. /\ contracts' = [contracts EXCEPT ![id] = loan]
      /\ IF closed THEN purse' = Moved(s, Desk, old.borrower, c) ELSE purse' = purse
  BY DEF RepayLoan
<1>4. s \in Collaterals /\ c \in Nat /\ old.borrower \in Account /\ repaid \in Nat /\ closed \in BOOLEAN
  BY <1>1, <1>2 DEF ContractLoan
<1>5. loan \in ContractLoan /\ loan.is_active = ~closed
      /\ loan.collateral_token = s /\ loan.collateral_amount = c
  BY <1>2, <1>4 DEF ContractLoan
<1>6. ASSUME NEW t \in Collaterals
      PROVE  purse'[t][Desk] - Lock(loan, t) >= purse[t][Desk] - Lock(old, t)
  <2> HIDE DEF loan, closed, old
  <2>1. /\ Lock(old, t) = IF s = t THEN c ELSE 0
        /\ Lock(loan, t) = IF ~closed /\ s = t THEN c ELSE 0
    BY <1>5 DEF Lock, old
  <2>2. purse[t][Desk] \in Nat
    BY ContractsTyped
  <2>3. purse'[t][Desk] = purse[t][Desk] - (IF closed /\ t = s THEN c ELSE 0)
    <3>1. CASE closed
      <4>1. PurseOK
        BY DEF BorrowingInv
      <4>2. purse' = Moved(s, Desk, old.borrower, c)
        BY <1>3, <3>1
      <4> HIDE DEF s, c
      <4> QED BY <1>4, <3>1, <4>1, <4>2, DeskMoves
    <3>2. CASE ~closed
      BY <1>3, <2>2, <3>2
    <3> QED BY <3>1, <3>2
  <2> HIDE DEF s, c
  <2> QED BY <1>4, <2>1, <2>2, <2>3
<1> HIDE DEF loan, closed
<1> QED BY <1>3, <1>5, <1>6, OneLoanKeeps

(* An extension locks nothing, and brings a fee.                           *)
LEMMA ExtensionIsKept ==
  ASSUME BorrowingInv, BorrowingInv', NEW id \in DOMAIN contracts, NEW days \in ExtensionDays,
         ExtendLoan(id, days)
  PROVE  SurplusKept
<1> DEFINE old == contracts[id]
           loan == [old EXCEPT !.due_date = old.due_date + days, !.extension_count = old.extension_count + 1]
           fee == ExtensionFee(old)
           s == old.collateral_token
<1>1. days \in Nat
  BY BorrowingAssumption
<1>2. old \in ContractLoan /\ (old.is_active <=> Debt(old) > 0) /\ Debt(old) \in Int
  BY LoanTyped
<1>3. /\ contracts' = [contracts EXCEPT ![id] = loan]
      /\ old.is_active /\ old.extension_count < MAX_EXTENSIONS
      /\ purse' = Moved(s, old.borrower, Desk, fee)
  BY DEF ExtendLoan
<1>4. old.due_date + days \in Nat /\ old.extension_count + 1 \in 0..MAX_EXTENSIONS
  BY <1>1, <1>2, <1>3 DEF ContractLoan, MAX_EXTENSIONS
<1>5. loan \in ContractLoan /\ \A t : Lock(loan, t) = Lock(old, t)
  BY <1>2, <1>4 DEF ContractLoan, Lock
<1>6. fee \in Nat
  <2>1. Debt(old) \in Nat
    BY <1>2, <1>3
  <2> QED BY <2>1, ShareIsNat DEF ExtensionFee, EXTENSION_FEE_BPS
<1>7. s \in Collaterals /\ old.borrower \in Account
  BY <1>2 DEF ContractLoan
<1> HIDE DEF fee, s
<1>8. ASSUME NEW t \in Collaterals
      PROVE  purse'[t][Desk] - Lock(loan, t) >= purse[t][Desk] - Lock(old, t)
  <2>1. purse[t][Desk] \in Nat /\ Lock(old, t) \in Nat
    BY <1>2, ContractsTyped, LockIsNat
  <2>2. PurseOK
    BY DEF BorrowingInv
  <2>3. purse'[t][Desk] = purse[t][Desk] + (IF t = s THEN fee ELSE 0)
    BY <1>3, <1>6, <1>7, <2>2, DeskMoves
  <2> HIDE DEF loan, old
  <2> QED BY <1>5, <1>6, <2>1, <2>3
<1> HIDE DEF loan
<1> QED BY <1>3, <1>5, <1>8, OneLoanKeeps

(* A larger principal locks the same. *)
LEMMA IncreaseIsKept ==
  ASSUME BorrowingInv, BorrowingInv', NEW id \in DOMAIN contracts, NEW amount \in RepayAmount,
         IncreaseLoanAmount(id, amount)
  PROVE  SurplusKept
<1> DEFINE old == contracts[id]
           loan == [old EXCEPT !.principal = old.principal + amount]
<1>1. amount \in Nat
  BY BorrowingAssumption
<1>2. old \in ContractLoan
  BY LoanTyped
<1>3. contracts' = [contracts EXCEPT ![id] = loan] /\ purse' = purse
  BY DEF IncreaseLoanAmount
<1>4. loan \in ContractLoan /\ \A t : Lock(loan, t) = Lock(old, t)
  BY <1>1, <1>2 DEF ContractLoan, Lock
<1>5. ASSUME NEW t \in Collaterals
      PROVE  purse'[t][Desk] - Lock(loan, t) >= purse[t][Desk] - Lock(old, t)
  <2>1. purse[t][Desk] \in Nat /\ Lock(old, t) \in Nat
    BY <1>2, ContractsTyped, LockIsNat
  <2> HIDE DEF loan, old
  <2> QED BY <1>3, <1>4, <2>1
<1> HIDE DEF loan
<1> QED BY <1>3, <1>4, <1>5, OneLoanKeeps

(* What a liquidator gets of an active loan was locked by it; the rest     *)
(* stays, locked or not.                                                   *)
LEMMA SeizureIsKept ==
  ASSUME BorrowingInv, BorrowingInv', NEW id \in DOMAIN contracts, NEW liquidator \in Account,
         NEW amount \in Nat, NEW reward \in Nat, Seize(id, liquidator, amount, reward),
         contracts[id].is_active \/ reward = 0
  PROVE  SurplusKept
<1> DEFINE old == contracts[id]
           repaid == old.amount_repaid + amount
           open == old.is_active /\ repaid < old.principal
           left == old.collateral_amount - reward
           loan == [old EXCEPT !.collateral_amount = left, !.amount_repaid = repaid, !.is_active = open]
           c == old.collateral_amount
           s == old.collateral_token
<1>1. old \in ContractLoan
  BY LoanTyped
<1>2. /\ contracts' = [contracts EXCEPT ![id] = loan] /\ reward <= c
      /\ purse' = Moved(s, Desk, liquidator, reward)
  BY DEF Seize
<1>3. s \in Collaterals /\ c \in Nat /\ repaid \in Nat /\ open \in BOOLEAN /\ left \in Nat
  BY <1>1, <1>2 DEF ContractLoan
<1>4. loan \in ContractLoan /\ loan.is_active = open
      /\ loan.collateral_token = s /\ loan.collateral_amount = left
  BY <1>1, <1>3 DEF ContractLoan
<1>5. ASSUME NEW t \in Collaterals
      PROVE  purse'[t][Desk] - Lock(loan, t) >= purse[t][Desk] - Lock(old, t)
  <2>1. /\ Lock(old, t) = IF old.is_active /\ s = t THEN c ELSE 0
        /\ Lock(loan, t) = IF open /\ s = t THEN left ELSE 0
    <3>1. Lock(old, t) = IF old.is_active /\ s = t THEN c ELSE 0
      BY DEF Lock
    <3> HIDE DEF loan, open, left, s
    <3> QED BY <1>4, <3>1 DEF Lock
  <2>2. purse[t][Desk] \in Nat /\ PurseOK
    BY ContractsTyped DEF BorrowingInv
  <2>3. purse'[t][Desk] = purse[t][Desk] - (IF t = s THEN reward ELSE 0)
    <3> HIDE DEF s
    <3> QED BY <1>2, <1>3, <2>2, DeskMoves
  <2>4. open => old.is_active
    OBVIOUS
  <2>5. left = c - reward /\ (old.is_active \/ reward = 0)
    OBVIOUS
  <2> DEFINE was == old.is_active
             before == purse[t][Desk]
             after == purse'[t][Desk]
  <2> HIDE DEF loan, open, left, s, c, old, was, before, after
  <2> QED BY <1>2, <1>3, <2>1, <2>2, <2>3, <2>4, <2>5 DEF was, before, after
<1> HIDE DEF loan
<1> QED BY <1>2, <1>4, <1>5, OneLoanKeeps

(* A loan closed before is written again. *)
ServedAgain == \E id \in DOMAIN contracts : ~contracts[id].is_active /\ contracts[id] # contracts'[id]

(* A row of which more was paid is another row.                            *)
LEMMA PaidRowDiffers ==
  ASSUME NEW id \in DOMAIN contracts, contracts[id] \in ContractLoan, NEW amount, amount \in Nat \ {0},
         contracts'[id].amount_repaid = contracts[id].amount_repaid + amount
  PROVE  contracts[id] # contracts'[id]
<1>1. contracts[id].amount_repaid \in Nat
  BY DEF ContractLoan
<1> QED BY <1>1

(* A repayment of a closed loan writes it. *)
LEMMA RepaidAgain ==
  ASSUME BorrowingInv, NEW id \in DOMAIN contracts, NEW amount \in RepayAmount,
         RepayLoan(id, amount), ~contracts[id].is_active
  PROVE  ServedAgain
<1>1. amount \in Nat \ {0} /\ contracts[id] \in ContractLoan
  BY BorrowingAssumption, LoanTyped
<1>2. contracts'[id].amount_repaid = contracts[id].amount_repaid + amount
  BY <1>1 DEF RepayLoan, ContractLoan
<1> QED BY <1>1, <1>2, PaidRowDiffers DEF ServedAgain

(* An auction executed for a closed loan writes it too, unless the bid is  *)
(* of nothing, for which nothing is paid.                                  *)
LEMMA ExecutionIsKept ==
  ASSUME BorrowingInv, BorrowingInv', NEW id \in DOMAIN contracts, ExecuteAuction(id)
  PROVE  SurplusKept \/ ServedAgain
<1> DEFINE auction == auctions[id]
           bid == auction.winning_bid_amount
           reward == bid + Share(bid, auction.locked_discount_bps)
           bidder == auction.winning_bidder
<1>1. /\ id \in DOMAIN auctions /\ bidder # Absent
      /\ Seize(id, bidder, bid, reward)
  BY DEF ExecuteAuction, IsAuctioned
<1>2. auction \in LiquidationAuction
  BY <1>1 DEF BorrowingInv, AuctionsTyped, IsMap
<1>3. bidder \in Account /\ bid \in Nat /\ auction.locked_discount_bps \in Nat
  BY <1>1, <1>2 DEF LiquidationAuction
<1>4. Share(bid, auction.locked_discount_bps) \in Nat
  BY <1>3, ShareIsNat
<1>5. reward \in Nat
  BY <1>3, <1>4
<1>6. bid = 0 => reward = 0
  <2>1. \A n \in Nat : Share(0, n) = 0
    BY DEF Share
  <2> QED BY <1>3, <2>1
<1> HIDE DEF auction, bid, reward, bidder
<1>7. CASE contracts[id].is_active \/ bid = 0
  BY <1>1, <1>3, <1>5, <1>6, <1>7, SeizureIsKept
<1>8. CASE ~contracts[id].is_active /\ bid # 0
  <2>1. contracts[id] \in ContractLoan
    BY LoanTyped
  <2>2. contracts'[id].amount_repaid = contracts[id].amount_repaid + bid
    BY <1>1, <2>1 DEF Seize, ContractLoan
  <2>3. bid \in Nat \ {0}
    BY <1>3, <1>8
  <2>4. contracts[id] # contracts'[id]
    BY <2>1, <2>2, <2>3, PaidRowDiffers
  <2> QED BY <1>8, <2>4 DEF ServedAgain
<1> QED BY <1>7, <1>8

(* A liquidation is of an active loan. *)
LEMMA LiquidationIsKept ==
  ASSUME BorrowingInv, BorrowingInv', NEW id \in DOMAIN contracts, NEW liquidator \in Liquidator,
         NEW amount \in RepayAmount, Liquidate(liquidator, id, amount)
  PROVE  SurplusKept
<1> DEFINE reward == amount + Share(amount, LiquidationBonus)
<1>1. amount \in Nat /\ LiquidationBonus \in Nat /\ liquidator \in Account
  BY BorrowingAssumption
<1>2. reward \in Nat
  <2>1. Share(amount, LiquidationBonus) \in Nat
    BY <1>1, ShareIsNat
  <2> QED BY <1>1, <2>1
<1>3. Seize(id, liquidator, amount, reward) /\ contracts[id].is_active
  BY DEF Liquidate
<1> HIDE DEF reward
<1> QED BY <1>1, <1>2, <1>3, SeizureIsKept

(* Calls that move nothing. *)
LEMMA NothingMoved ==
  ASSUME BorrowingInv, UNCHANGED <<contracts, purse>>
  PROVE  SurplusKept
<1> SUFFICES ASSUME NEW t \in Collaterals PROVE Surplus(t)' >= Surplus(t)
  BY DEF SurplusKept
<1> DEFINE old == Total(Locks(contracts, t))
           before == purse[t][Desk]
<1>1. Surplus(t) = before - old /\ Surplus(t)' = before - old
  BY SurplusIs
<1>2. old \in Int /\ before \in Nat
  <2>1. IntMap(Locks(contracts, t))
    BY ContractsTyped, LocksAreMap
  <2> QED BY <2>1, TotalIsInt, ContractsTyped
<1> HIDE DEF old, before
<1> QED BY <1>1, <1>2

(* The collateral of an active loan is paid out for that loan only,        *)
(* whatever is lent, repaid, liquidated and auctioned; only calls that     *)
(* serve a closed loan again take from the others' (repay_loan and         *)
(* execute_auction).                                                       *)
THEOREM CollateralStays == BorrowingSpec => OthersCollateralIsKept
<1>1. ASSUME BorrowingInv, BorrowingInv', [BorrowingNext]_<<clock, borrowingVars>>
      PROVE  SurplusKept \/ ServedAgain
  <2>1. ASSUME UNCHANGED <<contracts, purse>> PROVE SurplusKept
    BY <1>1, <2>1, NothingMoved
  <2>2. CASE UNCHANGED <<clock, borrowingVars>>
    BY <2>1, <2>2 DEF borrowingVars
  <2>3. ASSUME UNCHANGED borrowingVars PROVE SurplusKept
    BY <2>1, <2>3 DEF borrowingVars
  <2>4. CASE BorrowingSettingsNext
    <3>1. UNCHANGED <<contracts, purse>>
      BY <2>4 DEF BorrowingSettingsNext, SetBorrowingRole, SetBorrowingPaused, WhitelistCollateral,
         SetGlobalPause, SetVaultPause
    <3> QED BY <2>1, <3>1
  <2>5. CASE ContractNext
    <3>1. ASSUME NEW id \in DOMAIN contracts, NEW amount \in RepayAmount, RepayLoan(id, amount)
          PROVE  SurplusKept \/ ServedAgain
      <4>1. CASE contracts[id].is_active
        BY <1>1, <3>1, <4>1, RepaymentIsKept
      <4>2. CASE ~contracts[id].is_active
        BY <1>1, <3>1, <4>2, RepaidAgain
      <4> QED BY <4>1, <4>2
    <3>2. ASSUME NEW id \in DOMAIN contracts, NEW amount \in RepayAmount, IncreaseLoanAmount(id, amount)
          PROVE  SurplusKept
      BY <1>1, <3>2, IncreaseIsKept
    <3>3. ASSUME NEW b \in Account, NEW r \in ContractRequest, NEW days \in ContractDays,
                 NEW t \in Collaterals, CreateLoan(b, r.principal, clock + days, t, r.collateral)
          PROVE  SurplusKept
      BY <1>1, <3>3, NewLoanIsKept
    <3> QED BY <2>5, <3>1, <3>2, <3>3 DEF ContractNext
  <2>6. CASE ExtensionNext
    BY <1>1, <2>6, ExtensionIsKept DEF ExtensionNext
  <2>7. CASE LiquidationNext
    <3>1. PICK id \in DOMAIN contracts :
            \/ \E liquidator \in Liquidator, amount \in RepayAmount :
                 \/ Liquidate(liquidator, id, amount)
                 \/ BidOnLiquidation(liquidator, id, amount)
            \/ \E terms \in AuctionTerms : StartLiquidationAuction(id, terms)
            \/ ExecuteAuction(id)
            \/ CancelAuction(id)
      BY <2>7 DEF LiquidationNext
    <3>2. ASSUME NEW liquidator \in Liquidator, NEW amount \in RepayAmount, Liquidate(liquidator, id, amount)
          PROVE  SurplusKept
      BY <1>1, <3>2, LiquidationIsKept
    <3>3. ASSUME NEW liquidator \in Liquidator, NEW amount \in RepayAmount,
                 BidOnLiquidation(liquidator, id, amount)
          PROVE  SurplusKept
      BY <2>1, <3>3 DEF BidOnLiquidation
    <3>4. ASSUME NEW terms \in AuctionTerms, StartLiquidationAuction(id, terms) PROVE SurplusKept
      BY <2>1, <3>4 DEF StartLiquidationAuction
    <3>5. ASSUME CancelAuction(id) PROVE SurplusKept
      BY <2>1, <3>5 DEF CancelAuction
    <3>6. ASSUME ExecuteAuction(id) PROVE SurplusKept \/ ServedAgain
      BY <1>1, <3>6, ExecutionIsKept
    <3> QED BY <3>1, <3>2, <3>3, <3>4, <3>5, <3>6
  <2> QED BY <1>1, <2>2, <2>3, <2>4, <2>5, <2>6, <2>7 DEF BorrowingNext
<1>2. BorrowingInv /\ BorrowingInv' /\ [BorrowingNext]_<<clock, borrowingVars>>
        => [(\A t \in Collaterals : Surplus(t)' >= Surplus(t))
            \/ \E id \in DOMAIN contracts :
                 ~contracts[id].is_active /\ contracts[id] # contracts'[id]]_<<clock, borrowingVars>>
  BY <1>1 DEF SurplusKept, ServedAgain
<1> QED BY <1>2, BorrowingInvHolds, PTL DEF BorrowingSpec, OthersCollateralIsKept

-----------------------------------------------------------------------------
(* Governance: the types.                                                  *)

BoardTyped ==
  /\ gov_roles \subseteq Account \X Role
  /\ gov_paused \in BOOLEAN
  /\ parameters \in [{"interest_rate", "collateral_ratio", "liquidation_bonus"} -> Nat]
  /\ controlled \subseteq {"other"}

SigningTyped ==
  /\ multi_sig \in [signers : Seq(Account), threshold : Nat]
  /\ IsSeq(transactions) /\ \A id \in DOMAIN transactions : transactions[id] \in PendingTransaction

DelegationTyped ==
  /\ IsMap(balance, Council, Int)
  /\ IsMap(delegation, Council, Council)
  /\ IsMap(delegators, Council, ListOf(Council))
  /\ IsSeq(history) /\ \A i \in DOMAIN history : history[i] \in DelegationRecord

VotesTyped ==
  /\ IsSeq(proposals) /\ \A id \in DOMAIN proposals : proposals[id] \in Proposal
  /\ IsMap(vote_choice, Account \X (DOMAIN proposals), VoteChoice)

(* Roles, the pause, parameters and linked contracts keep their types.     *)
LEMMA BoardKept ==
  ASSUME BoardTyped, SigningNext
  PROVE  BoardTyped'
<1>1. ASSUME UNCHANGED adminVars PROVE BoardTyped'
  BY <1>1 DEF BoardTyped, adminVars
<1>2. ASSUME NEW p \in DOMAIN parameters, NEW value \in Parameters, UpdateParameter(p, value)
      PROVE  BoardTyped'
  <2>1. value \in Nat
    BY GovernanceAssumption
  <2>2. /\ parameters' = [parameters EXCEPT ![p] = value]
        /\ UNCHANGED <<gov_roles, gov_paused, controlled>>
    BY <1>2 DEF UpdateParameter
  <2> QED BY <2>1, <2>2 DEF BoardTyped
<1>3. ASSUME NEW c \in Council, NEW a \in Council, NEW granted \in BOOLEAN,
             SetGovRole(c, a, "Admin", granted)
      PROVE  BoardTyped'
  <2>1. a \in Account /\ "Admin" \in Role
    BY GovernanceAssumption DEF Role
  <2>2. gov_roles' \subseteq gov_roles \cup {<<a, "Admin">>}
    BY <1>3 DEF SetGovRole, WithRole
  <2>3. UNCHANGED <<gov_paused, parameters, controlled>>
    BY <1>3 DEF SetGovRole
  <2> QED BY <2>1, <2>2, <2>3 DEF BoardTyped
<1>4. ASSUME NEW c \in Council, NEW value \in BOOLEAN, SetGovPaused(c, value) PROVE BoardTyped'
  BY <1>4 DEF SetGovPaused, BoardTyped
<1>5. ASSUME AddControlledContract("other") PROVE BoardTyped'
  BY <1>5 DEF AddControlledContract, BoardTyped
<1>6. ASSUME \/ \E config \in SignerList : UpdateMultiSigConfig(config)
             \/ \E target \in {"self", "other"} : ProposeTransaction(target)
             \/ \E id \in DOMAIN transactions :
                  \/ \E signer \in Council : SignTransaction(signer, id)
                  \/ ExecuteTransaction(id)
      PROVE  BoardTyped'
  BY <1>1, <1>6 DEF UpdateMultiSigConfig, ProposeTransaction, SignTransaction, ExecuteTransaction
<1> QED BY <1>2, <1>3, <1>4, <1>5, <1>6 DEF SigningNext

(* A transaction with another row.                                         *)
LEMMA TransactionWritten ==
  ASSUME SigningTyped, UNCHANGED multi_sig, NEW id, NEW row, row \in PendingTransaction,
         transactions' = [transactions EXCEPT ![id] = row]
  PROVE  SigningTyped'
<1>1. Replaced(transactions, id, row, transactions')
  BY UpdatedRow DEF SigningTyped
<1>2. IsSeq(transactions') /\ \A i \in DOMAIN transactions' : transactions'[i] \in PendingTransaction
  BY <1>1 DEF Replaced, SigningTyped
<1> QED BY <1>2 DEF SigningTyped

(* Signers and what they sign keep their types.                            *)
LEMMA SigningKept ==
  ASSUME SigningTyped, SigningNext
  PROVE  SigningTyped'
<1>1. ASSUME UNCHANGED signingVars PROVE SigningTyped'
  BY <1>1 DEF SigningTyped, signingVars
<1>2. ASSUME NEW config \in SignerList, UpdateMultiSigConfig(config) PROVE SigningTyped'
  <2>1. multi_sig' = config /\ transactions' = transactions
    BY <1>2 DEF UpdateMultiSigConfig
  <2>2. config.signers \in Seq(Account)
    <3>1. config.signers \in Seq(Council) /\ Council \subseteq Account
      BY GovernanceAssumption
    <3> QED BY <3>1
  <2>3. config \in [signers : Seq(Account), threshold : Nat]
    BY <2>2, GovernanceAssumption
  <2> QED BY <2>1, <2>3 DEF SigningTyped
<1>3. ASSUME NEW target \in {"self", "other"}, ProposeTransaction(target) PROVE SigningTyped'
  <2> DEFINE row == [target |-> target, signatures |-> {}, executed |-> FALSE]
  <2>1. transactions' = Append(transactions, row) /\ UNCHANGED multi_sig
    BY <1>3 DEF ProposeTransaction
  <2>2. row \in PendingTransaction
    BY DEF PendingTransaction
  <2> HIDE DEF row
  <2>3. Inserted(transactions, row, transactions')
    BY <2>1, AppendedRow DEF SigningTyped
  <2> QED BY <2>1, <2>2, <2>3 DEF Inserted, SigningTyped
<1>4. ASSUME NEW id \in DOMAIN transactions, NEW signer \in Council, SignTransaction(signer, id)
      PROVE  SigningTyped'
  <2> DEFINE row == [transactions[id] EXCEPT !.signatures = @ \cup {signer}]
  <2>1. transactions' = [transactions EXCEPT ![id] = row] /\ UNCHANGED multi_sig
    BY <1>4 DEF SignTransaction
  <2>2. transactions[id] \in PendingTransaction /\ signer \in Account
    BY GovernanceAssumption DEF SigningTyped
  <2>3. row \in PendingTransaction
    BY <2>2 DEF PendingTransaction
  <2> HIDE DEF row
  <2> QED BY <2>1, <2>3, TransactionWritten
<1>5. ASSUME NEW id \in DOMAIN transactions, ExecuteTransaction(id)
      PROVE  SigningTyped'
  <2> DEFINE row == [transactions[id] EXCEPT !.executed = TRUE]
  <2>1. transactions' = [transactions EXCEPT ![id] = row] /\ UNCHANGED multi_sig
    BY <1>5 DEF ExecuteTransaction
  <2>2. transactions[id] \in PendingTransaction
    BY DEF SigningTyped
  <2>3. row \in PendingTransaction
    BY <2>2 DEF PendingTransaction
  <2> HIDE DEF row
  <2> QED BY <2>1, <2>3, TransactionWritten
<1>6. ASSUME \/ \E p \in DOMAIN parameters, value \in Parameters : UpdateParameter(p, value)
             \/ \E c, a \in Council, granted \in BOOLEAN : SetGovRole(c, a, "Admin", granted)
             \/ \E c \in Council, value \in BOOLEAN : SetGovPaused(c, value)
             \/ AddControlledContract("other")
      PROVE  SigningTyped'
  BY <1>1, <1>6 DEF UpdateParameter, SetGovRole, SetGovPaused, AddControlledContract
<1> QED BY <1>2, <1>3, <1>4, <1>5, <1>6 DEF SigningNext

(* An entry of the history of delegations.                                 *)
LEMMA HistoryKept ==
  ASSUME DelegationTyped, clock \in Nat, NEW a \in Council, NEW b \in Council,
         NEW action \in {"Delegated", "Undelegated", "Redelegated"}, Recorded(a, b, action)
  PROVE  IsSeq(history') /\ \A i \in DOMAIN history' : history'[i] \in DelegationRecord
<1> DEFINE entry == [delegator |-> a, delegate |-> b, timestamp |-> clock, action |-> action]
<1>1. history' = Append(history, entry)
  BY DEF Recorded
<1>2. entry \in DelegationRecord
  BY GovernanceAssumption DEF DelegationRecord
<1> HIDE DEF entry
<1>3. Inserted(history, entry, history')
  BY <1>1, AppendedRow DEF DelegationTyped
<1> QED BY <1>2, <1>3 DEF Inserted, DelegationTyped

(* A list of delegators with one more, and with one less.                  *)
LEMMA DelegatorsWritten ==
  ASSUME NEW map, IsMap(map, Council, ListOf(Council)), NEW d \in Council, NEW a \in Council
  PROVE  /\ IsMap(WithDelegator(map, d, a), Council, ListOf(Council))
         /\ IsMap(WithoutDelegator(map, d, a), Council, ListOf(Council))
<1> DEFINE s == Stored(map, d, << >>)
           t == PushNew(s, a)
           left == Without(s, {a})
<1>1. s \in ListOf(Council)
  BY KeyRead, NobodyListed
<1>2. WithDelegator(map, d, a) = Put(map, d, t)
  BY DEF WithDelegator
<1>3. WithoutDelegator(map, d, a) = IF left = << >> THEN Drop(map, d) ELSE Put(map, d, left)
  BY DEF WithoutDelegator
<1> HIDE DEF s
<1>4. t \in ListOf(Council)
  BY <1>1 DEF PushNew, ListOf
<1>5. left \in ListOf(Council)
  BY <1>1, WithoutKeeps
<1> HIDE DEF t, left
<1> QED BY <1>2, <1>3, <1>4, <1>5, KeyWritten, KeyDropped

(* Delegations, their lists and their history keep their types.            *)
LEMMA DelegationsKept ==
  ASSUME DelegationTyped, clock \in Nat, VotingNext
  PROVE  DelegationTyped'
<1>1. ASSUME UNCHANGED <<balance, delegationVars>> PROVE DelegationTyped'
  BY <1>1 DEF DelegationTyped, delegationVars
<1>2. ASSUME NEW a \in Council, NEW b \in Council, DelegateVotes(a, b) PROVE DelegationTyped'
  <2> DEFINE action == IF a \in DOMAIN delegation THEN "Redelegated" ELSE "Delegated"
             others == IF a \in DOMAIN delegation
                       THEN WithoutDelegator(delegators, delegation[a], a) ELSE delegators
  <2>1. /\ delegators' = WithDelegator(others, b, a)
        /\ Recorded(a, b, action)
        /\ delegation' = Put(delegation, a, b)
        /\ balance' = balance
    BY <1>2 DEF DelegateVotes
  <2>2. action \in {"Delegated", "Undelegated", "Redelegated"}
    OBVIOUS
  <2>3. IsMap(others, Council, ListOf(Council))
    <3>1. a \in DOMAIN delegation => delegation[a] \in Council
      BY DEF DelegationTyped, IsMap
    <3>2. IsMap(delegators, Council, ListOf(Council))
      BY DEF DelegationTyped
    <3> QED BY <3>1, <3>2, DelegatorsWritten
  <2> HIDE DEF action, others
  <2>4. IsSeq(history') /\ \A i \in DOMAIN history' : history'[i] \in DelegationRecord
    BY <2>1, <2>2, HistoryKept
  <2>5. IsMap(delegators', Council, ListOf(Council))
    BY <2>1, <2>3, DelegatorsWritten
  <2>6. IsMap(delegation', Council, Council)
    <3>1. IsMap(delegation, Council, Council)
      BY DEF DelegationTyped
    <3> QED BY <2>1, <3>1, KeyWritten
  <2> QED BY <2>1, <2>4, <2>5, <2>6 DEF DelegationTyped
<1>3. ASSUME NEW a \in Council, UndelegateVotes(a) PROVE DelegationTyped'
  <2>1. /\ delegators' = WithoutDelegator(delegators, delegation[a], a)
        /\ delegation' = Drop(delegation, a)
        /\ Recorded(a, a, "Undelegated")
        /\ balance' = balance /\ delegation[a] \in Council
    BY <1>3 DEF UndelegateVotes, DelegationTyped, IsMap
  <2>2. IsSeq(history') /\ \A i \in DOMAIN history' : history'[i] \in DelegationRecord
    BY <2>1, HistoryKept
  <2>3. IsMap(delegators, Council, ListOf(Council)) /\ IsMap(delegation, Council, Council)
    BY DEF DelegationTyped
  <2>4. IsMap(delegators', Council, ListOf(Council))
    BY <2>1, <2>3, DelegatorsWritten
  <2>5. IsMap(delegation', Council, Council)
    BY <2>1, <2>3, KeyDropped
  <2> QED BY <2>1, <2>2, <2>4, <2>5 DEF DelegationTyped
<1>4. ASSUME NEW b \in TokenBalance, SetTokenBalance(b.account, b.amount) PROVE DelegationTyped'
  <2>1. b.account \in Council /\ b.amount \in Int
    BY GovernanceAssumption
  <2>2. balance' = Put(balance, b.account, b.amount) /\ UNCHANGED delegationVars
    BY <1>4 DEF SetTokenBalance
  <2>3. IsMap(balance, Council, Int)
    BY DEF DelegationTyped
  <2>4. IsMap(balance', Council, Int)
    BY <2>1, <2>2, <2>3, KeyWritten
  <2> QED BY <2>2, <2>4 DEF DelegationTyped, delegationVars
<1>5. ASSUME \/ \E a \in Council : CreateProposal(a)
             \/ \E a \in Council, id \in DOMAIN proposals :
                  \/ \E choice \in {"Yes", "No"} : Vote(a, id, choice)
                  \/ CancelProposal(a, id)
             \/ \E id \in DOMAIN proposals : ExecuteProposal(id)
      PROVE  DelegationTyped'
  BY <1>1, <1>5 DEF CreateProposal, Vote, CancelProposal, ExecuteProposal
<1> QED BY <1>2, <1>3, <1>4, <1>5 DEF VotingNext

(* The power of a voter is an integer, whoever the delegators are.         *)
LEMMA PowerIsInt ==
  ASSUME DelegationTyped, NEW a
  PROVE  VotingPower(a) \in Int
<1> DEFINE from == Stored(delegators, a, << >>)
           f == [i \in DOMAIN from |-> Balance(from[i])]
<1>1. \A x : Balance(x) \in Int
  BY KeyRead DEF Balance, DelegationTyped
<1>2. from \in ListOf(Council)
  BY KeyRead, NobodyListed DEF DelegationTyped
<1>3. VotingPower(a) = IF a \in DOMAIN delegation THEN 0 ELSE Balance(a) + Total(f)
  BY DEF VotingPower
<1>4. IsSeq(from)
  BY <1>2 DEF ListOf, IsSeq
<1>5. IsFiniteSet(DOMAIN f) /\ \A i \in DOMAIN f : f[i] \in Int
  <2> HIDE DEF from
  <2> QED BY <1>1, <1>4, RowsAreFinite
<1> HIDE DEF f
<1>6. Total(f) \in Int
  BY <1>5, TotalIsInt DEF IntMap
<1> QED BY <1>1, <1>3, <1>6

(* A proposal with another row.                                            *)
LEMMA ProposalWritten ==
  ASSUME VotesTyped, UNCHANGED vote_choice, NEW id, NEW row, row \in Proposal,
         proposals' = [proposals EXCEPT ![id] = row]
  PROVE  VotesTyped'
<1>1. Replaced(proposals, id, row, proposals')
  BY UpdatedRow DEF VotesTyped
<1>2. IsSeq(proposals') /\ \A i \in DOMAIN proposals' : proposals'[i] \in Proposal
  BY <1>1 DEF Replaced, VotesTyped
<1>3. DOMAIN proposals' = DOMAIN proposals
  BY <1>1 DEF Replaced
<1> QED BY <1>2, <1>3 DEF VotesTyped

(* Proposals and the votes on them keep their types.                       *)
LEMMA VotesKept ==
  ASSUME VotesTyped, DelegationTyped, clock \in Nat, VotingNext
  PROVE  VotesTyped'
<1>1. ASSUME NEW a \in Council, CreateProposal(a) PROVE VotesTyped'
  <2> DEFINE row == [proposer |-> a, votes |-> [c \in VoteChoice |-> 0], status |-> "Active",
                     expires_at |-> clock + PROPOSAL_DURATION]
  <2>1. proposals' = Append(proposals, row) /\ UNCHANGED vote_choice
    BY <1>1 DEF CreateProposal
  <2>2. row \in Proposal
    BY GovernanceAssumption DEF Proposal, PROPOSAL_DURATION
  <2> HIDE DEF row
  <2>3. Inserted(proposals, row, proposals')
    BY <2>1, AppendedRow DEF VotesTyped
  <2>4. DOMAIN proposals \subseteq DOMAIN proposals'
    BY <2>3 DEF Inserted
  <2>5. IsMap(vote_choice, Account \X (DOMAIN proposals'), VoteChoice)
    BY <2>4 DEF VotesTyped, IsMap
  <2>6. IsSeq(proposals') /\ \A i \in DOMAIN proposals' : proposals'[i] \in Proposal
    BY <2>2, <2>3 DEF Inserted, VotesTyped
  <2> QED BY <2>1, <2>5, <2>6 DEF VotesTyped
<1>2. ASSUME NEW a \in Council, NEW id \in DOMAIN proposals, NEW choice \in {"Yes", "No"},
             Vote(a, id, choice)
      PROVE  VotesTyped'
  <2> DEFINE power == VotingPower(a)
             votes == [proposals[id].votes EXCEPT ![choice] = @ + power]
             row == [proposals[id] EXCEPT !.votes = votes]
  <2>1. /\ proposals' = [proposals EXCEPT ![id] = row]
        /\ vote_choice' = Put(vote_choice, <<a, id>>, choice)
    BY <1>2 DEF Vote
  <2>2. power \in Int
    BY PowerIsInt
  <2>3. proposals[id] \in Proposal /\ proposals[id].votes \in [VoteChoice -> Int]
    BY DEF VotesTyped, Proposal
  <2> HIDE DEF power
  <2>4. votes \in [VoteChoice -> Int]
    BY <2>2, <2>3 DEF VoteChoice
  <2> HIDE DEF votes
  <2>5. row \in Proposal
    BY <2>3, <2>4 DEF Proposal
  <2> HIDE DEF row
  <2>6. Replaced(proposals, id, row, proposals')
    BY <2>1, UpdatedRow DEF VotesTyped
  <2>7. IsSeq(proposals') /\ \A i \in DOMAIN proposals' : proposals'[i] \in Proposal
    BY <2>5, <2>6 DEF Replaced, VotesTyped
  <2>8. DOMAIN proposals' = DOMAIN proposals
    BY <2>6 DEF Replaced
  <2>9. <<a, id>> \in Account \X (DOMAIN proposals) /\ choice \in VoteChoice
    BY GovernanceAssumption DEF VoteChoice
  <2>10. IsMap(vote_choice, Account \X (DOMAIN proposals), VoteChoice)
    BY DEF VotesTyped
  <2>11. IsMap(vote_choice', Account \X (DOMAIN proposals), VoteChoice)
    BY <2>1, <2>9, <2>10, KeyWritten
  <2> QED BY <2>7, <2>8, <2>11 DEF VotesTyped
<1>3. ASSUME NEW a \in Council, NEW id \in DOMAIN proposals, CancelProposal(a, id)
      PROVE  VotesTyped'
  <2> DEFINE row == [proposals[id] EXCEPT !.status = "Cancelled"]
  <2>1. proposals' = [proposals EXCEPT ![id] = row] /\ UNCHANGED vote_choice
    BY <1>3 DEF CancelProposal
  <2>2. proposals[id] \in Proposal
    BY DEF VotesTyped
  <2>3. row \in Proposal
    BY <2>2 DEF Proposal
  <2> HIDE DEF row
  <2> QED BY <2>1, <2>3, ProposalWritten
<1>4. ASSUME NEW id \in DOMAIN proposals, ExecuteProposal(id) PROVE VotesTyped'
  <2> DEFINE row == [proposals[id] EXCEPT !.status = "Executed"]
  <2>1. proposals' = [proposals EXCEPT ![id] = row] /\ UNCHANGED vote_choice
    BY <1>4 DEF ExecuteProposal
  <2>2. proposals[id] \in Proposal
    BY DEF VotesTyped
  <2>3. row \in Proposal
    BY <2>2 DEF Proposal
  <2> HIDE DEF row
  <2> QED BY <2>1, <2>3, ProposalWritten
<1>5. ASSUME \/ \E a, b \in Council : DelegateVotes(a, b)
             \/ \E a \in Council : UndelegateVotes(a)
             \/ \E b \in TokenBalance : SetTokenBalance(b.account, b.amount)
      PROVE  VotesTyped'
  BY <1>5 DEF DelegateVotes, UndelegateVotes, SetTokenBalance, proposalVars, VotesTyped
<1> QED BY <1>1, <1>2, <1>3, <1>4, <1>5 DEF VotingNext

(* Roles, parameters, signers and what they sign, balances, delegations    *)
(* and votes have their types in every reachable state.                    *)
THEOREM GovernanceTypes == GovernanceSpec => []GovernanceTypeOK
<1> DEFINE All == clock \in Nat /\ BoardTyped /\ SigningTyped /\ DelegationTyped /\ VotesTyped
<1>1. GovernanceInit /\ clock = 1 => All
  <2> SUFFICES ASSUME GovernanceInit, clock = 1 PROVE All
    OBVIOUS
  <2>1. BoardTyped
    <3>1. Chair \in Account /\ "Admin" \in Role
      BY GovernanceAssumption DEF Role
    <3>2. <<Chair, "Admin">> \in Account \X Role
      BY <3>1
    <3> QED BY <3>2 DEF GovernanceInit, BoardTyped
  <2>2. SigningTyped
    <3>1. << Chair >> \in Seq(Account)
      BY GovernanceAssumption
    <3> QED BY <3>1, EmptyIsSeq DEF GovernanceInit, SigningTyped
  <2>3. DelegationTyped
    BY NoKeys, EmptyIsSeq, GovernanceAssumption DEF GovernanceInit, DelegationTyped, IsMap, EmptyMap
  <2>4. VotesTyped
    BY NoKeys, EmptyIsSeq DEF GovernanceInit, VotesTyped
  <2> QED BY <2>1, <2>2, <2>3, <2>4
<1>2. All /\ [GovernanceNext]_<<clock, governanceVars>> => All'
  <2> SUFFICES ASSUME All, [GovernanceNext]_<<clock, governanceVars>> PROVE All'
    OBVIOUS
  <2>1. clock' \in Nat
    BY ClockAssumption DEF GovernanceNext, Tick
  <2>2. ASSUME UNCHANGED governanceVars
        PROVE  BoardTyped' /\ SigningTyped' /\ DelegationTyped' /\ VotesTyped'
    BY <2>2 DEF governanceVars, adminVars, signingVars, delegationVars, proposalVars,
                BoardTyped, SigningTyped, DelegationTyped, VotesTyped
  <2>3. ASSUME SigningNext
        PROVE  BoardTyped' /\ SigningTyped' /\ DelegationTyped' /\ VotesTyped'
    <3>1. UNCHANGED <<balance, delegationVars, proposalVars>>
      BY <2>3 DEF SigningNext, UpdateMultiSigConfig, ProposeTransaction, SignTransaction,
        ExecuteTransaction, UpdateParameter, SetGovRole, SetGovPaused, AddControlledContract
    <3>2. DelegationTyped' /\ VotesTyped'
      BY <3>1 DEF delegationVars, proposalVars, DelegationTyped, VotesTyped
    <3> QED BY <2>3, <3>2, BoardKept, SigningKept
  <2>4. ASSUME VotingNext
        PROVE  BoardTyped' /\ SigningTyped' /\ DelegationTyped' /\ VotesTyped'
    <3>1. UNCHANGED <<adminVars, signingVars>>
      BY <2>4 DEF VotingNext, DelegateVotes, UndelegateVotes, CreateProposal, Vote,
        CancelProposal, ExecuteProposal, SetTokenBalance
    <3>2. BoardTyped' /\ SigningTyped'
      BY <3>1 DEF adminVars, signingVars, BoardTyped, SigningTyped
    <3> QED BY <2>4, <3>2, DelegationsKept, VotesKept
  <2> QED BY <2>1, <2>2, <2>3, <2>4 DEF GovernanceNext, governanceVars
<1>3. All => GovernanceTypeOK
  <2> SUFFICES ASSUME All PROVE GovernanceTypeOK
    OBVIOUS
  <2>1. transactions \in Seq(PendingTransaction)
    BY SeqOfRows DEF SigningTyped
  <2>2. history \in Seq(DelegationRecord)
    BY SeqOfRows DEF DelegationTyped
  <2>3. proposals \in Seq(Proposal)
    BY SeqOfRows DEF VotesTyped
  <2>4. Council \subseteq Account /\ ListOf(Council) \subseteq Seq(Account)
    BY GovernanceAssumption DEF ListOf
  <2>5. /\ IsMap(balance, Account, Int)
        /\ IsMap(delegation, Account, Account)
        /\ IsMap(delegators, Account, Seq(Account))
    BY <2>4 DEF DelegationTyped, IsMap
  <2> QED BY <2>1, <2>2, <2>3, <2>5 DEF GovernanceTypeOK, BoardTyped, SigningTyped, VotesTyped
<1> QED BY <1>1, <1>2, <1>3, PTL DEF GovernanceSpec

-----------------------------------------------------------------------------
(* Wills: the types.                                                       *)

WillRow == [version : Nat \ {0}, status : {"draft", "finalized"}]

ChallengeRow == [document : DOMAIN will_documents, expires_at : Nat, used : BOOLEAN]

WitnessRow ==
  [document : DOMAIN will_documents, status : {"pending", "signed", "declined"}, signed : BOOLEAN]

DocumentsTyped == TableOf(will_documents, WillRow)

ChallengesTyped == TableOf(challenges, ChallengeRow)

WitnessesTyped == TableOf(witnesses, WitnessRow)

ContingentsTyped ==
  /\ TableOf(contingents, {"contingent", "primary", "removed"})
  /\ TableOf(promotions, Nat) /\ Len(promotions) = Len(contingents)

(* What a handler will write as the version of a document.                 *)
NextVersions == \A w \in Worker : At(w, "generate") => requests[w].version \in Nat \ {0}

WillTyped ==
  /\ clock \in Nat
  /\ DocumentsTyped /\ ChallengesTyped /\ WitnessesTyped /\ ContingentsTyped
  /\ NextVersions

(* The next version is a number, whatever documents there are.             *)
LEMMA NewestIsNat ==
  ASSUME DocumentsTyped
  PROVE  Newest(Versions \cup {0}) \in Nat
<1> DEFINE f == [d \in DOMAIN will_documents |-> will_documents[d].version]
           T == Versions \cup {0}
           n == Len(will_documents)
<1>1. DOMAIN will_documents = 1..n /\ n \in Nat
  BY DEF DocumentsTyped, TableOf, IsSeq
<1>2. \A d \in 1..n : f[d] \in Nat
  BY <1>1 DEF DocumentsTyped, TableOf, WillRow
<1>3. 0 \in T /\ \A k \in T : k = 0 \/ \E d \in 1..n : k = f[d]
  BY <1>1 DEF Versions
<1> HIDE DEF f, T, n
<1>4. T \subseteq Nat
  BY <1>2, <1>3
<1>5. \E m \in T : \A k \in T : k <= m
  BY <1>1, <1>2, <1>3, GreatestNat
<1>6. Newest(T) \in T
  BY <1>5 DEF Newest
<1> QED BY <1>4, <1>6 DEF T

(* A handler that does not choose a version.                               *)
LEMMA VersionsLeft ==
  ASSUME NextVersions, NoneReaches("generate")
  PROVE  NextVersions'
<1>1. \A w \in Worker : At(w, "generate")' => At(w, "generate") /\ requests'[w] = requests[w]
  BY DEF NoneReaches, At
<1> QED BY <1>1 DEF NextVersions

(* With more documents or as many, challenges and witnesses are of some of *)
(* them.                                                                   *)
LEMMA MoreDocuments ==
  ASSUME ChallengesTyped, WitnessesTyped, UNCHANGED <<challenges, witnesses>>,
         DOMAIN will_documents \subseteq DOMAIN will_documents'
  PROVE  ChallengesTyped' /\ WitnessesTyped'
<1>1. ChallengeRow \subseteq ChallengeRow'
  BY DEF ChallengeRow
<1>2. WitnessRow \subseteq WitnessRow'
  BY DEF WitnessRow
<1> QED BY <1>1, <1>2 DEF ChallengesTyped, WitnessesTyped, TableOf

(* What the steps do to the documents.                                     *)
LEMMA DocumentsKept ==
  ASSUME WillTyped, Workers, NEW w \in Worker, GenerateInsert(w) \/ FinalizeWrite(w)
  PROVE  DocumentsTyped' /\ ChallengesTyped' /\ WitnessesTyped'
<1>1. CASE GenerateInsert(w)
  <2> DEFINE row == [version |-> requests[w].version, status |-> "draft"]
  <2>1. will_documents' = Append(will_documents, row) /\ UNCHANGED <<challenges, witnesses>>
    BY <1>1 DEF GenerateInsert
  <2>2. row \in WillRow
    BY <1>1 DEF GenerateInsert, WillTyped, NextVersions, WillRow
  <2> HIDE DEF row
  <2>3. DocumentsTyped' /\ DOMAIN will_documents \subseteq DOMAIN will_documents'
    <3>1. TableOf(will_documents, WillRow)
      BY DEF WillTyped, DocumentsTyped
    <3>2. TableOf(will_documents', WillRow) /\ DOMAIN will_documents \subseteq DOMAIN will_documents'
      BY <2>1, <2>2, <3>1, TableInserted
    <3> QED BY <3>2 DEF DocumentsTyped, WillRow
  <2> QED BY <2>1, <2>3, MoreDocuments DEF WillTyped
<1>2. CASE FinalizeWrite(w)
  <2>1. UNCHANGED <<challenges, witnesses>>
    BY <1>2 DEF FinalizeWrite
  <2>2. will_documents' = [d \in DOMAIN will_documents |-> will_documents'[d]]
    BY <1>2 DEF FinalizeWrite
  <2>3. ASSUME NEW d \in DOMAIN will_documents PROVE will_documents'[d] \in WillRow
    <3>1. will_documents[d] \in WillRow
      BY DEF WillTyped, DocumentsTyped, TableOf
    <3>2. will_documents'[d] \in {will_documents[d], [will_documents[d] EXCEPT !.status = "finalized"]}
      BY <1>2 DEF FinalizeWrite
    <3> QED BY <3>1, <3>2 DEF WillRow
  <2>4. TableOf(will_documents, WillRow)
    BY DEF WillTyped, DocumentsTyped
  <2>5. TableOf(will_documents', WillRow) /\ DOMAIN will_documents' = DOMAIN will_documents
    BY <2>2, <2>3, <2>4, TableRewritten
  <2>6. DocumentsTyped'
    BY <2>5 DEF DocumentsTyped, WillRow
  <2> QED BY <2>1, <2>5, <2>6, MoreDocuments DEF WillTyped
<1> QED BY <1>1, <1>2

(* What they do to the challenges.                                         *)
LEMMA ChallengesKept ==
  ASSUME WillTyped, UNCHANGED will_documents,
         \/ \E d \in DOMAIN will_documents : create_challenge(d)
         \/ \E w \in Worker : VerifyStore(w)
  PROVE  ChallengesTyped'
<1>1. TableOf(challenges, ChallengeRow) /\ ChallengeRow' = ChallengeRow
  BY DEF WillTyped, ChallengesTyped, ChallengeRow
<1>2. ASSUME NEW d \in DOMAIN will_documents, create_challenge(d) PROVE ChallengesTyped'
  <2> DEFINE row == [document |-> d, expires_at |-> clock, used |-> FALSE]
  <2>1. challenges' = Append(challenges, row)
    BY <1>2 DEF create_challenge
  <2>2. row \in ChallengeRow
    BY DEF WillTyped, ChallengeRow
  <2> HIDE DEF row
  <2>3. TableOf(challenges', ChallengeRow)
    BY <1>1, <2>1, <2>2, TableInserted
  <2> QED BY <1>1, <2>3 DEF ChallengesTyped
<1>3. ASSUME NEW w \in Worker, VerifyStore(w) PROVE ChallengesTyped'
  <2> DEFINE c == requests[w].challenge
             row == [challenges[c] EXCEPT !.used = TRUE]
  <2>1. challenges' = [challenges EXCEPT ![c] = row]
    BY <1>3 DEF VerifyStore
  <2> HIDE DEF c
  <2>2. c \in DOMAIN challenges => challenges[c] \in ChallengeRow
    BY <1>1 DEF TableOf
  <2>3. c \in DOMAIN challenges => row \in ChallengeRow
    BY <2>2 DEF ChallengeRow
  <2> HIDE DEF row
  <2>4. TableOf(challenges', ChallengeRow)
    BY <1>1, <2>1, <2>3, TableUpdated
  <2> QED BY <1>1, <2>4 DEF ChallengesTyped
<1> QED BY <1>2, <1>3

(* What they do to the witnesses.                                          *)
LEMMA WitnessesKept ==
  ASSUME WillTyped, UNCHANGED will_documents,
         \/ \E d \in DOMAIN will_documents : invite_witness(d)
         \/ \E i \in DOMAIN witnesses : sign_as_witness(i)
         \/ \E w \in Worker : DeclineWrite(w)
  PROVE  WitnessesTyped'
<1>1. TableOf(witnesses, WitnessRow) /\ WitnessRow' = WitnessRow
  BY DEF WillTyped, WitnessesTyped, WitnessRow
<1>2. ASSUME NEW d \in DOMAIN will_documents, invite_witness(d) PROVE WitnessesTyped'
  <2> DEFINE row == [document |-> d, status |-> "pending", signed |-> FALSE]
  <2>1. witnesses' = Append(witnesses, row)
    BY <1>2 DEF invite_witness
  <2>2. row \in WitnessRow
    BY DEF WitnessRow
  <2> HIDE DEF row
  <2>3. TableOf(witnesses', WitnessRow)
    BY <1>1, <2>1, <2>2, TableInserted
  <2> QED BY <1>1, <2>3 DEF WitnessesTyped
<1>3. ASSUME NEW i, NEW row, witnesses' = [witnesses EXCEPT ![i] = row],
             i \in DOMAIN witnesses => row \in WitnessRow
      PROVE  WitnessesTyped'
  <2>1. TableOf(witnesses', WitnessRow)
    BY <1>1, <1>3, TableUpdated
  <2> QED BY <1>1, <2>1 DEF WitnessesTyped
<1>4. ASSUME NEW i \in DOMAIN witnesses, sign_as_witness(i) PROVE WitnessesTyped'
  <2> DEFINE row == [[witnesses[i] EXCEPT !.status = "signed"] EXCEPT !.signed = TRUE]
  <2>1. witnesses' = [witnesses EXCEPT ![i] = row]
    BY <1>4 DEF sign_as_witness
  <2>2. witnesses[i] \in WitnessRow
    BY <1>1 DEF TableOf
  <2>3. row \in WitnessRow
    BY <2>2 DEF WitnessRow
  <2> HIDE DEF row
  <2> QED BY <1>3, <2>1, <2>3
<1>5. ASSUME NEW w \in Worker, DeclineWrite(w) PROVE WitnessesTyped'
  <2> DEFINE i == requests[w].witness
             row == [witnesses[i] EXCEPT !.status = "declined"]
  <2>1. witnesses' = [witnesses EXCEPT ![i] = row]
    BY <1>5 DEF DeclineWrite
  <2> HIDE DEF i
  <2>2. i \in DOMAIN witnesses => witnesses[i] \in WitnessRow
    BY <1>1 DEF TableOf
  <2>3. i \in DOMAIN witnesses => row \in WitnessRow
    BY <2>2 DEF WitnessRow
  <2> HIDE DEF row
  <2> QED BY <1>3, <2>1, <2>3
<1> QED BY <1>2, <1>4, <1>5

(* What they do to the contingent beneficiaries.                           *)
LEMMA ContingentsKept ==
  ASSUME ContingentsTyped,
         \/ add_contingent_beneficiary
         \/ \E w \in Worker : RemoveDelete(w) \/ PromoteWrite(w)
  PROVE  ContingentsTyped'
<1> DEFINE Kind == {"contingent", "primary", "removed"}
<1>1. TableOf(contingents, Kind) /\ TableOf(promotions, Nat) /\ Len(promotions) = Len(contingents)
  BY DEF ContingentsTyped
<1>2. ASSUME add_contingent_beneficiary PROVE ContingentsTyped'
  <2>1. contingents' = Append(contingents, "contingent") /\ promotions' = Append(promotions, 0)
    BY <1>2 DEF add_contingent_beneficiary
  <2>2. TableOf(contingents', Kind)
    <3>1. "contingent" \in Kind
      OBVIOUS
    <3> HIDE DEF Kind
    <3> QED BY <1>1, <2>1, <3>1, TableInserted
  <2>3. TableOf(promotions', Nat)
    BY <1>1, <2>1, TableInserted
  <2>4. Inserted(contingents, "contingent", contingents') /\ Inserted(promotions, 0, promotions')
    BY <1>1, <2>1, AppendedRow DEF TableOf
  <2>5. Len(promotions') = Len(contingents')
    BY <1>1, <2>4 DEF Inserted
  <2> QED BY <2>2, <2>3, <2>5 DEF ContingentsTyped
<1>3. ASSUME NEW b, NEW kind \in Kind, NEW count, b \in DOMAIN promotions => count \in Nat,
             contingents' = [contingents EXCEPT ![b] = kind],
             promotions' = [promotions EXCEPT ![b] = count]
      PROVE  ContingentsTyped'
  <2>1. TableOf(contingents', Kind)
    <3> HIDE DEF Kind
    <3> QED BY <1>1, <1>3, TableUpdated
  <2>2. TableOf(promotions', Nat)
    BY <1>1, <1>3, TableUpdated
  <2>3. Len(promotions') = Len(promotions) /\ Len(contingents') = Len(contingents)
    BY <1>1, <1>3, UpdatedRow DEF TableOf, Replaced
  <2> QED BY <1>1, <2>1, <2>2, <2>3 DEF ContingentsTyped
<1>4. ASSUME NEW w \in Worker, RemoveDelete(w) PROVE ContingentsTyped'
  <2>1. /\ contingents' = [contingents EXCEPT ![requests[w].row] = "removed"]
        /\ promotions' = [promotions EXCEPT ![requests[w].row] = 0]
    BY <1>4 DEF RemoveDelete
  <2> QED BY <1>3, <2>1
<1>5. ASSUME NEW w \in Worker, PromoteWrite(w) PROVE ContingentsTyped'
  <2> DEFINE b == requests[w].row
             count == promotions[b] + 1
  <2>1. contingents' = [contingents EXCEPT ![b] = "primary"] /\ promotions' = [promotions EXCEPT ![b] = count]
    BY <1>5 DEF PromoteWrite
  <2> HIDE DEF b
  <2>2. b \in DOMAIN promotions => count \in Nat
    BY <1>1 DEF TableOf
  <2> HIDE DEF count
  <2> QED BY <1>3, <2>1, <2>2
<1> QED BY <1>2, <1>4, <1>5

(* What the steps do to what handlers know of versions.                    *)
LEMMA VersionsKept ==
  ASSUME WillTyped, Workers,
         [(WillServiceNext /\ UNCHANGED clock) \/
          ((\E d \in Steps : Tick(d)) /\ UNCHANGED willServiceVars)]_<<clock, willServiceVars>>
  PROVE  NextVersions'
<1>1. ASSUME NEW w \in Worker, NEW r, requests' = [requests EXCEPT ![w] = r],
             r = Absent \/ r.stage # "generate"
      PROVE  NextVersions'
  BY <1>1, OtherStage, VersionsLeft DEF WillTyped
<1>2. ASSUME UNCHANGED requests PROVE NextVersions'
  BY <1>2, NoHandler, VersionsLeft DEF WillTyped
<1>3. ASSUME NEW w \in Worker, GenerateRead(w) PROVE NextVersions'
  <2> DEFINE r == [stage |-> "generate", version |-> Newest(Versions \cup {0}) + 1]
  <2>1. requests' = [requests EXCEPT ![w] = r]
    BY <1>3 DEF GenerateRead, Begin
  <2>2. r.version \in Nat \ {0}
    BY NewestIsNat DEF WillTyped
  <2> HIDE DEF r
  <2>3. \A v \in Worker : requests'[v] = IF v = w THEN r ELSE requests[v]
    BY <2>1 DEF Workers
  <2>4. \A v \in Worker : v # w /\ At(v, "generate")' => At(v, "generate")
    BY <2>3 DEF At
  <2> QED BY <2>2, <2>3, <2>4 DEF WillTyped, NextVersions
<1>4. ASSUME DocumentNext PROVE NextVersions'
  <2>1. ASSUME NEW w \in Worker,
               \/ GenerateInsert(w) \/ FinalizeWrite(w) \/ VerifyStore(w)
               \/ \E d \in DOMAIN will_documents : FinalizeCheck(w, d)
               \/ \E c \in DOMAIN challenges : VerifyLock(w, c)
        PROVE  NextVersions'
    BY <1>1, <2>1
    DEF GenerateInsert, FinalizeWrite, VerifyStore, FinalizeCheck, VerifyLock, Begin, Finish, Continue
  <2>2. ASSUME NEW d \in DOMAIN will_documents, create_challenge(d) PROVE NextVersions'
    BY <1>2, <2>2 DEF create_challenge
  <2> QED BY <1>3, <1>4, <2>1, <2>2 DEF DocumentNext
<1>5. ASSUME PeopleNext PROVE NextVersions'
  <2>1. ASSUME NEW w \in Worker,
               \/ \E i \in DOMAIN witnesses : DeclineCheck(w, i)
               \/ \E b \in DOMAIN contingents : RemoveCheck(w, b) \/ PromoteCheck(w, b)
               \/ DeclineWrite(w) \/ RemoveDelete(w) \/ PromoteWrite(w)
        PROVE  NextVersions'
    BY <1>1, <2>1
    DEF DeclineCheck, RemoveCheck, PromoteCheck, DeclineWrite, RemoveDelete, PromoteWrite,
        Begin, Finish, Continue
  <2>2. ASSUME \/ \E d \in DOMAIN will_documents : invite_witness(d)
               \/ \E i \in DOMAIN witnesses : sign_as_witness(i)
               \/ add_contingent_beneficiary
        PROVE  NextVersions'
    BY <1>2, <2>2 DEF invite_witness, sign_as_witness, add_contingent_beneficiary
  <2> QED BY <1>5, <2>1, <2>2 DEF PeopleNext
<1>6. ASSUME NEW w \in Worker, RollBack(w) PROVE NextVersions'
  BY <1>1, <1>6 DEF RollBack, Finish, Continue
<1>7. UNCHANGED willServiceVars => NextVersions'
  BY <1>2 DEF willServiceVars
<1> QED BY <1>4, <1>5, <1>6, <1>7 DEF WillServiceNext

(* What they do to the rows.                                               *)
LEMMA WillRowsKept ==
  ASSUME WillTyped, Workers,
         [(WillServiceNext /\ UNCHANGED clock) \/
          ((\E d \in Steps : Tick(d)) /\ UNCHANGED willServiceVars)]_<<clock, willServiceVars>>
  PROVE  clock' \in Nat /\ DocumentsTyped' /\ ChallengesTyped' /\ WitnessesTyped' /\ ContingentsTyped'
<1> DEFINE WillKept == DocumentsTyped' /\ ChallengesTyped' /\ WitnessesTyped' /\ ContingentsTyped'
<1>1. clock' \in Nat
  BY ClockAssumption DEF WillTyped, Tick
<1>2. UNCHANGED will_documents => DocumentsTyped'
  BY DEF WillTyped, DocumentsTyped, WillRow
<1>3. UNCHANGED <<will_documents, challenges>> => ChallengesTyped'
  BY DEF WillTyped, ChallengesTyped, ChallengeRow
<1>4. UNCHANGED <<will_documents, witnesses>> => WitnessesTyped'
  BY DEF WillTyped, WitnessesTyped, WitnessRow
<1>5. UNCHANGED contingentRows => ContingentsTyped'
  BY DEF WillTyped, ContingentsTyped, contingentRows
<1>6. UNCHANGED <<willRows, contingentRows>> => WillKept
  BY <1>2, <1>3, <1>4, <1>5 DEF willRows
<1>7. ASSUME NEW w \in Worker, GenerateInsert(w) \/ FinalizeWrite(w) PROVE WillKept
  <2>1. UNCHANGED contingentRows
    BY <1>7 DEF GenerateInsert, FinalizeWrite
  <2> QED BY <1>5, <1>7, <2>1, DocumentsKept
<1>8. ASSUME \/ \E d \in DOMAIN will_documents : create_challenge(d)
             \/ \E w \in Worker : VerifyStore(w)
      PROVE  WillKept
  <2>1. UNCHANGED <<will_documents, witnesses, contingentRows>>
    BY <1>8 DEF create_challenge, VerifyStore
  <2> QED BY <1>2, <1>4, <1>5, <1>8, <2>1, ChallengesKept
<1>9. ASSUME \/ \E d \in DOMAIN will_documents : invite_witness(d)
             \/ \E i \in DOMAIN witnesses : sign_as_witness(i)
             \/ \E w \in Worker : DeclineWrite(w)
      PROVE  WillKept
  <2>1. UNCHANGED <<will_documents, challenges, contingentRows>>
    BY <1>9 DEF invite_witness, sign_as_witness, DeclineWrite
  <2> QED BY <1>2, <1>3, <1>5, <1>9, <2>1, WitnessesKept
<1>10. ASSUME \/ add_contingent_beneficiary
              \/ \E w \in Worker : RemoveDelete(w) \/ PromoteWrite(w)
       PROVE  WillKept
  <2>1. UNCHANGED willRows
    BY <1>10 DEF add_contingent_beneficiary, RemoveDelete, PromoteWrite
  <2>2. ContingentsTyped'
    BY <1>10, ContingentsKept DEF WillTyped
  <2> QED BY <1>2, <1>3, <1>4, <2>1, <2>2 DEF willRows
<1>11. ASSUME NEW w \in Worker,
              \/ GenerateRead(w)
              \/ \E d \in DOMAIN will_documents : FinalizeCheck(w, d)
              \/ \E c \in DOMAIN challenges : VerifyLock(w, c)
              \/ \E i \in DOMAIN witnesses : DeclineCheck(w, i)
              \/ \E b \in DOMAIN contingents : RemoveCheck(w, b) \/ PromoteCheck(w, b)
       PROVE  WillKept
  <2>1. UNCHANGED <<willRows, contingentRows>>
    BY <1>11 DEF GenerateRead, FinalizeCheck, VerifyLock, DeclineCheck, RemoveCheck, PromoteCheck
  <2> QED BY <1>6, <2>1
<1>12. UNCHANGED willServiceVars => WillKept
  BY <1>6 DEF willServiceVars
<1> HIDE DEF WillKept
<1>13. DocumentNext => WillKept
  BY <1>7, <1>8, <1>11 DEF DocumentNext
<1>14. PeopleNext => WillKept
  BY <1>9, <1>10, <1>11 DEF PeopleNext
<1>15. WillKept
  BY <1>6, <1>12, <1>13, <1>14 DEF WillServiceNext
<1> QED BY <1>1, <1>15 DEF WillKept

(* Documents, challenges and their signatures, witnesses and contingent    *)
(* beneficiaries have their types, and what refers to a document or a      *)
(* challenge finds it.                                                     *)
THEOREM WillServiceTypes == WillServiceSpec => []WillServiceTypeOK
<1> DEFINE Inv == ChallengeInv /\ WillTyped
<1>1. RequestsInit /\ WillServiceInit /\ clock = 1 => Inv
  <2> SUFFICES ASSUME RequestsInit, WillServiceInit, clock = 1 PROVE Inv
    OBVIOUS
  <2>1. ChallengeInv
    BY EmptyIsSeq
    DEF RequestsInit, WillServiceInit, ChallengeInv, Workers, ChallengeTyped, At, ChallengeUsedOnce
  <2>2. \A S : TableOf(<<>>, S)
    BY EmptyIsSeq DEF TableOf
  <2>3. WillTyped
    BY <2>2 DEF RequestsInit, WillServiceInit, WillTyped, DocumentsTyped, ChallengesTyped,
                WitnessesTyped, ContingentsTyped, NextVersions, At
  <2> QED BY <2>1, <2>3
<1>2. Inv /\
      [(WillServiceNext /\ UNCHANGED clock) \/
       ((\E d \in Steps : Tick(d)) /\ UNCHANGED willServiceVars)]_<<clock, willServiceVars>>
      => Inv'
  <2> SUFFICES ASSUME Inv,
                      [(WillServiceNext /\ UNCHANGED clock) \/
                       ((\E d \in Steps : Tick(d)) /\ UNCHANGED willServiceVars)]_<<clock, willServiceVars>>
               PROVE  Inv'
    OBVIOUS
  <2>1. Workers
    BY DEF ChallengeInv
  <2>2. ChallengeInv'
    BY <2>1, StepsOfChallenges, ChallengeInvKept
  <2>3. NextVersions'
    BY <2>1, VersionsKept
  <2>4. clock' \in Nat /\ DocumentsTyped' /\ ChallengesTyped' /\ WitnessesTyped' /\ ContingentsTyped'
    BY <2>1, WillRowsKept
  <2> QED BY <2>2, <2>3, <2>4 DEF WillTyped
<1>3. Inv => WillServiceTypeOK
  <2> SUFFICES ASSUME Inv PROVE WillServiceTypeOK
    OBVIOUS
  <2>1. will_documents \in Seq([version : Nat \ {0}, status : {"draft", "finalized"}])
    BY TableIsSeq DEF WillTyped, DocumentsTyped, WillRow
  <2>2. challenges \in Seq([document : DOMAIN will_documents, expires_at : Nat, used : BOOLEAN])
    BY TableIsSeq DEF WillTyped, ChallengesTyped, ChallengeRow
  <2>3. witnesses \in Seq([document : DOMAIN will_documents,
                           status : {"pending", "signed", "declined"}, signed : BOOLEAN])
    BY TableIsSeq DEF WillTyped, WitnessesTyped, WitnessRow
  <2>4. /\ contingents \in Seq({"contingent", "primary", "removed"})
        /\ promotions \in Seq(Nat) /\ Len(promotions) = Len(contingents)
    BY TableIsSeq DEF WillTyped, ContingentsTyped
  <2>5. will_signatures \in Seq(DOMAIN challenges)
    <3>1. TableOf(will_signatures, DOMAIN challenges)
      BY DEF ChallengeInv, ChallengeTyped, TableOf
    <3> QED BY <3>1, TableIsSeq
  <2> QED BY <2>1, <2>2, <2>3, <2>4, <2>5 DEF WillServiceTypeOK
<1> QED BY <1>1, <1>2, <1>3, PTL DEF WillServiceSpec

-----------------------------------------------------------------------------
(* Emergency access: the types.                                            *)

AdminAccessRow == [status : {"active", "expired", "revoked"}, expires_at : Nat \cup {Absent}]

AlertsTyped == risk_alerts \in ListOf(AlertRow)

(* What a handler will revoke.                                             *)
Revocations == \A w \in Worker : At(w, "revoke") => requests[w].grant \in Nat

AdminAccessTyped == TableOf(admin_access, AdminAccessRow) /\ TableOf(expiry_notices, Nat)

(* The alerts of a new grant, and of its revocation, are alerts.           *)
LEMMA AlertsAdded ==
  ASSUME AlertsTyped, grants \in Seq(GrantRow), NEW days, NEW privileged
  PROVE  risk_alerts \o GrantAlerts(days, privileged) \in ListOf(AlertRow)
<1> DEFINE high == [grant |-> Len(grants) + 1, type |-> "high_frequency_grants"]
           long == [grant |-> Len(grants) + 1, type |-> "high_privilege_long_lived_access"]
           recent == {g \in DOMAIN grants : grants[g].created_at = clock}
           s == IF Cardinality(recent) >= 3 THEN << high >> ELSE <<>>
           t == IF privileged /\ days >= 7 THEN << long >> ELSE <<>>
<1>1. high \in AlertRow /\ long \in AlertRow
  <2>1. Len(grants) + 1 \in Nat
    OBVIOUS
  <2> QED BY <2>1 DEF AlertRow
<1>2. GrantAlerts(days, privileged) = s \o t
  BY DEF GrantAlerts
<1> HIDE DEF high, long, recent
<1>3. s \in Seq(AlertRow) /\ t \in Seq(AlertRow)
  BY <1>1
<1> HIDE DEF s, t
<1>4. s \o t \in Seq(AlertRow)
  BY <1>3
<1>5. risk_alerts \in Seq(AlertRow)
  BY DEF AlertsTyped, ListOf
<1> QED BY <1>2, <1>4, <1>5 DEF ListOf

(* What the steps do to the alerts.                                        *)
LEMMA AlertsKept ==
  ASSUME AccessInv, AlertsTyped, Revocations,
         [(AccessServiceNext /\ UNCHANGED clock) \/
          ((\E d \in Steps : Tick(d)) /\ UNCHANGED accessServiceVars)]_<<clock, accessServiceVars>>
  PROVE  AlertsTyped'
<1>1. UNCHANGED risk_alerts => AlertsTyped'
  BY DEF AlertsTyped
<1>2. ASSUME NEW c, delete_contact(c) PROVE AlertsTyped'
  <2> DEFINE gone == {risk_alerts[a] : a \in {b \in DOMAIN risk_alerts :
                                                 grants[risk_alerts[b].grant].contact = c}}
  <2>1. risk_alerts' = Without(risk_alerts, gone)
    BY <1>2 DEF delete_contact
  <2> HIDE DEF gone
  <2> QED BY <2>1, WithoutKeeps DEF AlertsTyped
<1>3. ASSUME NEW c, NEW days, NEW privileged, grant_access(c, days, privileged) PROVE AlertsTyped'
  <2>1. risk_alerts' = risk_alerts \o GrantAlerts(days, privileged)
    BY <1>3 DEF grant_access
  <2> QED BY <2>1, AlertsAdded DEF AlertsTyped, AccessInv, AccessTyped
<1>4. ASSUME NEW w \in Worker, RevokeCommit(w) PROVE AlertsTyped'
  <2> DEFINE g == requests[w].grant
             alert == [grant |-> g, type |-> "rapid_grant_revoke"]
  <2>1. /\ At(w, "revoke")
        /\ risk_alerts' = IF grants[g].created_at = clock THEN Append(risk_alerts, alert) ELSE risk_alerts
    BY <1>4 DEF RevokeCommit
  <2>2. alert \in AlertRow
    <3>1. g \in Nat
      BY <2>1 DEF Revocations
    <3> QED BY <3>1 DEF AlertRow
  <2> HIDE DEF alert
  <2> QED BY <2>1, <2>2 DEF AlertsTyped, ListOf
<1>5. ASSUME \/ create_contact
             \/ \E w \in Worker :
                  \/ \E g \in DOMAIN grants : RevokeCheck(w, g) \/ StartSessionCheck(w, g)
                  \/ StartSessionInsert(w)
             \/ \E s \in DOMAIN access_sessions : end_session(s)
      PROVE  AlertsTyped'
  BY <1>1, <1>5 DEF create_contact, RevokeCheck, StartSessionCheck, StartSessionInsert, end_session, grantRows
<1>6. GrantNext => AlertsTyped'
  BY <1>2, <1>3, <1>4, <1>5 DEF GrantNext
<1>7. AdminAccessNext => AlertsTyped'
  BY <1>1 DEF AdminAccessNext, admin_grant_access, AdminRevokeCheck, AdminRevokeWrite, mark_expired_access,
              check_expiring_access, grantRows
<1> QED BY <1>1, <1>6, <1>7 DEF AccessServiceNext, accessServiceVars, grantRows

(* What they do to the revocations under way.                              *)
LEMMA RevocationsKept ==
  ASSUME AccessInv, Revocations,
         [(AccessServiceNext /\ UNCHANGED clock) \/
          ((\E d \in Steps : Tick(d)) /\ UNCHANGED accessServiceVars)]_<<clock, accessServiceVars>>
  PROVE  Revocations'
<1>1. ASSUME NEW w \in Worker, NEW r, requests' = [requests EXCEPT ![w] = r],
             r # Absent /\ r.stage = "revoke" => r.grant \in Nat
      PROVE  Revocations'
  <2>1. \A v \in Worker : requests'[v] = IF v = w THEN r ELSE requests[v]
    BY <1>1 DEF AccessInv, Workers
  <2> QED BY <1>1, <2>1 DEF Revocations, At
<1>2. UNCHANGED requests => Revocations'
  BY DEF Revocations, At
<1>3. ASSUME GrantNext PROVE Revocations'
  <2>1. ASSUME NEW w \in Worker, NEW g \in DOMAIN grants, RevokeCheck(w, g) PROVE Revocations'
    <3> DEFINE r == [stage |-> "revoke", grant |-> g]
    <3>1. requests' = [requests EXCEPT ![w] = r]
      BY <2>1 DEF RevokeCheck, Begin
    <3>2. r.grant \in Nat
      BY DEF AccessInv, AccessTyped
    <3> HIDE DEF r
    <3> QED BY <1>1, <3>1, <3>2
  <2>2. ASSUME NEW w \in Worker,
               \/ \E g \in DOMAIN grants : StartSessionCheck(w, g)
               \/ RevokeCommit(w) \/ StartSessionInsert(w)
        PROVE  Revocations'
    BY <1>1, <2>2 DEF StartSessionCheck, RevokeCommit, StartSessionInsert, Begin, Finish, Continue
  <2>3. ASSUME \/ create_contact
               \/ \E c \in DOMAIN contacts :
                    \/ delete_contact(c)
                    \/ \E days \in GrantDays, privileged \in BOOLEAN : grant_access(c, days, privileged)
               \/ \E s \in DOMAIN access_sessions : end_session(s)
        PROVE  Revocations'
    BY <1>2, <2>3 DEF create_contact, delete_contact, grant_access, end_session
  <2> QED BY <1>3, <2>1, <2>2, <2>3 DEF GrantNext
<1>4. ASSUME AdminAccessNext PROVE Revocations'
  <2>1. ASSUME NEW w \in Worker,
               AdminRevokeWrite(w) \/ \E a \in DOMAIN admin_access : AdminRevokeCheck(w, a)
        PROVE  Revocations'
    BY <1>1, <2>1 DEF AdminRevokeWrite, AdminRevokeCheck, Begin, Finish, Continue
  <2>2. ASSUME (\E days \in AdminDays : admin_grant_access(days)) \/ mark_expired_access \/ check_expiring_access
        PROVE  Revocations'
    BY <1>2, <2>2 DEF admin_grant_access, mark_expired_access, check_expiring_access
  <2> QED BY <1>4, <2>1, <2>2 DEF AdminAccessNext
<1>5. ASSUME NEW w \in Worker, RollBack(w) PROVE Revocations'
  BY <1>1, <1>5 DEF RollBack, Finish, Continue
<1> QED BY <1>2, <1>3, <1>4, <1>5 DEF AccessServiceNext, accessServiceVars

(* What they do to the access of administrators.                           *)
LEMMA AdminAccessKept ==
  ASSUME clock \in Nat, AdminAccessTyped,
         [(AccessServiceNext /\ UNCHANGED clock) \/
          ((\E d \in Steps : Tick(d)) /\ UNCHANGED accessServiceVars)]_<<clock, accessServiceVars>>
  PROVE  AdminAccessTyped'
<1>1. UNCHANGED adminRows => AdminAccessTyped'
  BY DEF AdminAccessTyped, adminRows
<1>2. ASSUME NEW days \in AdminDays, admin_grant_access(days) PROVE AdminAccessTyped'
  <2> DEFINE row == [status |-> "active", expires_at |-> IF days = Absent THEN Absent ELSE clock + days]
  <2>1. admin_access' = Append(admin_access, row) /\ expiry_notices' = Append(expiry_notices, 0)
    BY <1>2 DEF admin_grant_access
  <2>2. row \in AdminAccessRow
    BY AccessServiceAssumption DEF AdminAccessRow
  <2> HIDE DEF row
  <2> QED BY <2>1, <2>2, TableInserted DEF AdminAccessTyped
<1>3. ASSUME NEW w \in Worker, AdminRevokeWrite(w) PROVE AdminAccessTyped'
  <2> DEFINE a == requests[w].access
             row == [admin_access[a] EXCEPT !.status = "revoked"]
  <2>1. admin_access' = [admin_access EXCEPT ![a] = row] /\ UNCHANGED expiry_notices
    BY <1>3 DEF AdminRevokeWrite
  <2> HIDE DEF a
  <2>2. a \in DOMAIN admin_access => admin_access[a] \in AdminAccessRow
    BY DEF AdminAccessTyped, TableOf
  <2>3. a \in DOMAIN admin_access => row \in AdminAccessRow
    BY <2>2 DEF AdminAccessRow
  <2> HIDE DEF row
  <2> QED BY <2>1, <2>3, TableUpdated DEF AdminAccessTyped
<1>4. ASSUME mark_expired_access PROVE AdminAccessTyped'
  <2>1. admin_access' = [a \in DOMAIN admin_access |-> admin_access'[a]] /\ UNCHANGED expiry_notices
    BY <1>4 DEF mark_expired_access
  <2>2. ASSUME NEW a \in DOMAIN admin_access PROVE admin_access'[a] \in AdminAccessRow
    <3>1. admin_access'[a] \in {admin_access[a], [admin_access[a] EXCEPT !.status = "expired"]}
      BY <1>4 DEF mark_expired_access
    <3>2. admin_access[a] \in AdminAccessRow
      BY DEF AdminAccessTyped, TableOf
    <3> QED BY <3>1, <3>2 DEF AdminAccessRow
  <2> QED BY <2>1, <2>2, TableRewritten DEF AdminAccessTyped
<1>5. ASSUME check_expiring_access PROVE AdminAccessTyped'
  <2>1. expiry_notices' = [a \in DOMAIN expiry_notices |-> expiry_notices'[a]] /\ UNCHANGED admin_access
    BY <1>5 DEF check_expiring_access
  <2>2. ASSUME NEW a \in DOMAIN expiry_notices PROVE expiry_notices'[a] \in Nat
    <3>1. expiry_notices'[a] \in {expiry_notices[a], expiry_notices[a] + 1}
      BY <1>5 DEF check_expiring_access
    <3>2. expiry_notices[a] \in Nat
      BY DEF AdminAccessTyped, TableOf
    <3> QED BY <3>1, <3>2
  <2> QED BY <2>1, <2>2, TableRewritten DEF AdminAccessTyped
<1>6. AdminAccessNext => AdminAccessTyped'
  <2>1. ASSUME NEW w \in Worker, NEW a \in DOMAIN admin_access, AdminRevokeCheck(w, a)
        PROVE  AdminAccessTyped'
    BY <1>1, <2>1 DEF AdminRevokeCheck
  <2> QED BY <1>2, <1>3, <1>4, <1>5, <2>1 DEF AdminAccessNext
<1>7. GrantNext => AdminAccessTyped'
  <2>1. GrantNext => UNCHANGED adminRows
    BY DEF GrantNext, create_contact, delete_contact, grant_access, RevokeCheck, RevokeCommit,
           StartSessionCheck, StartSessionInsert, end_session
  <2> QED BY <1>1, <2>1
<1> QED BY <1>1, <1>6, <1>7 DEF AccessServiceNext, accessServiceVars

(* Contacts, grants, sessions and alerts, and the access of administrators *)
(* have their types: a revocation is dated, an expiry may be absent.       *)
THEOREM AccessServiceTypes == AccessServiceSpec => []AccessServiceTypeOK
<1> DEFINE Inv == AccessInv /\ AlertsTyped /\ Revocations /\ AdminAccessTyped
<1>1. RequestsInit /\ AccessServiceInit /\ clock = 1 => Inv
  <2> SUFFICES ASSUME RequestsInit, AccessServiceInit, clock = 1 PROVE Inv
    OBVIOUS
  <2>1. AccessInv
    BY DEF RequestsInit, AccessServiceInit, AccessInv, Workers, AccessTyped, At
  <2>2. AlertsTyped /\ Revocations /\ AdminAccessTyped
    BY EmptyIsSeq DEF RequestsInit, AccessServiceInit, AlertsTyped, ListOf, Revocations, At,
                      AdminAccessTyped, TableOf
  <2> QED BY <2>1, <2>2
<1>2. Inv /\
      [(AccessServiceNext /\ UNCHANGED clock) \/
       ((\E d \in Steps : Tick(d)) /\ UNCHANGED accessServiceVars)]_<<clock, accessServiceVars>>
      => Inv'
  <2>1. AccessInv => Workers /\ clock \in Nat
    BY DEF AccessInv, AccessTyped
  <2> QED BY <2>1, StepsOfAccess, AccessInvKept, AlertsKept, RevocationsKept, AdminAccessKept
<1>3. Inv => AccessServiceTypeOK
  <2> SUFFICES ASSUME Inv PROVE AccessServiceTypeOK
    OBVIOUS
  <2>1. /\ admin_access \in Seq([status : {"active", "expired", "revoked"}, expires_at : Nat \cup {Absent}])
        /\ expiry_notices \in Seq(Nat)
    BY TableIsSeq DEF AdminAccessTyped, AdminAccessRow
  <2>2. risk_alerts \in Seq(AlertRow)
    BY DEF AlertsTyped, ListOf
  <2> QED BY <2>1, <2>2 DEF AccessServiceTypeOK, AccessInv, AccessTyped
<1> QED BY <1>1, <1>2, <1>3, PTL DEF AccessServiceSpec

-----------------------------------------------------------------------------
(* Plans of the backend: the types.                                        *)

(* What a handler will insert or subtract later.                           *)
FitsLater(r) ==
  r # Absent =>
    /\ r.stage = "create_plan" => r.user \in PlanUser /\ r.amount \in Nat
    /\ r.stage = "liquidate" => "rows" \in DOMAIN r /\ \A row \in r.rows : row.debt \in Int

PlanRequests == \A w \in Worker : FitsLater(requests[w])

PlanTables ==
  /\ IsMap(kyc, PlanUser, KycStatus)
  /\ TableOf(db_plans, PlanRow)
  /\ TableOf(debt, Int) /\ Len(debt) = Len(db_plans)

PlanTyped == clock \in Nat /\ PlanTables /\ PlanRequests

PlanNext ==
  [(LoanServiceNext /\ UNCHANGED clock) \/
   ((\E d \in Steps : Tick(d)) /\ UNCHANGED loanServiceVars)]_<<clock, loanServiceVars>>

(* A handler that goes on with what fits.                                  *)
LEMMA FitsWritten ==
  ASSUME Workers, PlanRequests, NEW w \in Worker, NEW r, requests' = [requests EXCEPT ![w] = r],
         FitsLater(r)
  PROVE  PlanRequests'
<1>1. \A v \in Worker : requests'[v] = IF v = w THEN r ELSE requests[v]
  BY DEF Workers
<1>2. \A x : FitsLater(x)' <=> FitsLater(x)
  BY DEF FitsLater
<1> QED BY <1>1, <1>2 DEF PlanRequests, FitsLater

(* Every handler leaves what fits.                                         *)
LEMMA RequestsFit ==
  ASSUME Workers, PlanTyped, PlanNext
  PROVE  PlanRequests'
<1>1. ASSUME NEW w \in Worker, NEW r, requests' = [requests EXCEPT ![w] = r],
             r = Absent \/ r.stage \notin {"create_plan", "liquidate"}
      PROVE  PlanRequests'
  BY <1>1, FitsWritten DEF PlanTyped, FitsLater
<1>2. UNCHANGED requests => PlanRequests'
  BY DEF PlanTyped, PlanRequests, FitsLater
<1>3. ASSUME LoanRequestNext \/ LoanRowNext \/ FundNext PROVE PlanRequests'
  <2>1. ASSUME NEW w \in Worker,
               \/ \E plan \in PlanIds \cup {Absent}, terms \in LoanTerms : CreateLoanCheck(w, plan, terms)
               \/ CreateLoanInsert(w)
               \/ \E id \in DOMAIN fund_claims : PayoutFund(w, id)
               \/ PayoutMark(w) \/ MetricsRead(w) \/ MetricsWrite(w)
        PROVE  PlanRequests'
    BY <1>1, <2>1
    DEF CreateLoanCheck, CreateLoanInsert, PayoutFund, PayoutMark, MetricsRead, MetricsWrite,
        Begin, Finish, Continue
  <2>2. ASSUME LoanRowNext PROVE PlanRequests'
    BY <1>2, <2>2
    DEF LoanRowNext, repay_loan, liquidate_loan, add_collateral, remove_collateral, swap_collateral,
        mark_overdue_loans, update_price, planServiceVars
  <2>3. ASSUME \/ \E kind \in {"contribution", "yield", "fee"}, amount \in FundAmount : FundTransaction(kind, amount)
               \/ \E amount \in InsuredAmount : create_insurance_claim(amount)
               \/ \E id \in DOMAIN fund_claims, approved \in BOOLEAN :
                    \E amount \in ApprovedAmount \cup {fund_claims[id].claimed} : process_claim(id, approved, amount)
        PROVE  PlanRequests'
    BY <1>2, <2>3 DEF FundTransaction, create_insurance_claim, process_claim, planServiceVars
  <2> QED BY <1>3, <2>1, <2>2, <2>3 DEF LoanRequestNext, FundNext
<1>4. ASSUME KycNext \/ LedgerEvents PROVE PlanRequests'
  BY <1>2, <1>4 DEF KycNext, submit_kyc, update_kyc_status, LedgerEvents, LinkContract, RecordEvent
<1>5. ASSUME RollBackNext PROVE PlanRequests'
  BY <1>1, <1>5 DEF RollBackNext, RollBack, Finish, Continue
<1>6. ASSUME ClaimNext PROVE PlanRequests'
  <2>1. ASSUME NEW w \in Worker, NEW user \in PlanUser, NEW amount \in PlanAmount,
               CreatePlanCheck(w, user, amount)
        PROVE  PlanRequests'
    <3> DEFINE r == [stage |-> "create_plan", user |-> user, amount |-> amount]
    <3>1. requests' = [requests EXCEPT ![w] = r]
      BY <2>1 DEF CreatePlanCheck, Begin
    <3>2. FitsLater(r)
      BY PlanServiceAssumption DEF FitsLater
    <3> HIDE DEF r
    <3> QED BY <3>1, <3>2, FitsWritten DEF PlanTyped
  <2>2. ASSUME NEW w \in Worker,
               \/ CreatePlanInsert(w) \/ ClaimLock(w) \/ ClaimCommit(w) \/ CancelWrite(w)
               \/ \E p \in PlanIds : ClaimCheck(w, p) \/ CancelCheck(w, p)
        PROVE  PlanRequests'
    BY <1>1, <2>2 DEF CreatePlanInsert, ClaimLock, ClaimCommit, CancelWrite, ClaimCheck, CancelCheck,
                      Begin, Finish, Continue
  <2> QED BY <1>6, <2>1, <2>2 DEF ClaimNext
<1>7. ASSUME FreezeNext PROVE PlanRequests'
  <2>1. ASSUME NEW w \in Worker,
               \/ \E p \in PlanIds : PauseCheck(w, p) \/ UnpauseCheck(w, p)
               \/ PauseWrite(w) \/ UnpauseWrite(w)
        PROVE  PlanRequests'
    BY <1>1, <2>1 DEF PauseCheck, UnpauseCheck, PauseWrite, UnpauseWrite, Begin, Finish, Continue
  <2>2. ASSUME NEW p \in PlanIds, NEW enabled \in BOOLEAN, set_risk_override(p, enabled)
        PROVE  PlanRequests'
    BY <1>2, <2>2 DEF set_risk_override
  <2> QED BY <1>7, <2>1, <2>2 DEF FreezeNext
<1>8. ASSUME WatchNext PROVE PlanRequests'
  <2>1. ASSUME NEW w \in Worker, RiskScan(w) PROVE PlanRequests'
    BY <1>1, <2>1 DEF RiskScan, Job, Begin
  <2>2. ASSUME NEW w \in Worker, LiquidationScan(w) PROVE PlanRequests'
    <3> DEFINE flagged == {q \in PlanIds : /\ db_plans[q].is_risky
                                           /\ db_plans[q].status # "liquidated" /\ debt[q] > 0}
               rows == {[plan |-> p, debt |-> debt[p]] : p \in flagged}
               r == [stage |-> "liquidate", rows |-> rows]
    <3>1. requests' = [requests EXCEPT ![w] = r]
      BY <2>2 DEF LiquidationScan, Job, Begin
    <3>2. \A p \in PlanIds : debt[p] \in Int
      BY DEF PlanTyped, PlanTables, TableOf, PlanIds, IsSeq
    <3>3. \A row \in rows : row.debt \in Int
      BY <3>2
    <3> HIDE DEF rows
    <3>4. FitsLater(r)
      BY <3>3 DEF FitsLater
    <3> HIDE DEF r
    <3> QED BY <3>1, <3>4, FitsWritten DEF PlanTyped
  <2>3. ASSUME NEW w \in Worker, NEW kind \in {"risk", "liquidate"}, NEW row, JobRow(w, kind, row)
        PROVE  PlanRequests'
    <3>1. CASE requests[w].rows = {row}
      BY <1>1, <2>3, <3>1 DEF JobRow, Finish, Continue
    <3>2. CASE requests[w].rows # {row}
      <4> DEFINE r == [requests[w] EXCEPT !.rows = @ \ {row}]
      <4>1. requests' = [requests EXCEPT ![w] = r]
        BY <2>3, <3>2 DEF JobRow, Continue
      <4>2. requests[w] # Absent /\ requests[w].stage = kind /\ FitsLater(requests[w])
        BY <2>3 DEF JobRow, At, PlanTyped, PlanRequests
      <4>3. r.stage = requests[w].stage
        OBVIOUS
      <4>4. DOMAIN r = DOMAIN requests[w]
        OBVIOUS
      <4>5. "rows" \in DOMAIN requests[w] => r.rows = requests[w].rows \ {row}
        OBVIOUS
      <4> HIDE DEF r
      <4>6. FitsLater(r)
        BY <4>2, <4>3, <4>4, <4>5 DEF FitsLater
      <4> QED BY <4>1, <4>6, FitsWritten DEF PlanTyped
    <3> QED BY <3>1, <3>2
  <2>4. ASSUME simulate_mass_default PROVE PlanRequests'
    BY <1>2, <2>4 DEF simulate_mass_default
  <2> QED BY <1>8, <2>1, <2>2, <2>3, <2>4 DEF WatchNext, RiskWrite, LiquidatePlan
<1>9. UNCHANGED loanServiceVars => PlanRequests'
  BY <1>2 DEF loanServiceVars, planServiceVars
<1> QED BY <1>3, <1>4, <1>5, <1>6, <1>7, <1>8, <1>9 DEF PlanNext, LoanServiceNext, PlanServiceNext

(* A new status of a user.                                                 *)
LEMMA KycWritten ==
  ASSUME PlanTables, NEW user, user \in PlanUser, NEW status, status \in KycStatus,
         kyc' = Put(kyc, user, status)
  PROVE  IsMap(kyc', PlanUser, KycStatus)
BY KeyWritten DEF PlanTables

(* A row of a plan written, while the debts stay.                          *)
LEMMA PlanRowWritten ==
  ASSUME PlanTables, NEW p, NEW row, p \in PlanIds => row \in PlanRow,
         db_plans' = [db_plans EXCEPT ![p] = row]
  PROVE  TableOf(db_plans', PlanRow) /\ Len(db_plans') = Len(db_plans)
<1>1. TableOf(db_plans', PlanRow)
  BY TableUpdated DEF PlanTables, PlanIds
<1>2. Replaced(db_plans, p, row, db_plans')
  BY UpdatedRow DEF PlanTables, TableOf
<1> QED BY <1>1, <1>2 DEF Replaced

(* A debt written.                                                         *)
LEMMA DebtWritten ==
  ASSUME PlanTables, NEW p, NEW amount, p \in DOMAIN debt => amount \in Int,
         debt' = [debt EXCEPT ![p] = amount]
  PROVE  TableOf(debt', Int) /\ Len(debt') = Len(debt)
<1>1. TableOf(debt', Int)
  BY TableUpdated DEF PlanTables
<1>2. Replaced(debt, p, amount, debt')
  BY UpdatedRow DEF PlanTables, TableOf
<1> QED BY <1>1, <1>2 DEF Replaced

(* The fields of a plan that the statements write, one at a time.          *)
LEMMA PlanFieldsTyped ==
  ASSUME PlanTables, NEW p, p \in PlanIds
  PROVE  /\ \A x \in {"pending", "claimed", "deactivated", "liquidated"} :
              /\ [db_plans[p] EXCEPT !.status = x] \in PlanRow
              /\ [[db_plans[p] EXCEPT !.status = x] EXCEPT !.is_active = FALSE] \in PlanRow
         /\ \A b \in BOOLEAN :
              /\ [db_plans[p] EXCEPT !.is_paused = b] \in PlanRow
              /\ [db_plans[p] EXCEPT !.is_risky = b] \in PlanRow
              /\ [db_plans[p] EXCEPT !.risk_override = b] \in PlanRow
         /\ \A m \in Method, t \in Nat :
              [[db_plans[p] EXCEPT !.method = m] EXCEPT !.created_at = t] \in PlanRow
<1>1. db_plans[p] \in PlanRow
  BY DEF PlanTables, TableOf, PlanIds
<1> DEFINE row == db_plans[p]
<1> HIDE DEF row
<1>2. row \in PlanRow
  BY <1>1 DEF row
<1>3. \A x \in {"pending", "claimed", "deactivated", "liquidated"} :
        /\ [row EXCEPT !.status = x] \in PlanRow
        /\ [[row EXCEPT !.status = x] EXCEPT !.is_active = FALSE] \in PlanRow
  BY <1>2 DEF PlanRow
<1>4. \A b \in BOOLEAN :
        /\ [row EXCEPT !.is_paused = b] \in PlanRow
        /\ [row EXCEPT !.is_risky = b] \in PlanRow
        /\ [row EXCEPT !.risk_override = b] \in PlanRow
  BY <1>2 DEF PlanRow
<1>5. \A m \in Method, t \in Nat :
        [[row EXCEPT !.method = m] EXCEPT !.created_at = t] \in PlanRow
  BY <1>2 DEF PlanRow
<1> QED BY <1>3, <1>4, <1>5 DEF row

(* An UPDATE of one plan, which leaves everything else.                    *)
LEMMA PlanUpdated ==
  ASSUME PlanTables, NEW p, NEW row, p \in PlanIds => row \in PlanRow,
         UpdateRow(p, row), UNCHANGED <<kyc, debt>>
  PROVE  PlanTables'
<1>1. TableOf(db_plans', PlanRow) /\ Len(db_plans') = Len(db_plans)
  BY PlanRowWritten DEF UpdateRow
<1> QED BY <1>1 DEF PlanTables

(* What the steps do to the tables.                                        *)
LEMMA PlanTablesKept ==
  ASSUME Workers, PlanTyped, PlanNext
  PROVE  PlanTables'
<1> USE DEF PlanTyped
<1>1. UNCHANGED <<kyc, db_plans, debt>> => PlanTables'
  BY DEF PlanTables
<1>2. ASSUME KycNext PROVE PlanTables'
  <2>1. PICK user \in PlanUser, status \in KycStatus : kyc' = Put(kyc, user, status)
    <3>1. \A user : get_kyc_status(user) \in KycStatus
      BY KeyRead DEF get_kyc_status, PlanTables, KycStatus
    <3> QED BY <1>2, <3>1 DEF KycNext, submit_kyc, update_kyc_status
  <2>2. IsMap(kyc', PlanUser, KycStatus)
    BY <2>1, KycWritten
  <2>3. UNCHANGED <<db_plans, debt>>
    BY <1>2 DEF KycNext, submit_kyc, update_kyc_status, planRows
  <2> QED BY <2>2, <2>3 DEF PlanTables
<1>3. ASSUME NEW w \in Worker, CreatePlanInsert(w) PROVE PlanTables'
  <2> DEFINE row == [user |-> requests[w].user, amount |-> requests[w].amount, status |-> "pending",
                     is_active |-> TRUE, is_paused |-> FALSE, is_risky |-> FALSE, risk_override |-> FALSE,
                     method |-> Absent, created_at |-> 0]
  <2>1. db_plans' = Append(db_plans, row) /\ debt' = Append(debt, 0) /\ kyc' = kyc
    BY <1>3 DEF CreatePlanInsert
  <2>2. requests[w].user \in PlanUser /\ requests[w].amount \in Nat
    BY <1>3 DEF CreatePlanInsert, At, PlanRequests, FitsLater
  <2>3. row \in PlanRow
    BY <2>2 DEF PlanRow
  <2> HIDE DEF row
  <2>4. TableOf(db_plans', PlanRow)
    BY <2>1, <2>3, TableInserted DEF PlanTables
  <2>5. TableOf(debt', Int)
    <3>1. 0 \in Int /\ TableOf(debt, Int)
      BY DEF PlanTables
    <3> QED BY <2>1, <3>1, TableInserted
  <2>6. Inserted(db_plans, row, db_plans') /\ Inserted(debt, 0, debt')
    BY <2>1, AppendedRow DEF PlanTables, TableOf
  <2>7. Len(debt') = Len(db_plans')
    BY <2>6 DEF Inserted, PlanTables
  <2> QED BY <2>1, <2>4, <2>5, <2>7 DEF PlanTables
<1>4. ASSUME NEW w \in Worker, ClaimCommit(w) PROVE PlanTables'
  <2> DEFINE p == requests[w].plan
             row == [db_plans[p] EXCEPT !.status = "claimed"]
  <2>1. db_plans' = [db_plans EXCEPT ![p] = row] /\ UNCHANGED <<kyc, debt>>
    BY <1>4 DEF ClaimCommit, InsertClaim, WithClaim
  <2>2. p \in PlanIds => row \in PlanRow
    BY PlanFieldsTyped
  <2> HIDE DEF row, p
  <2>3. TableOf(db_plans', PlanRow) /\ Len(db_plans') = Len(db_plans)
    BY <2>1, <2>2, PlanRowWritten
  <2> QED BY <2>1, <2>3 DEF PlanTables
<1>5. ASSUME NEW w \in Worker, CancelWrite(w) PROVE PlanTables'
  <2> DEFINE p == requests[w].plan
             row == [[db_plans[p] EXCEPT !.status = "deactivated"] EXCEPT !.is_active = FALSE]
  <2>1. UpdateRow(p, row) /\ UNCHANGED <<kyc, debt>>
    BY <1>5 DEF CancelWrite
  <2>2. p \in PlanIds => row \in PlanRow
    BY PlanFieldsTyped
  <2> HIDE DEF row, p
  <2> QED BY <2>1, <2>2, PlanUpdated
<1>6. ASSUME NEW p \in PlanIds, NEW method \in Method, LinkContract(p, method) PROVE PlanTables'
  <2> DEFINE row == [[db_plans[p] EXCEPT !.method = method] EXCEPT !.created_at = clock]
  <2>1. UpdateRow(p, row) /\ UNCHANGED <<kyc, debt>>
    BY <1>6 DEF LinkContract
  <2>2. row \in PlanRow
    BY PlanFieldsTyped
  <2> HIDE DEF row
  <2> QED BY <2>1, <2>2, PlanUpdated
<1>7. ASSUME NEW p \in PlanIds, NEW change \in Int, RecordEvent(p, change) PROVE PlanTables'
  <2> DEFINE amount == debt[p] + change
  <2>1. debt' = [debt EXCEPT ![p] = amount] /\ UNCHANGED <<kyc, db_plans>>
    BY <1>7 DEF RecordEvent, planRows
  <2>2. p \in DOMAIN debt => amount \in Int
    BY DEF PlanTables, TableOf
  <2> HIDE DEF amount
  <2>3. TableOf(debt', Int) /\ Len(debt') = Len(debt)
    BY <2>1, <2>2, DebtWritten
  <2> QED BY <2>1, <2>3 DEF PlanTables
<1>8. ASSUME FreezeNext PROVE PlanTables'
  <2>1. ASSUME NEW w \in Worker, PauseWrite(w) \/ UnpauseWrite(w) PROVE PlanTables'
    <3> DEFINE p == requests[w].plan
    <3>1. PICK b \in BOOLEAN : UpdateRow(p, [db_plans[p] EXCEPT !.is_paused = b]) /\ UNCHANGED <<kyc, debt>>
      BY <2>1 DEF PauseWrite, UnpauseWrite
    <3> DEFINE row == [db_plans[p] EXCEPT !.is_paused = b]
    <3>2. p \in PlanIds => row \in PlanRow
      BY PlanFieldsTyped
    <3>3. UpdateRow(p, row)
      BY <3>1
    <3> HIDE DEF row, p
    <3> QED BY <3>1, <3>2, <3>3, PlanUpdated
  <2>2. ASSUME NEW p \in PlanIds, NEW enabled \in BOOLEAN, set_risk_override(p, enabled)
        PROVE  PlanTables'
    <3> DEFINE row == [db_plans[p] EXCEPT !.risk_override = enabled]
    <3>1. UpdateRow(p, row) /\ UNCHANGED <<kyc, debt>>
      BY <2>2 DEF set_risk_override
    <3>2. row \in PlanRow
      BY PlanFieldsTyped
    <3> HIDE DEF row
    <3> QED BY <3>1, <3>2, PlanUpdated
  <2>3. ASSUME NEW w \in Worker, NEW p \in PlanIds, PauseCheck(w, p) \/ UnpauseCheck(w, p)
        PROVE  PlanTables'
    BY <1>1, <2>3 DEF PauseCheck, UnpauseCheck, planRows
  <2> QED BY <1>8, <2>1, <2>2, <2>3 DEF FreezeNext
<1>9. ASSUME NEW w \in Worker, NEW row, NEW ratio, RiskWrite(w, row, ratio) PROVE PlanTables'
  <2> DEFINE p == row.plan
             b == ~row.override /\ db_plans[p].amount * ratio < LiquidationThreshold * row.debt
             new == [db_plans[p] EXCEPT !.is_risky = b]
  <2>1. UpdateRow(p, new) /\ UNCHANGED <<kyc, debt>>
    BY <1>9 DEF RiskWrite
  <2>2. b \in BOOLEAN
    OBVIOUS
  <2> HIDE DEF b
  <2>3. p \in PlanIds => new \in PlanRow
    BY <2>2, PlanFieldsTyped
  <2> HIDE DEF new, p
  <2> QED BY <2>1, <2>3, PlanUpdated
<1>10. ASSUME NEW w \in Worker, NEW row, row \in requests[w].rows, LiquidatePlan(w, row)
       PROVE  PlanTables'
  <2> DEFINE p == row.plan
             new == [db_plans[p] EXCEPT !.status = "liquidated"]
             amount == debt[p] - row.debt
  <2>1. /\ db_plans' = [db_plans EXCEPT ![p] = new] /\ debt' = [debt EXCEPT ![p] = amount]
        /\ kyc' = kyc /\ At(w, "liquidate")
    BY <1>10 DEF LiquidatePlan, UpdateRow, JobRow
  <2>2. row.debt \in Int
    BY <1>10, <2>1 DEF At, PlanRequests, FitsLater
  <2>3. p \in PlanIds => new \in PlanRow
    BY PlanFieldsTyped
  <2>4. p \in DOMAIN debt => amount \in Int
    BY <2>2 DEF PlanTables, TableOf
  <2> HIDE DEF new, p, amount
  <2>5. TableOf(db_plans', PlanRow) /\ Len(db_plans') = Len(db_plans)
    BY <2>1, <2>3, PlanRowWritten
  <2>6. TableOf(debt', Int) /\ Len(debt') = Len(debt)
    BY <2>1, <2>4, DebtWritten
  <2> QED BY <2>1, <2>5, <2>6 DEF PlanTables
<1>11. ASSUME simulate_mass_default PROVE PlanTables'
  <2>1. db_plans' = [p \in PlanIds |-> [db_plans[p] EXCEPT !.is_risky = @ \/ ~db_plans[p].is_paused]]
        /\ UNCHANGED <<kyc, debt>>
    BY <1>11 DEF simulate_mass_default
  <2>2. ASSUME NEW p \in PlanIds PROVE db_plans'[p] \in PlanRow
    <3> DEFINE b == db_plans[p].is_risky \/ ~db_plans[p].is_paused
    <3>1. db_plans'[p] = [db_plans[p] EXCEPT !.is_risky = b]
      BY <2>1
    <3>2. b \in BOOLEAN
      OBVIOUS
    <3>3. \A x \in BOOLEAN : [db_plans[p] EXCEPT !.is_risky = x] \in PlanRow
      BY PlanFieldsTyped
    <3> HIDE DEF b
    <3> QED BY <3>1, <3>2, <3>3
  <2>3. db_plans' = [p \in DOMAIN db_plans |-> db_plans'[p]]
    BY <2>1 DEF PlanIds
  <2>4. TableOf(db_plans', PlanRow)
    BY <2>2, <2>3, TableRewritten DEF PlanTables, PlanIds
  <2>5. Len(db_plans') = Len(db_plans)
    BY <2>3, UpdatedRows DEF PlanTables, TableOf
  <2> QED BY <2>1, <2>4, <2>5 DEF PlanTables
<1>12. ClaimNext => PlanTables'
  <2>1. ASSUME NEW w \in Worker,
               \/ \E user \in PlanUser, amount \in PlanAmount : CreatePlanCheck(w, user, amount)
               \/ \E p \in PlanIds : ClaimCheck(w, p) \/ CancelCheck(w, p)
               \/ ClaimLock(w)
        PROVE  PlanTables'
    BY <1>1, <2>1 DEF CreatePlanCheck, ClaimCheck, CancelCheck, ClaimLock, planRows
  <2> QED BY <1>3, <1>4, <1>5, <2>1 DEF ClaimNext
<1>13. LedgerEvents => PlanTables'
  <2>1. \A amount \in DebtAmount : amount \in Int /\ -amount \in Int
    BY PlanServiceAssumption
  <2> QED BY <1>6, <1>7, <2>1 DEF LedgerEvents
<1>14. WatchNext => PlanTables'
  <2>1. ASSUME NEW w \in Worker, RiskScan(w) \/ LiquidationScan(w) PROVE PlanTables'
    BY <1>1, <2>1 DEF RiskScan, LiquidationScan, Job, planRows
  <2> QED BY <1>9, <1>10, <1>11, <2>1 DEF WatchNext
<1>15. RollBackNext => PlanTables'
  BY <1>1 DEF RollBackNext, planRows
<1>16. LoanRequestNext => PlanTables'
  BY <1>1 DEF LoanRequestNext, CreateLoanCheck, CreateLoanInsert, planRows
<1>17. LoanRowNext => PlanTables'
  BY <1>1 DEF LoanRowNext, repay_loan, liquidate_loan, add_collateral, remove_collateral, swap_collateral,
     mark_overdue_loans, update_price, planServiceVars, planRows
<1>18. FundNext => PlanTables'
  BY <1>1 DEF FundNext, FundTransaction, create_insurance_claim, process_claim, PayoutFund, PayoutMark,
     MetricsRead, MetricsWrite, planServiceVars, planRows
<1>19. UNCHANGED loanServiceVars => PlanTables'
  BY <1>1 DEF loanServiceVars, planServiceVars, planRows
<1>20. KycNext => PlanTables'
  BY <1>2
<1>21. FreezeNext => PlanTables'
  BY <1>8
<1> QED BY <1>12, <1>13, <1>14, <1>15, <1>16, <1>17, <1>18, <1>19, <1>20, <1>21
        DEF PlanNext, LoanServiceNext, PlanServiceNext

(* Users, plans, claims and debts have their types, and as many debts and  *)
(* counts of claims are kept as there are plans.                           *)
THEOREM PlanServiceTypes == LoanServiceSpec => []PlanServiceTypeOK
<1>1. PlanServiceInit /\ clock = 1 => PlanTyped
  <2> SUFFICES ASSUME PlanServiceInit, clock = 1 PROVE PlanTyped
    OBVIOUS
  <2>1. PlanTables
    BY EmptyIsSeq, NoKeys DEF PlanServiceInit, PlanTables, TableOf
  <2>2. PlanRequests
    BY DEF PlanServiceInit, RequestsInit, PlanRequests, FitsLater
  <2> QED BY <2>1, <2>2 DEF PlanTyped
<1>2. ClaimInv /\ PlanTyped /\ PlanNext => PlanTyped'
  <2> SUFFICES ASSUME ClaimInv, PlanTyped, PlanNext PROVE PlanTyped'
    OBVIOUS
  <2>1. Workers
    BY DEF ClaimInv
  <2>2. clock' \in Nat
    BY ClockAssumption DEF PlanTyped, PlanNext, Tick
  <2> QED BY <2>1, <2>2, RequestsFit, PlanTablesKept DEF PlanTyped
<1>3. ClaimInv /\ PlanTyped => PlanServiceTypeOK
  <2> SUFFICES ASSUME ClaimInv, PlanTyped PROVE PlanServiceTypeOK
    OBVIOUS
  <2>1. db_plans \in Seq(PlanRow) /\ debt \in Seq(Int)
    BY TableIsSeq DEF PlanTyped, PlanTables
  <2>2. TableOf(claim_log, Nat)
    BY DEF ClaimInv, ClaimTyped, LogCountsClaims, TableOf
  <2>3. claim_log \in Seq(Nat)
    BY <2>2, TableIsSeq
  <2> QED BY <2>1, <2>3 DEF PlanTyped, PlanTables, ClaimInv, ClaimTyped, PlanServiceTypeOK
<1>4. ClaimInv /\ PlanTyped /\
      [(LoanServiceNext /\ UNCHANGED clock) \/
       ((\E d \in Steps : Tick(d)) /\ UNCHANGED loanServiceVars)]_<<clock, loanServiceVars>>
      => PlanTyped'
  BY <1>2 DEF PlanNext
<1> QED BY <1>1, <1>3, <1>4, ClaimInvHolds, PTL DEF LoanServiceSpec

-----------------------------------------------------------------------------
(* The circuit breaker: the types.                                         *)

(* A caller whose stage alone changes.                                     *)
LEMMA CallerMoves ==
  ASSUME BreakerTypeOK, NEW c \in Caller, NEW next, next \in Stages, Goto(c, next)
  PROVE  stage' \in [Caller -> Stages]
BY DEF BreakerTypeOK, Goto

(* A caller tries again, or gives up.                                      *)
LEMMA RetryTyped ==
  ASSUME BreakerTypeOK, NEW c \in Caller, Retry(c)
  PROVE  stage' \in [Caller -> Stages] /\ attempts' \in [Caller -> 0 .. MaxAttempts]
<1> DEFINE next == IF attempts'[c] < MaxAttempts THEN "ready" ELSE "idle"
<1>1. MaxAttempts \in Nat
  BY CircuitBreakerAssumption
<1>2. attempts' \in [Caller -> 0 .. MaxAttempts]
  BY <1>1 DEF BreakerTypeOK, Retry
<1>3. next \in Stages /\ Goto(c, next)
  BY DEF Retry, Stages
<1> HIDE DEF next
<1> QED BY <1>2, <1>3, CallerMoves

(* A step of one caller.                                                   *)
LEMMA CallerTyped ==
  ASSUME BreakerTypeOK, NEW c \in Caller, CallerNext(c)
  PROVE  BreakerTypeOK'
<1>1. FailureThreshold \in Nat /\ RecoveryTimeout \in Nat /\ MaxAttempts \in Nat
  BY CircuitBreakerAssumption
<1>2. CASE Request(c)
  <2>1. stage' \in [Caller -> Stages]
    BY <1>2, CallerMoves DEF Request, Stages
  <2>2. attempts' \in [Caller -> 0 .. MaxAttempts]
    BY <1>1, <1>2 DEF Request, BreakerTypeOK
  <2> QED BY <1>2, <2>1, <2>2 DEF Request, BreakerTypeOK
<1>3. CASE ReadCount(c)
  <2>1. stage' \in [Caller -> Stages]
    BY <1>3, CallerMoves DEF ReadCount, Stages
  <2> QED BY <1>3, <2>1 DEF ReadCount, BreakerTypeOK
<1>4. CASE ReadOpened(c)
  <2>1. stage' \in [Caller -> Stages]
    BY <1>4, CallerMoves DEF ReadOpened, Stages
  <2> QED BY <1>4, <2>1 DEF ReadOpened, BreakerTypeOK
<1>5. CASE OperationSucceeds(c)
  <2>1. stage' \in [Caller -> Stages]
    BY <1>5, CallerMoves DEF OperationSucceeds, Stages
  <2> QED BY <1>5, <2>1 DEF OperationSucceeds, BreakerTypeOK
<1>6. CASE OperationFails(c)
  <2>1. stage' \in [Caller -> Stages]
    BY <1>6, CallerMoves DEF OperationFails, Stages
  <2> QED BY <1>6, <2>1 DEF OperationFails, BreakerTypeOK
<1>7. CASE OperationRefused(c)
  <2>1. stage' \in [Caller -> Stages]
    BY <1>7, CallerMoves DEF OperationRefused, Stages
  <2>2. attempts' \in [Caller -> 0 .. MaxAttempts]
    BY <1>1, <1>7 DEF OperationRefused, BreakerTypeOK
  <2> QED BY <1>7, <2>1, <2>2 DEF OperationRefused, BreakerTypeOK
<1>8. CASE SwapCount(c)
  <2>1. stage' \in [Caller -> Stages]
    BY <1>8, CallerMoves DEF SwapCount, Stages
  <2> QED BY <1>1, <1>8, <2>1 DEF SwapCount, ResetCount, BreakerTypeOK
<1>9. CASE ResetOpened(c)
  <2>1. stage' \in [Caller -> Stages]
    BY <1>9, CallerMoves DEF ResetOpened, Stages
  <2> QED BY <1>1, <1>9, <2>1 DEF ResetOpened, BreakerTypeOK
<1>10. CASE AddFailure(c)
  <2>1. failure_count' \in 0 .. FailureThreshold + 1
    BY <1>1, <1>10 DEF AddFailure, BreakerTypeOK
  <2>2. stage' \in [Caller -> Stages] /\ attempts' \in [Caller -> 0 .. MaxAttempts]
    <3>1. CASE Goto(c, "tripped") /\ UNCHANGED attempts
      BY <3>1, CallerMoves DEF Stages, BreakerTypeOK
    <3>2. CASE Retry(c)
      BY <3>2, RetryTyped
    <3> QED BY <1>10, <3>1, <3>2 DEF AddFailure
  <2> QED BY <1>10, <2>1, <2>2 DEF AddFailure, BreakerTypeOK
<1>11. CASE StoreOpened(c)
  BY <1>1, <1>11, RetryTyped DEF StoreOpened, BreakerTypeOK
<1> QED BY <1>2, <1>3, <1>4, <1>5, <1>6, <1>7, <1>8, <1>9, <1>10, <1>11 DEF CallerNext

(* Whatever the scheduling.                                                *)
LEMMA BreakerTyped == BreakerInit /\ [][BreakerNext]_breakerVars => []BreakerTypeOK
<1>1. BreakerInit => BreakerTypeOK
  BY CircuitBreakerAssumption DEF BreakerInit, BreakerTypeOK, Stages
<1>2. BreakerTypeOK /\ [BreakerNext]_breakerVars => BreakerTypeOK'
  <2> SUFFICES ASSUME BreakerTypeOK, [BreakerNext]_breakerVars PROVE BreakerTypeOK'
    OBVIOUS
  <2>1. CASE TimePasses
    BY <2>1, CircuitBreakerAssumption DEF TimePasses, BreakerTypeOK
  <2>2. CASE ServiceChanges
    BY <2>2 DEF ServiceChanges, BreakerTypeOK
  <2>3. CASE UNCHANGED breakerVars
    BY <2>3 DEF breakerVars, BreakerTypeOK
  <2> QED BY <2>1, <2>2, <2>3, CallerTyped DEF BreakerNext
<1> QED BY <1>1, <1>2, PTL

(* Every thread that shares the breaker finds it typed: the counters stay  *)
(* within what the code compares them with.                                *)
THEOREM BreakerTypes == BreakerSpec => []BreakerTypeOK
BY BreakerTyped, PTL DEF BreakerSpec
=============================================================================
