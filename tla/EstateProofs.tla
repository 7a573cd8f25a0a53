---------------------------- MODULE EstateProofs ----------------------------
(***************************************************************************)
(* What the inheritance contract promises as a whole: what a pause holds   *)
(* back, what the loss of the last admin means, that an access in force is *)
(* never overwritten, how much a payment may be after an activation, why   *)
(* the amount of a plan falls, that the contract implements EstateLedger   *)
(* and what that ledger promises by itself, and what it takes for guarded  *)
(* access and for a trigger.                                               *)
(***************************************************************************)
EXTENDS PlanProofs, EstateRefinement

-----------------------------------------------------------------------------
(* What each part of the contract leaves alone. *)

(* Calls on triggers write plans, triggers and conditions only. *)
LEMMA TriggerFrame == TriggerNext => UNCHANGED otherThanTrigger
<1> SUFFICES ASSUME NEW p \in PlanId,
               \/ \E caller \in TriggerCaller : TriggerInheritance(caller, p)
               \/ AutoTriggerCheck(p)
               \/ \E caller \in Address, amount \in RecallAmount :
                    RecallLoan(caller, p, amount)
               \/ \E caller \in Address : LiquidationFallback(caller, p)
               \/ \E caller \in Address :
                    \/ \E c \in ConditionSet :
                         SetTriggerConditions(caller, p, c.conditions, c.trigger_date,
                                              c.inactivity_period, c.oracle)
                    \/ \E date \in TriggerDate : AddTimeTrigger(caller, p, date)
                    \/ \E period \in InactivityPeriod :
                         AddInactivityTrigger(caller, p, period)
                    \/ \E oracle \in Oracle :
                         AddOracleTrigger(caller, p, oracle) \/ AddHealthTrigger(caller, p, oracle)
                    \/ RecordActivity(caller, p)
                    \/ SubmitOracleTrigger(caller, p)
                    \/ SubmitHealthTrigger(caller, p)
             PROVE UNCHANGED otherThanTrigger
  BY DEF TriggerNext
<1>1. ASSUME NEW caller, TriggerInheritance(caller, p) PROVE UNCHANGED otherThanTrigger
  BY <1>1 DEF TriggerInheritance, Trigger
<1>2. CASE AutoTriggerCheck(p)
  BY <1>2 DEF AutoTriggerCheck, Trigger
<1>3. ASSUME NEW caller, NEW amount, RecallLoan(caller, p, amount)
      PROVE  UNCHANGED otherThanTrigger
  BY <1>3 DEF RecallLoan
<1>4. ASSUME NEW caller, LiquidationFallback(caller, p) PROVE UNCHANGED otherThanTrigger
  BY <1>4 DEF LiquidationFallback
<1>5. ASSUME NEW caller,
             \/ \E c \in ConditionSet :
                  SetTriggerConditions(caller, p, c.conditions, c.trigger_date,
                                       c.inactivity_period, c.oracle)
             \/ \E date \in TriggerDate : AddTimeTrigger(caller, p, date)
             \/ \E period \in InactivityPeriod : AddInactivityTrigger(caller, p, period)
             \/ \E oracle \in Oracle :
                  AddOracleTrigger(caller, p, oracle) \/ AddHealthTrigger(caller, p, oracle)
             \/ RecordActivity(caller, p)
             \/ SubmitOracleTrigger(caller, p)
             \/ SubmitHealthTrigger(caller, p)
      PROVE  UNCHANGED otherThanTrigger
  BY <1>5 DEF SetTriggerConditions, AddTimeTrigger, AddInactivityTrigger,
       AddOracleTrigger, AddHealthTrigger, RecordActivity, SubmitOracleTrigger,
       SubmitHealthTrigger, SaveConfig
<1> QED BY <1>1, <1>2, <1>3, <1>4, <1>5

(* Operations on plans other than creation, deposits and withdrawals move  *)
(* no token either.                                                        *)
LEMMA PlanFrame ==
  ASSUME PlanNext
  PROVE  \/ \E owner, amount, method, inputs, lendable :
              CreateInheritancePlan(owner, amount, method, inputs, lendable)
         \/ ~paused /\ UNCHANGED otherThanPlans
         \/ UNCHANGED <<token, otherThanPlans>>
<1>1. CASE \E owner \in Address, amount \in CreateAmount, method \in CreateMethod,
              inputs \in CreateInputs, lendable \in LendableValue :
             CreateInheritancePlan(owner, amount, method, inputs, lendable)
  BY <1>1
<1>2. CASE \E p \in PlanId, amount \in LoanAmount : ExternalLend(p, amount)
  BY <1>2 DEF ExternalLend
<1>3. ASSUME NEW caller, NEW p, NEW amount, Deposit(caller, p, amount) \/ Withdraw(caller, p, amount)
      PROVE  ~paused /\ UNCHANGED otherThanPlans
  BY <1>3 DEF Deposit, Withdraw
<1>4. ASSUME NEW caller, NEW p,
             \/ \E lendable \in LendableValue : SetLendable(caller, p, lendable)
             \/ caller \in WaterfallOwner /\ EnableWaterfall(caller, p)
             \/ \E i \in 1..MAX_BENEFICIARIES, priority \in PriorityValue :
                  SetBeneficiaryPriority(caller, p, i, priority)
             \/ \E input \in AddInput : AddBeneficiary(caller, p, input)
             \/ \E i \in RemoveIndex : RemoveBeneficiary(caller, p, i)
             \/ \E inputs \in AddBatch : BatchAddBeneficiaries(caller, p, inputs)
             \/ \E indices \in RemoveBatch : BatchRemoveBeneficiaries(caller, p, indices)
             \/ \E new \in NewAllocation : BatchUpdateAllocations(caller, p, new)
             \/ caller \in DeactivatingUser /\ DeactivateInheritancePlan(caller, p)
             \/ \E new_owner \in NewOwner : TransferPlanOwnership(caller, new_owner, p)
      PROVE  UNCHANGED <<token, otherThanPlans>>
  BY <1>4 DEF SetLendable, EnableWaterfall, SetBeneficiaryPriority, AddBeneficiary,
       RemoveBeneficiary, BatchAddBeneficiaries, BatchRemoveBeneficiaries,
       BatchUpdateAllocations, DeactivateInheritancePlan, TransferPlanOwnership
<1> QED BY <1>1, <1>2, <1>3, <1>4 DEF PlanNext

-----------------------------------------------------------------------------
(* Emergency operations: records are put under free keys and dropped, and  *)
(* the role they grant is that of a guardian.                              *)

KeepsAccess ==
  \A p \in DOMAIN emergency \cap DOMAIN emergency' : emergency'[p] = emergency[p]

LocksOut ==
  admin # None /\ (\A a \in Address : ~HasRole(a, "Admin")) =>
    \A a \in Address : <<a, "Admin">> \notin roles'

HoldsFunds == paused => UNCHANGED <<token, claims>>

(* Calls on emergency access keep to the guards and write nothing else.    *)
LEMMA EmergencyStep ==
  ASSUME EmergencyNext
  PROVE  KeepsAccess /\ LocksOut /\ UNCHANGED otherThanGuards
<1> PICK p \in PlanId, caller \in Address :
      \/ \E contact \in Contact :
           \/ ActivateEmergencyAccess(caller, p, contact)
           \/ ApproveEmergencyAccess(caller, p, contact)
      \/ \E contact \in ListedContact :
           AddEmergencyContact(caller, p, contact) \/ RemoveEmergencyContact(caller, p, contact)
      \/ DeactivateEmergencyAccess(caller, p)
      \/ GetEmergencyAccess(p)
      \/ \E list \in GuardianList, threshold \in Threshold :
           SetGuardians(caller, p, list, threshold)
  BY DEF EmergencyNext
<1>a. UNCHANGED roles => LocksOut
  BY DEF LocksOut, HasRole
<1>b. UNCHANGED emergency => KeepsAccess
  BY DEF KeepsAccess
<1>1. ASSUME NEW contact \in Contact,
             \/ ActivateEmergencyAccess(caller, p, contact)
             \/ ApproveEmergencyAccess(caller, p, contact)
      PROVE  KeepsAccess /\ LocksOut /\ UNCHANGED otherThanGuards
  <2>1. /\ \/ emergency' = emergency
           \/ /\ p \notin DOMAIN emergency
              /\ emergency' = Put(emergency, p, NewEmergencyRecord(contact))
        /\ UNCHANGED <<roles, otherThanGuards>>
    BY <1>1 DEF ActivateEmergencyAccess, ApproveEmergencyAccess
  <2>2. KeepsAccess
    BY <2>1 DEF KeepsAccess, Put
  <2> QED BY <1>a, <2>1, <2>2
<1>2. CASE DeactivateEmergencyAccess(caller, p) \/ GetEmergencyAccess(p)
  <2>1. emergency' = Drop(emergency, p) /\ UNCHANGED <<roles, otherThanGuards>>
    BY <1>2 DEF DeactivateEmergencyAccess, GetEmergencyAccess
  <2>2. KeepsAccess
    BY <2>1 DEF KeepsAccess, Drop
  <2> QED BY <1>a, <2>1, <2>2
<1>3. ASSUME NEW contact \in ListedContact,
             \/ AddEmergencyContact(caller, p, contact)
             \/ RemoveEmergencyContact(caller, p, contact)
      PROVE  KeepsAccess /\ LocksOut /\ UNCHANGED otherThanGuards
  BY <1>3, <1>a, <1>b DEF AddEmergencyContact, RemoveEmergencyContact
<1>4. ASSUME NEW list \in GuardianList, NEW threshold \in Threshold,
             SetGuardians(caller, p, list, threshold)
      PROVE  KeepsAccess /\ LocksOut /\ UNCHANGED otherThanGuards
  <2>1. /\ roles' = roles \cup {<<list[i], "Guardian">> : i \in DOMAIN list}
        /\ UNCHANGED <<emergency, otherThanGuards>>
    BY <1>4 DEF SetGuardians
  <2>2. LocksOut
    BY <2>1 DEF LocksOut, HasRole
  <2> QED BY <1>b, <2>1, <2>2
<1> QED BY <1>1, <1>2, <1>3, <1>4

-----------------------------------------------------------------------------
(* Any step. *)

(* Every step keeps to the three guards. *)
LEMMA NextGuarded == [Next]_vars => KeepsAccess /\ LocksOut /\ HoldsFunds
<1> SUFFICES ASSUME [Next]_vars PROVE KeepsAccess /\ LocksOut /\ HoldsFunds
  OBVIOUS
<1>a. UNCHANGED emergency => KeepsAccess
  BY DEF KeepsAccess
<1>b. UNCHANGED roles => LocksOut
  BY DEF LocksOut, HasRole
<1>1. CASE AdminNext
  <2>1. LocksOut
    BY <1>1 DEF LocksOut, HasRole, AdminNext, InitializeAdmin, AssignRole, RevokeRole,
         SetPaused, SubmitKyc, ApproveKyc, RejectKyc, BatchApproveKyc
  <2> QED BY <1>1, <1>a, <2>1, AdminFrame DEF otherThanAccess, claimVars, guardVars, HoldsFunds
<1>2. CASE PlanNext
  <2>1. ASSUME NEW owner, NEW amount, NEW method, NEW inputs, NEW lendable,
               CreateInheritancePlan(owner, amount, method, inputs, lendable)
        PROVE  ~paused /\ UNCHANGED emergency /\ roles' = roles \cup {<<owner, "Owner">>}
    BY <2>1 DEF CreateInheritancePlan, guardVars
  <2>2. UNCHANGED otherThanPlans => UNCHANGED <<claims, emergency, roles>>
    BY DEF otherThanPlans, accessVars, claimVars, guardVars
  <2>3. ASSUME NEW owner, roles' = roles \cup {<<owner, "Owner">>} PROVE LocksOut
    BY <2>3 DEF LocksOut, HasRole
  <2> QED BY <1>2, <1>a, <1>b, <2>1, <2>2, <2>3, PlanFrame DEF HoldsFunds
<1>3. CASE ClaimNext
  <2> PICK p \in PlanId :
        \/ \E e \in ClaimEntry : ClaimInheritancePlan(e.claimer, p, e.email, e.claim_code)
        \/ \E entries \in ClaimBatch : BatchClaim(p, entries)
    BY <1>3 DEF ClaimNext
  <2>1. ~paused /\ UNCHANGED emergency
    BY DEF ClaimInheritancePlan, BatchClaim, guardVars
  <2>2. ASSUME NEW e \in ClaimEntry,
               ClaimInheritancePlan(e.claimer, p, e.email, e.claim_code)
        PROVE  LocksOut
    <3>1. roles' = roles \cup {<<e.claimer, "Beneficiary">>}
      BY <2>2 DEF ClaimInheritancePlan
    <3> QED BY <3>1 DEF LocksOut, HasRole
  <2>3. ASSUME NEW entries \in ClaimBatch, BatchClaim(p, entries) PROVE LocksOut
    BY <2>3, <1>b DEF BatchClaim, accessVars
  <2> QED BY <1>a, <2>1, <2>2, <2>3 DEF HoldsFunds
<1>4. CASE TriggerNext
  BY <1>4, <1>a, <1>b, TriggerFrame
     DEF otherThanTrigger, accessVars, claimVars, guardVars, HoldsFunds
<1>5. CASE EmergencyNext
  BY <1>5, EmergencyStep DEF otherThanGuards, claimVars, HoldsFunds
<1>6. CASE Tick
  BY <1>6, <1>a, <1>b DEF Tick, Advance, accessVars, claimVars, guardVars, HoldsFunds
<1>7. CASE UNCHANGED vars
  BY <1>7, <1>a, <1>b DEF vars, accessVars, claimVars, guardVars, HoldsFunds
<1> QED BY <1>1, <1>2, <1>3, <1>4, <1>5, <1>6, <1>7 DEF Next

(* While the contract is paused no token moves and no claim is granted, by *)
(* any call of any account (require_not_paused_or_panic).                  *)
THEOREM PauseHolds == Spec => PauseHoldsFunds
<1>1. [Next]_vars => [paused => UNCHANGED <<token, claims>>]_vars
  BY NextGuarded DEF HoldsFunds
<1> QED BY <1>1, PTL DEF Spec, PauseHoldsFunds

(* Once nobody holds the Admin role any more nobody ever will: the stored  *)
(* admin keeps initialize_admin closed, and every grant needs an admin.    *)
THEOREM LockoutStays == Spec => LockoutIsPermanent
<1>1. [Next]_vars =>
        [admin # None /\ (\A a \in Address : ~HasRole(a, "Admin")) =>
           \A a \in Address : <<a, "Admin">> \notin roles']_vars
  BY NextGuarded DEF LocksOut
<1> QED BY <1>1, PTL DEF Spec, LockoutIsPermanent

(* Access in force is neither extended nor handed to another contact: it   *)
(* is revoked or lapses first, however many approvals come in.             *)
THEOREM AccessStays == Spec => EmergencyAccessIsNotReplaced
<1>1. [Next]_vars =>
        [\A p \in DOMAIN emergency \cap DOMAIN emergency' :
           emergency'[p] = emergency[p]]_vars
  BY NextGuarded DEF KeepsAccess
<1> QED BY <1>1, PTL DEF Spec, EmergencyAccessIsNotReplaced

-----------------------------------------------------------------------------
(* Claims of one plan. *)

(* A claim, single or of a batch, is granted from one active plan. *)
LEMMA GrantsFromOnePlan ==
  ASSUME TypeOK, TypeOK', Claiming
  PROVE  /\ \E p \in DOMAIN plans : \E plan \in Plan :
              /\ plans[p].is_active
              /\ plans' = [plans EXCEPT ![p] = plan]
              /\ GrantedFrom(p, plan, claims')
         /\ UNCHANGED <<token, triggers>>
<1> PICK p \in PlanId :
      \/ \E claimer \in Address, email \in Email :
           \E code : ClaimInheritancePlan(claimer, p, email, code)
      \/ \E entries \in Seq(EntryRecord) : BatchClaim(p, entries)
  BY DEF Claiming
<1>0. p \in Nat
  BY ArgumentAssumption DEF PlanId
<1>1. CASE \E claimer \in Address, email \in Email :
             \E code : ClaimInheritancePlan(claimer, p, email, code)
  <2>1. PICK claimer \in Address, email \in Email :
           \E code : ClaimInheritancePlan(claimer, p, email, code)
    BY <1>1
  <2>2. PICK code : ClaimInheritancePlan(claimer, p, email, code)
    BY <2>1
  <2>3. p \in DOMAIN plans /\ plans[p].is_active
    BY <1>0, <2>2, SingleGrant
  <2>4. PICK plan \in Plan :
          plans' = [plans EXCEPT ![p] = plan] /\ GrantedFrom(p, plan, claims')
    BY <1>0, <2>2, SingleGrant
  <2>5. UNCHANGED <<token, triggers>>
    BY <2>2 DEF ClaimInheritancePlan
  <2> QED BY <2>3, <2>4, <2>5
<1>2. CASE \E entries \in Seq(EntryRecord) : BatchClaim(p, entries)
  <2>1. PICK entries \in Seq(EntryRecord) : BatchClaim(p, entries)
    BY <1>2
  <2>2. p \in DOMAIN plans /\ plans[p].is_active /\ UNCHANGED <<token, triggers>>
    BY <1>0, <2>1, BatchGrant
  <2>3. PICK plan \in Plan :
          plans' = [plans EXCEPT ![p] = plan] /\ GrantedFrom(p, plan, claims')
    BY <1>0, <2>1, BatchGrant
  <2> QED BY <2>2, <2>3
<1> QED BY <1>1, <1>2

(* No other step grants one. *)
LEMMA OnlyClaimsGrant ==
  ASSUME TypeOK, Elsewhere \/ Edits \/ Listing
  PROVE  UNCHANGED claims
BY ListingPlans DEF Elsewhere, Edits, Edited, claimVars

(* A plan takes less only by an edit of it or by claims of it. *)
LEMMA FallsByEditOrClaim ==
  ASSUME TypeOK, TypeOK', [Next]_vars, NEW q \in DOMAIN plans,
         plans'[q].total_amount < plans[q].total_amount
  PROVE  \/ \E plan : Edited(q, plan) /\ plans'[q] = plan
         \/ GrantedFrom(q, plans'[q], claims') /\ UNCHANGED token
<1>0. plans[q].total_amount \in Nat
  BY PlanAmounts
<1>1. CASE Elsewhere
  BY <1>0, <1>1 DEF Elsewhere
<1>2. CASE Edits
  <2> PICK p, plan : Edited(p, plan)
    BY <1>2 DEF Edits
  <2>1. p \in DOMAIN plans /\ plans' = [plans EXCEPT ![p] = plan]
    BY DEF Edited
  <2>2. IF q = p THEN plans'[q] = plan ELSE plans'[q] = plans[q]
    BY <2>1, OnePlanEdited
  <2> QED BY <1>0, <2>2
<1>3. CASE Listing
  BY <1>0, <1>3, ListingPlans
<1>4. CASE Claiming
  <2>1. PICK p \in DOMAIN plans : \E plan \in Plan :
           /\ plans' = [plans EXCEPT ![p] = plan]
           /\ GrantedFrom(p, plan, claims')
    BY <1>4, GrantsFromOnePlan
  <2>2. PICK plan \in Plan :
           plans' = [plans EXCEPT ![p] = plan] /\ GrantedFrom(p, plan, claims')
    BY <2>1
  <2>3. IF q = p THEN plans'[q] = plan ELSE plans'[q] = plans[q]
    BY <2>2, OnePlanEdited
  <2> QED BY <1>0, <1>4, <2>2, <2>3, GrantsFromOnePlan
<1> QED BY <1>1, <1>2, <1>3, <1>4, StepKinds

-----------------------------------------------------------------------------
(* The theorems about payments. *)

(* In the day after an activation neither a withdrawal nor a claim, single *)
(* or of a batch, takes more than a tenth of what the plan holds.          *)
THEOREM CooldownLimits == Spec => CooldownLimitsEachPayment
<1> DEFINE Limited(p) ==
      IsEmergencyActive(p) =>
         LET limit == Share(plans[p].total_amount, EMERGENCY_TRANSFER_LIMIT_BP)
         IN  /\ \A key \in DOMAIN claims' \ DOMAIN claims :
                  key[1] = p => claims'[key].payout <= limit
             /\ plans'[p].total_amount < plans[p].total_amount =>
                  token[Contract] - token'[Contract] <= limit
<1>1. ASSUME TypeOK, TypeOK', [Next]_vars, NEW q \in DOMAIN plans PROVE Limited(q)
  <2> SUFFICES ASSUME IsEmergencyActive(q)
               PROVE  /\ \A key \in DOMAIN claims' \ DOMAIN claims :
                           key[1] = q => claims'[key].payout <= Limit(plans[q])
                      /\ plans'[q].total_amount < plans[q].total_amount =>
                           token[Contract] - token'[Contract] <= Limit(plans[q])
    BY DEF Limit
  <2>1. Limit(plans[q]) \in Nat /\ token[Contract] \in Nat /\ token'[Contract] \in Nat
    <3>1. plans[q].total_amount \in Nat /\ EMERGENCY_TRANSFER_LIMIT_BP \in Nat
      BY <1>1, PlanAmounts DEF EMERGENCY_TRANSFER_LIMIT_BP
    <3>2. Limit(plans[q]) \in Nat
      BY <3>1, ShareTyped DEF Limit
    <3> QED BY <1>1, <3>2 DEF TypeOK
  <2>2. ASSUME NEW key \in DOMAIN claims' \ DOMAIN claims, key[1] = q
        PROVE  claims'[key].payout <= Limit(plans[q])
    <3>1. Claiming
      BY <1>1, <2>2, StepKinds, OnlyClaimsGrant
    <3>2. PICK p \in DOMAIN plans : \E plan \in Plan : GrantedFrom(p, plan, claims')
      BY <1>1, <3>1, GrantsFromOnePlan
    <3>3. PICK plan \in Plan : GrantedFrom(p, plan, claims')
      BY <3>2
    <3>4. p = q
      BY <2>2, <3>3 DEF GrantedFrom, OnlyNewClaims
    <3>5. key \in DOMAIN Fresh(claims') /\ Fresh(claims')[key] = claims'[key].payout
      BY <2>2 DEF Fresh
    <3> QED BY <3>3, <3>4, <3>5 DEF GrantedFrom
  <2>3. ASSUME plans'[q].total_amount < plans[q].total_amount
        PROVE  token[Contract] - token'[Contract] <= Limit(plans[q])
    <3>1. CASE UNCHANGED token
      BY <2>1, <3>1
    <3>2. CASE ~UNCHANGED token
      <4>1. PICK plan : Edited(q, plan) /\ plans'[q] = plan
        BY <1>1, <2>3, <3>2, FallsByEditOrClaim
      <4>2. PaidIn(q, plan) \/ PaidOut(q, plan)
        BY <3>2, <4>1 DEF Edited, Booked, NewlyTriggered, Unmoved, WrittenOff
      <4>3. ~PaidIn(q, plan)
        <5>1. plans[q].total_amount \in Nat
          BY <1>1, PlanAmounts
        <5> QED BY <2>3, <4>1, <5>1 DEF PaidIn
      <4>4. PICK amount \in Nat \ {0} :
               /\ WithinEmergencyLimit(q, plans[q], amount)
               /\ token'[Contract] = token[Contract] - amount
        BY <4>2, <4>3 DEF PaidOut
      <4>5. amount <= Limit(plans[q])
        BY <4>4 DEF WithinEmergencyLimit, Limit
      <4> QED BY <2>1, <4>4, <4>5
    <3> QED BY <3>1, <3>2
  <2> QED BY <2>2, <2>3
<1>2. TypeOK /\ TypeOK' /\ [Next]_vars => [\A p \in DOMAIN plans : Limited(p)]_vars
  <2> HIDE DEF Limited
  <2> QED BY <1>1
<1> QED BY <1>2, TypesAreKept, PTL DEF Spec, CooldownLimitsEachPayment

(* What a plan records falls by grants, by payments to its owner and by    *)
(* write-offs of its loans, and in no other way.                           *)
THEOREM FallsHaveReasons == Spec => AmountFallsForAReason
<1> DEFINE Explained(p) ==
       plans'[p].total_amount < plans[p].total_amount =>
         \/ plans[p].total_amount - plans'[p].total_amount =
              LET new == {key \in DOMAIN claims' \ DOMAIN claims : key[1] = p}
              IN  Total([key \in new |-> claims'[key].payout])
         \/ plans[p].total_amount - plans'[p].total_amount =
              token'[plans[p].owner] - token[plans[p].owner]
         \/ Triggered(p) /\ plans[p].total_loaned > 0 /\ plans'[p].total_loaned = 0
<1>1. ASSUME TypeOK, TypeOK', [Next]_vars, NEW q \in DOMAIN plans PROVE Explained(q)
  <2> SUFFICES ASSUME plans'[q].total_amount < plans[q].total_amount PROVE Explained(q)
    OBVIOUS
  <2>0. /\ plans[q].total_amount \in Nat /\ plans[q].owner \in Address
        /\ token[plans[q].owner] \in Nat
    BY <1>1, PlanAmounts DEF TypeOK, Plan
  <2>1. ASSUME GrantedFrom(q, plans'[q], claims') PROVE Explained(q)
    <3> DEFINE new == {key \in DOMAIN claims' \ DOMAIN claims : key[1] = q}
    <3>1. new = DOMAIN claims' \ DOMAIN claims
      BY <2>1 DEF GrantedFrom, OnlyNewClaims
    <3>2. Fresh(claims') = [key \in new |-> claims'[key].payout]
      BY <3>1 DEF Fresh
    <3>3. Total(Fresh(claims')) \in Int
      BY <2>1, TotalIsInt DEF GrantedFrom
    <3>4. plans[q].total_amount - plans'[q].total_amount = Total(Fresh(claims'))
      BY <2>0, <2>1, <3>3 DEF GrantedFrom
    <3> QED BY <3>2, <3>4
  <2>2. ASSUME NEW plan, Edited(q, plan), plans'[q] = plan PROVE Explained(q)
    <3>1. PaidOut(q, plan) \/ WrittenOff(q, plan)
      BY <2>0, <2>2 DEF Edited, Booked, NewlyTriggered, Unmoved, PaidIn
    <3>2. ASSUME PaidOut(q, plan) PROVE Explained(q)
      <4>1. PICK amount \in Nat :
               /\ plan.total_amount = plans[q].total_amount - amount
               /\ token'[plans[q].owner] = token[plans[q].owner] + amount
        BY <3>2 DEF PaidOut
      <4>2. plans[q].total_amount - plans'[q].total_amount = amount
        BY <2>0, <2>2, <4>1
      <4>3. token'[plans[q].owner] - token[plans[q].owner] = amount
        BY <2>0, <4>1
      <4> QED BY <4>2, <4>3
    <3>3. ASSUME WrittenOff(q, plan) PROVE Explained(q)
      BY <2>2, <3>3 DEF WrittenOff
    <3> QED BY <3>1, <3>2, <3>3
  <2> HIDE DEF Explained
  <2> QED BY <1>1, <2>1, <2>2, FallsByEditOrClaim
<1>2. TypeOK /\ TypeOK' /\ [Next]_vars => [\A p \in DOMAIN plans : Explained(p)]_vars
  <2> HIDE DEF Explained
  <2> QED BY <1>1
<1> QED BY <1>2, TypesAreKept, PTL DEF Spec, AmountFallsForAReason

-----------------------------------------------------------------------------
(* The ledger. *)

Closed == {p \in DOMAIN plans : ~plans[p].is_active}

(* The sums of the ledger and of the contract are the same. *)
LEMMA SameSums == ASSUME NEW f PROVE Ledger!Total(f) = Total(f)
BY DEF Ledger!Total, Total, Ledger!Fold!SumFunction, Fold!SumFunction,
   Ledger!Fold!SumFunctionOnSet, Fold!SumFunctionOnSet, Ledger!Fold!FoldFunctionOnSet,
   Fold!FoldFunctionOnSet, Ledger!Fold!MapThenFoldSet, Fold!MapThenFoldSet

(* And so are its finite sets. *)
LEMMA SameFinite == ASSUME NEW S PROVE Ledger!IsFiniteSet(S) = IsFiniteSet(S)
BY DEF Ledger!IsFiniteSet, IsFiniteSet

(* When the five parts of the ledger stay, so does the ledger. *)
LEMMA LedgerStays ==
  ASSUME token'[Contract] = token[Contract], Amounts' = Amounts,
         Payouts(claims)' = Payouts(claims), SameTriggers, Closed' = Closed
  PROVE  UNCHANGED Ledger!ledgerVars
BY DEF Ledger!ledgerVars, Amounts, Payouts, SameTriggers, Closed

(* What an edit of one plan does to the funds and the closed plans. *)
LEMMA EditedFunds ==
  ASSUME TypeOK, NEW p, NEW plan, Edited(p, plan)
  PROVE  /\ p \in DOMAIN plans /\ DOMAIN plans' = DOMAIN plans
         /\ plans[p].total_amount \in Nat /\ plan.total_amount \in Nat
         /\ plans'[p].total_amount = plan.total_amount
         /\ \A q \in DOMAIN plans \ {p} : plans'[q].total_amount = plans[q].total_amount
         /\ Closed' = Closed /\ Payouts(claims)' = Payouts(claims)
         /\ token[Contract] \in Nat
         /\ plan.total_amount = plans[p].total_amount => Amounts' = Amounts
<1>1. /\ p \in DOMAIN plans /\ plan \in Plan /\ plans' = [plans EXCEPT ![p] = plan]
      /\ plan.is_active = plans[p].is_active /\ UNCHANGED claims
  BY DEF Edited, SameOwner, claimVars
<1>2. DOMAIN plans' = DOMAIN plans /\ plans'[p] = plan
      /\ \A q \in DOMAIN plans \ {p} : plans'[q] = plans[q]
  BY <1>1, OnePlanEdited
<1>3. Closed' = Closed
  BY <1>1, <1>2 DEF Closed
<1>4. Payouts(claims)' = Payouts(claims)
  BY <1>1 DEF Payouts
<1>5. plans[p].total_amount \in Nat /\ plan.total_amount \in Nat
  BY <1>1, PlanAmounts, AmountAssumption DEF Plan
<1>6. plan.total_amount = plans[p].total_amount => Amounts' = Amounts
  BY <1>1, <1>2 DEF Amounts
<1> QED BY <1>1, <1>2, <1>3, <1>4, <1>5, <1>6 DEF TypeOK

(* An edit is a credit, a debit, an inheritance, a write-off, or nothing.  *)
LEMMA EditIsLedgerStep ==
  ASSUME TypeOK, NEW p, NEW plan, Edited(p, plan)
  PROVE  [Ledger!LedgerNext]_(Ledger!ledgerVars)
<1>1. /\ p \in DOMAIN plans /\ DOMAIN plans' = DOMAIN plans
      /\ plans[p].total_amount \in Nat /\ plan.total_amount \in Nat
      /\ plans'[p].total_amount = plan.total_amount
      /\ \A q \in DOMAIN plans \ {p} : plans'[q].total_amount = plans[q].total_amount
      /\ Closed' = Closed /\ Payouts(claims)' = Payouts(claims)
      /\ token[Contract] \in Nat
      /\ plan.total_amount = plans[p].total_amount => Amounts' = Amounts
  BY EditedFunds
<1>2. CASE NewlyTriggered(p, plan)
  <2>1. /\ Amounts' = Amounts /\ token' = token /\ p \notin DOMAIN triggers
        /\ p \notin Closed /\ DOMAIN triggers' = DOMAIN triggers \cup {p}
    BY <1>1, <1>2 DEF NewlyTriggered, Unmoved, Triggered, Closed
  <2>2. Ledger!Inherit(p)
    BY <1>1, <2>1 DEF Ledger!Inherit, Closed, Amounts, Payouts
  <2> QED BY <1>1, <2>2 DEF Ledger!LedgerNext
<1>3. CASE SameTriggers /\ Unmoved(p, plan)
  BY <1>1, <1>3, LedgerStays DEF Unmoved
<1>4. CASE SameTriggers /\ PaidIn(p, plan)
  <2>1. PICK amount \in Nat \ {0} :
           /\ p \notin Closed /\ plan.total_amount = plans[p].total_amount + amount
           /\ token'[Contract] = token[Contract] + amount
    BY <1>4 DEF PaidIn, Closed
  <2>2. Ledger!Credit(p)
    BY <1>1, <1>4, <2>1
       DEF Ledger!Credit, Ledger!OthersKeep, Ledger!SameGrants, SameTriggers, Closed, Payouts
  <2> QED BY <1>1, <2>2 DEF Ledger!LedgerNext
<1>5. CASE SameTriggers /\ PaidOut(p, plan)
  <2>1. PICK amount \in Nat \ {0} :
           /\ plan.total_amount = plans[p].total_amount - amount
           /\ token'[Contract] = token[Contract] - amount
    BY <1>5 DEF PaidOut
  <2>2. Ledger!Debit(p)
    BY <1>1, <1>5, <2>1
       DEF Ledger!Debit, Ledger!OthersKeep, Ledger!SameGrants, SameTriggers, Closed, Payouts
  <2> QED BY <1>1, <2>2 DEF Ledger!LedgerNext
<1>6. CASE SameTriggers /\ WrittenOff(p, plan)
  <2>1. /\ p \in DOMAIN triggers /\ token' = token
        /\ plan.total_amount <= plans[p].total_amount
    BY <1>6 DEF WrittenOff, Triggered
  <2>2. Ledger!WriteOff(p)
    BY <1>1, <1>6, <2>1
       DEF Ledger!WriteOff, Ledger!OthersKeep, Ledger!SameGrants, SameTriggers, Closed, Payouts
  <2> QED BY <1>1, <2>2 DEF Ledger!LedgerNext
<1> QED BY <1>2, <1>3, <1>4, <1>5, <1>6 DEF Edited, Booked

(* A creation opens a plan.                                                *)
LEMMA CreationOpens ==
  ASSUME TypeOK, NEW owner \in Address, NEW amount \in CreateAmount, NEW method,
         NEW inputs, NEW lendable,
         CreateInheritancePlan(owner, amount, method, inputs, lendable)
  PROVE  Ledger!Open
<1> DEFINE fee == CreationFee(amount)  net == amount - fee  id == next_plan_id
<1>1. fee \in Nat /\ net \in Nat /\ net # 0
  <2>1. amount \in Nat
    BY ArgumentAssumption, AmountAssumption
  <2>2. fee \in 0..amount
    BY <2>1, CreationFeeBound
  <2>3. net # 0
    BY DEF CreateInheritancePlan
  <2> HIDE DEF fee
  <2> QED BY <2>1, <2>2, <2>3
<1>2. owner # Contract /\ admin # Contract
      /\ token \in [Address \cup {Contract} -> Nat] /\ admin \in Address
  BY AccountAssumption DEF CreateInheritancePlan, TypeOK
<1>3. token' = Transfer(Transfer(token, owner, admin, fee), owner, Contract, net)
  BY DEF CreateInheritancePlan
<1>4. /\ DOMAIN plans' = DOMAIN plans \cup {id}
      /\ plans'[id].total_amount = net /\ plans'[id].is_active
      /\ \A q \in DOMAIN plans : q # id => plans'[q] = plans[q]
      /\ UNCHANGED <<claims, triggers>>
  BY DEF CreateInheritancePlan, Put, claimVars
<1>5. id \notin DOMAIN plans
  BY DEF TypeOK
<1> HIDE DEF fee, net, id
<1>6. token'[Contract] = token[Contract] + net /\ token[Contract] \in Nat
  BY <1>1, <1>2, <1>3 DEF Transfer
<1>7. Closed' = Closed
  BY <1>4, <1>5 DEF Closed
<1>8. Ledger!SameGrants
  BY <1>4, <1>7 DEF Ledger!SameGrants, Closed
<1>9. \A q \in DOMAIN plans : plans'[q].total_amount = plans[q].total_amount
  BY <1>4, <1>5
<1> QED BY <1>1, <1>4, <1>5, <1>6, <1>8, <1>9 DEF Ledger!Open, Ledger!OthersKeep

(* A deactivation closes a plan, a transfer changes nothing of the ledger. *)
LEMMA ListingIsLedgerStep ==
  ASSUME TypeOK, Listing
  PROVE  [Ledger!LedgerNext]_(Ledger!ledgerVars)
<1>1. ASSUME NEW p, NEW owner, DeactivateInheritancePlan(owner, p)
      PROVE  Ledger!LedgerNext
  <2>1. /\ p \in DOMAIN plans /\ plans[p].is_active /\ plans[p] \in Plan
        /\ plans' = [plans EXCEPT ![p].is_active = FALSE]
        /\ UNCHANGED <<token, claims, triggers>>
    BY <1>1 DEF DeactivateInheritancePlan, OwnedBy, PlanExists, otherThanPlans, claimVars, TypeOK
  <2>2. /\ DOMAIN plans' = DOMAIN plans /\ ~plans'[p].is_active
        /\ \A q \in DOMAIN plans : plans'[q].total_amount = plans[q].total_amount
        /\ \A q \in DOMAIN plans \ {p} : plans'[q].is_active = plans[q].is_active
    BY <2>1 DEF TypeOK, Plan
  <2>3. Ledger!Close(p)
    BY <2>1, <2>2 DEF Ledger!Close
  <2> QED BY <2>1, <2>3 DEF Ledger!LedgerNext
<1>2. ASSUME NEW p, NEW owner, NEW new_owner, TransferPlanOwnership(owner, new_owner, p)
      PROVE  UNCHANGED Ledger!ledgerVars
  <2>1. /\ p \in DOMAIN plans /\ plans[p] \in Plan
        /\ plans' = [plans EXCEPT ![p].owner = new_owner]
        /\ UNCHANGED <<token, claims, triggers>>
    BY <1>2 DEF TransferPlanOwnership, OwnedBy, PlanExists, otherThanPlans, claimVars, TypeOK
  <2>2. /\ DOMAIN plans' = DOMAIN plans
        /\ \A q \in DOMAIN plans : plans'[q].total_amount = plans[q].total_amount
        /\ \A q \in DOMAIN plans : plans'[q].is_active = plans[q].is_active
    BY <2>1 DEF TypeOK, Plan
  <2>3. /\ Amounts' = Amounts /\ Closed' = Closed /\ Payouts(claims)' = Payouts(claims)
        /\ SameTriggers
    BY <2>1, <2>2 DEF Amounts, Closed, Payouts, SameTriggers
  <2> QED BY <2>1, <2>3, LedgerStays
<1>3. ASSUME NEW owner \in Address, NEW amount \in CreateAmount, NEW method,
             NEW inputs, NEW lendable,
             CreateInheritancePlan(owner, amount, method, inputs, lendable)
      PROVE  Ledger!LedgerNext
  BY <1>3, CreationOpens DEF Ledger!LedgerNext
<1> QED BY <1>1, <1>2, <1>3 DEF Listing

(* Claims are grants from one plan.                                        *)
LEMMA ClaimsAreLedgerSteps ==
  ASSUME TypeOK, TypeOK', Claiming
  PROVE  [Ledger!LedgerNext]_(Ledger!ledgerVars)
<1>1. PICK p \in DOMAIN plans : \E plan \in Plan :
         /\ plans[p].is_active
         /\ plans' = [plans EXCEPT ![p] = plan]
         /\ GrantedFrom(p, plan, claims')
  BY GrantsFromOnePlan
<1>2. PICK plan \in Plan : /\ plans[p].is_active
                           /\ plans' = [plans EXCEPT ![p] = plan]
                           /\ GrantedFrom(p, plan, claims')
  BY <1>1
<1>3. UNCHANGED <<token, triggers>>
  BY GrantsFromOnePlan
<1>4. DOMAIN plans' = DOMAIN plans /\ plans'[p] = plan
      /\ \A q \in DOMAIN plans \ {p} : plans'[q] = plans[q]
  BY <1>2, OnePlanEdited
<1>5. plan.is_active = plans[p].is_active /\ Closed' = Closed /\ p \notin Closed
  BY <1>2, <1>4 DEF GrantedFrom, SameTerms, SameOwner, Closed
<1>6. SameTriggers
  BY <1>3 DEF SameTriggers
<1> DEFINE new == DOMAIN claims' \ DOMAIN claims
<1>7. /\ plan.total_amount = plans[p].total_amount - Total(Fresh(claims'))
      /\ \A key \in DOMAIN claims : key \in DOMAIN claims' /\ claims'[key] = claims[key]
      /\ \A key \in new : key[1] = p
  BY <1>2 DEF GrantedFrom, OnlyNewClaims
<1>8. plan.total_amount \in Nat /\ plans[p].total_amount \in Nat
  BY <1>2, PlanAmounts, AmountAssumption DEF Plan
<1>9. CASE new = {}
  <2>1. plan.total_amount = plans[p].total_amount
    BY <1>2, <1>9, GrantNeeded
  <2>2. Amounts' = Amounts
    BY <1>4, <2>1 DEF Amounts
  <2>3. Payouts(claims)' = Payouts(claims)
    <3>1. DOMAIN claims' = DOMAIN claims
      BY <1>7, <1>9
    <3> QED BY <1>7, <3>1 DEF Payouts
  <2> QED BY <1>3, <1>5, <1>6, <2>2, <2>3, LedgerStays
<1>10. CASE new # {}
  <2>1. plans'[p].total_amount = plans[p].total_amount - Ledger!Total(Fresh(claims'))
    BY <1>4, <1>7, SameSums
  <2>2. Fresh(claims') = [key \in new |-> claims'[key].payout]
    BY DEF Fresh
  <2>3. /\ \A q \in DOMAIN plans \ {p} : plans'[q].total_amount = plans[q].total_amount
        /\ plans'[p].total_amount >= 0
    BY <1>4, <1>8
  <2>4. Ledger!OthersKeep(p)
    BY <1>4, <2>3 DEF Ledger!OthersKeep
  <2>5. UNCHANGED <<token[Contract], DOMAIN triggers, Closed>>
    BY <1>3, <1>5
  <2>8. IsFiniteSet(new) /\ \A key \in new : claims'[key].payout \in Nat
    <3>1. IsFiniteSet(new)
      BY <1>2, <2>2 DEF GrantedFrom, IntMap
    <3>2. \A key \in new : claims'[key] \in ClaimRecord
      BY DEF TypeOK, IsMap
    <3> QED BY <3>1, <3>2 DEF ClaimRecord
  <2> DEFINE paid == [key \in DOMAIN claims' |-> claims'[key].payout]
  <2>6. Fresh(claims') = [key \in new |-> paid[key]]
    BY <2>2
  <2>9. DOMAIN paid = DOMAIN claims' /\ DOMAIN Payouts(claims) = DOMAIN claims
    BY DEF Payouts
  <2>10. Ledger!IsFiniteSet(DOMAIN paid \ DOMAIN Payouts(claims))
    BY <2>8, <2>9, SameFinite
  <2>11. \A key \in new : key[1] = p /\ paid[key] \in Nat
    BY <1>7, <2>8
  <2>7. Ledger!Grant(p)
    BY <1>4, <1>5, <1>7, <1>10, <2>1, <2>3, <2>4, <2>5, <2>6, <2>9, <2>10, <2>11
       DEF Ledger!Grant, Closed, Payouts
  <2> QED BY <2>7 DEF Ledger!LedgerNext
<1> QED BY <1>9, <1>10

(* The contract implements the ledger: however calls are mixed, money      *)
(* enters and leaves a plan only in the ways the ledger allows, an heir is *)
(* granted once, and never from a plan that is closed.                     *)
THEOREM LedgerImplemented == Spec => ImplementsLedger
<1>1. Init => Ledger!LedgerInit
  BY DEF Init, EmptyMap, Ledger!LedgerInit
<1>2. TypeOK /\ TypeOK' /\ [Next]_vars => [Ledger!LedgerNext]_(Ledger!ledgerVars)
  <2> SUFFICES ASSUME TypeOK, TypeOK', [Next]_vars
               PROVE  [Ledger!LedgerNext]_(Ledger!ledgerVars)
    OBVIOUS
  <2>1. CASE Elsewhere
    <3>1. UNCHANGED <<plans, token, triggers, claims>>
      BY <2>1 DEF Elsewhere, claimVars
    <3>2. /\ Amounts' = Amounts /\ Closed' = Closed /\ Payouts(claims)' = Payouts(claims)
          /\ SameTriggers
      BY <3>1 DEF Amounts, Closed, Payouts, SameTriggers
    <3> QED BY <3>1, <3>2, LedgerStays
  <2> QED BY <2>1, StepKinds, EditIsLedgerStep, ListingIsLedgerStep, ClaimsAreLedgerSteps
          DEF Edits
<1> QED BY <1>1, <1>2, TypesAreKept, PTL DEF Spec, ImplementsLedger, Ledger!LedgerSpec

-----------------------------------------------------------------------------
(* What the ledger promises by itself. *)

(* What is on record and what is granted are backed by what is in escrow.  *)
FundsBacked(funds, granted, held) ==
  /\ IsFiniteSet(DOMAIN funds) /\ \A p \in DOMAIN funds : funds[p] \in Nat
  /\ IsFiniteSet(DOMAIN granted) /\ \A key \in DOMAIN granted : granted[key] \in Nat
  /\ held \in Int
  /\ Total(funds) + Total(granted) <= held

(* One fund is opened or changed, and the escrow by no less.               *)
LEMMA OneFundMoves ==
  ASSUME NEW funds, NEW granted, NEW held, FundsBacked(funds, granted, held),
         NEW p, NEW new, NEW now_held \in Int,
         DOMAIN new = DOMAIN funds \cup {p}, new[p] \in Nat,
         \A q \in DOMAIN funds \ {p} : new[q] = funds[q],
         now_held >= held + (new[p] - Stored(funds, p, 0))
  PROVE  FundsBacked(new, granted, now_held)
<1>1. /\ IsFiniteSet(DOMAIN new) /\ \A q \in DOMAIN new : new[q] \in Nat
      /\ IntMap(funds) /\ IntMap(new) /\ IntMap(granted)
  <2>1. IsFiniteSet(DOMAIN new)
    BY FS_AddElement DEF FundsBacked
  <2>2. \A q \in DOMAIN new : new[q] \in Nat
    BY DEF FundsBacked
  <2> QED BY <2>1, <2>2 DEF FundsBacked, IntMap
<1>2. DOMAIN funds \ {p} = DOMAIN new \ {p}
  OBVIOUS
<1>3. /\ Total(funds) \in Int /\ Total(new) \in Int
      /\ Total(new) - Stored(new, p, 0) = Total(funds) - Stored(funds, p, 0)
  BY <1>1, <1>2, TotalChanges
<1>4. Total(granted) \in Int
  BY <1>1, TotalIsInt
<1>5. Stored(new, p, 0) = new[p] /\ Stored(funds, p, 0) \in Nat
  BY DEF Stored, FundsBacked
<1>6. Total(new) + Total(granted) <= now_held
  BY <1>3, <1>4, <1>5 DEF FundsBacked
<1> QED BY <1>1, <1>6 DEF FundsBacked

(* Grants are made out of one fund.                                        *)
LEMMA OneFundGrants ==
  ASSUME NEW funds, NEW granted, NEW held, FundsBacked(funds, granted, held),
         NEW p \in DOMAIN funds, NEW new, NEW more,
         granted = [key \in DOMAIN granted |-> granted[key]],
         DOMAIN new = DOMAIN funds,
         \A q \in DOMAIN funds \ {p} : new[q] = funds[q],
         \A key \in DOMAIN granted : key \in DOMAIN more /\ more[key] = granted[key],
         IsFiniteSet(DOMAIN more \ DOMAIN granted),
         \A key \in DOMAIN more \ DOMAIN granted : more[key] \in Nat,
         new[p] = funds[p] - Total(Portion(more, DOMAIN more \ DOMAIN granted)),
         new[p] >= 0
  PROVE  FundsBacked(new, more, held)
<1> DEFINE D == DOMAIN granted
           given == Total(Portion(more, DOMAIN more \ D))
<1>1. IsFiniteSet(DOMAIN more)
  <2>1. DOMAIN more = D \cup (DOMAIN more \ D)
    OBVIOUS
  <2>2. IsFiniteSet(D) /\ IsFiniteSet(DOMAIN more \ D)
    BY DEF FundsBacked
  <2>3. IsFiniteSet(D \cup (DOMAIN more \ D))
    BY <2>2, FS_Union
  <2> QED BY <2>1, <2>3, Zenon
<1>2. \A key \in DOMAIN more : more[key] \in Nat
  BY DEF FundsBacked
<1>3. IntMap(more) /\ IntMap(funds) /\ D \subseteq DOMAIN more
  BY <1>1, <1>2 DEF IntMap, FundsBacked
<1>4. Portion(more, D) = granted
  BY DEF Portion
<1>5. /\ Total(granted) \in Int /\ given \in Int
      /\ Total(more) = given + Total(granted)
  BY <1>3, <1>4, PortionsTotal
<1> HIDE DEF D, given
<1>6. funds[p] \in Nat /\ new[p] = funds[p] - given /\ new[p] \in Nat
  BY <1>5 DEF FundsBacked, given, D
<1>7. IntMap(new) /\ \A q \in DOMAIN new : new[q] \in Nat
  BY <1>6 DEF FundsBacked, IntMap
<1>8. /\ Total(funds) \in Int /\ Total(new) \in Int
      /\ Total(new) - Stored(new, p, 0) = Total(funds) - Stored(funds, p, 0)
  BY <1>3, <1>7, TotalChanges
<1>9. Stored(new, p, 0) = new[p] /\ Stored(funds, p, 0) = funds[p]
  BY DEF Stored
<1>10. Total(new) + Total(more) <= held
  BY <1>5, <1>6, <1>8, <1>9 DEF FundsBacked
<1> QED BY <1>1, <1>2, <1>7, <1>10 DEF FundsBacked, IntMap

LedgerBacked == FundsBacked(Amounts, Payouts(claims), token[Contract])

(* Every step of the ledger keeps what is promised backed.                 *)
LEMMA LedgerKeepsBacked ==
  ASSUME LedgerBacked, [Ledger!LedgerNext]_(Ledger!ledgerVars)
  PROVE  LedgerBacked'
<1> DEFINE held  == token[Contract]
           moves(p) == /\ DOMAIN Amounts' = DOMAIN Amounts \cup {p}
                       /\ \A q \in DOMAIN Amounts \ {p} : Amounts'[q] = Amounts[q]
<1>0. Amounts = [p \in DOMAIN plans |-> plans[p].total_amount]
      /\ Payouts(claims) = [key \in DOMAIN claims |-> claims[key].payout]
  BY DEF Amounts, Payouts
<1>1. /\ DOMAIN Amounts = DOMAIN plans /\ DOMAIN Amounts' = DOMAIN plans'
      /\ DOMAIN Payouts(claims) = DOMAIN claims /\ DOMAIN Payouts(claims)' = DOMAIN claims'
      /\ Payouts(claims) = [key \in DOMAIN Payouts(claims) |-> Payouts(claims)[key]]
  BY DEF Amounts, Payouts
<1>2. ASSUME NEW p, moves(p), Amounts'[p] \in Nat, Payouts(claims)' = Payouts(claims),
             held' \in Int, held' >= held + (Amounts'[p] - Stored(Amounts, p, 0))
      PROVE  LedgerBacked'
  <2>1. FundsBacked(Amounts, Payouts(claims), held)
    BY DEF LedgerBacked
  <2> HIDE DEF held
  <2>2. FundsBacked(Amounts', Payouts(claims), held')
    BY <1>2, <2>1, OneFundMoves
  <2> QED BY <1>2, <2>2 DEF LedgerBacked, held
<1>3. held \in Int /\ \A p \in DOMAIN Amounts : Amounts[p] \in Nat
  BY DEF LedgerBacked, FundsBacked
<1>4. CASE Ledger!Open
  <2> PICK p \in DOMAIN Amounts' \ DOMAIN Amounts :
        /\ DOMAIN Amounts' = DOMAIN Amounts \cup {p}
        /\ \A q \in DOMAIN Amounts \ {p} : Amounts'[q] = Amounts[q]
        /\ Amounts'[p] \in Nat
        /\ held' = held + Amounts'[p]
        /\ Payouts(claims)' = Payouts(claims)
    BY <1>4 DEF Ledger!Open, Ledger!OthersKeep, Ledger!SameGrants, Amounts, Payouts
  <2>1. Stored(Amounts, p, 0) = 0
    BY DEF Stored
  <2> HIDE DEF held
  <2> QED BY <1>2, <1>3, <2>1
<1>5. ASSUME NEW p \in DOMAIN plans,
             Ledger!Credit(p) \/ Ledger!Debit(p) \/ Ledger!WriteOff(p)
      PROVE  LedgerBacked'
  <2>1. /\ DOMAIN Amounts' = DOMAIN Amounts
        /\ \A q \in DOMAIN Amounts \ {p} : Amounts'[q] = Amounts[q]
        /\ Payouts(claims)' = Payouts(claims)
    BY <1>5 DEF Ledger!Credit, Ledger!Debit, Ledger!WriteOff, Ledger!OthersKeep,
         Ledger!SameGrants, Amounts, Payouts
  <2>2. Stored(Amounts, p, 0) = Amounts[p] /\ Amounts[p] \in Nat /\ p \in DOMAIN Amounts
    BY <1>1, <1>3 DEF Stored
  <2> DEFINE Follows == /\ Amounts'[p] \in Nat /\ held' \in Int
                        /\ held' >= held + (Amounts'[p] - Amounts[p])
  <2>3. ASSUME Ledger!Credit(p) PROVE Follows
    <3>1. Amounts'[p] \in Nat /\ held' = held + (Amounts'[p] - Amounts[p])
      BY <2>3 DEF Ledger!Credit, Amounts
    <3> HIDE DEF held
    <3> QED BY <1>3, <2>2, <3>1
  <2>4. ASSUME Ledger!Debit(p) PROVE Follows
    <3>1. Amounts'[p] \in 0..(Amounts[p] - 1) /\ held' = held - (Amounts[p] - Amounts'[p])
      BY <2>4 DEF Ledger!Debit, Amounts
    <3> HIDE DEF held
    <3> QED BY <1>3, <2>2, <3>1
  <2>5. ASSUME Ledger!WriteOff(p) PROVE Follows
    <3>1. Amounts'[p] \in 0..Amounts[p] /\ held' = held
      BY <2>5 DEF Ledger!WriteOff, Amounts
    <3> HIDE DEF held
    <3> QED BY <1>3, <2>2, <3>1
  <2>6. Follows
    <3> HIDE DEF Follows
    <3> QED BY <1>5, <2>3, <2>4, <2>5
  <2> HIDE DEF held
  <2> QED BY <1>2, <2>1, <2>2, <2>6
<1>6. ASSUME NEW p \in DOMAIN plans, Ledger!Grant(p) PROVE LedgerBacked'
  <2> DEFINE paid == Payouts(claims)  more == Payouts(claims)'
             new == DOMAIN more \ DOMAIN paid
  <2>0. new = DOMAIN [key \in DOMAIN claims' |-> claims'[key].payout]
              \ DOMAIN [key \in DOMAIN claims |-> claims[key].payout]
    BY DEF Payouts
  <2>5. IsFiniteSet(new)
    BY <1>6, SameFinite DEF Ledger!Grant, Payouts
  <2>6. Amounts'[p] = Amounts[p] - Ledger!Total([key \in new |-> more[key]])
    BY <1>6, <2>0 DEF Ledger!Grant, Amounts, Payouts
  <2>1. /\ DOMAIN Amounts' = DOMAIN Amounts /\ p \in DOMAIN Amounts
        /\ \A q \in DOMAIN Amounts \ {p} : Amounts'[q] = Amounts[q]
        /\ \A key \in new : more[key] \in Nat
        /\ \A key \in DOMAIN paid : key \in DOMAIN more /\ more[key] = paid[key]
        /\ Amounts'[p] >= 0
        /\ held' = held
    BY <1>6 DEF Ledger!Grant, Ledger!OthersKeep, Amounts, Payouts
  <2>2. Amounts'[p] = Amounts[p] - Total(Portion(more, new))
    BY <2>6, SameSums DEF Portion
  <2>3. FundsBacked(Amounts, paid, held) /\ paid = [key \in DOMAIN paid |-> paid[key]]
    BY <1>1 DEF LedgerBacked
  <2> HIDE DEF held, paid, more
  <2>4. FundsBacked(Amounts', more, held)
    BY <2>1, <2>2, <2>3, <2>5, OneFundGrants
  <2> QED BY <2>1, <2>4 DEF LedgerBacked, held, paid, more
<1>7. CASE Amounts' = Amounts /\ Payouts(claims)' = Payouts(claims) /\ held' = held
  BY <1>7 DEF LedgerBacked
<1>8. ASSUME NEW p, Ledger!Inherit(p) \/ Ledger!Close(p) \/ UNCHANGED Ledger!ledgerVars
      PROVE  Amounts' = Amounts /\ Payouts(claims)' = Payouts(claims) /\ held' = held
  BY <1>8 DEF Ledger!Inherit, Ledger!Close, Ledger!ledgerVars, Amounts, Payouts
<1> HIDE DEF held
<1> QED BY <1>1, <1>4, <1>5, <1>6, <1>7, <1>8 DEF Ledger!LedgerNext

(* Whatever implements the ledger has in escrow what its plans record and  *)
(* what heirs were granted: the promise needs nothing of the contract but  *)
(* the steps of the ledger.                                                *)
THEOREM LedgerBacksEstates == ImplementsLedger => []EscrowBacksPlans
<1>1. Ledger!LedgerInit => LedgerBacked
  <2> SUFFICES ASSUME Ledger!LedgerInit PROVE LedgerBacked
    OBVIOUS
  <2>1. DOMAIN Amounts = {} /\ DOMAIN Payouts(claims) = {} /\ token[Contract] = 0
    BY DEF Ledger!LedgerInit, Amounts, Payouts
  <2>2. Total(Amounts) = 0 /\ Total(Payouts(claims)) = 0
    BY <2>1, TotalOfNothing
  <2> QED BY <2>1, <2>2, FS_EmptySet DEF LedgerBacked, FundsBacked
<1>2. LedgerBacked /\ [Ledger!LedgerNext]_(Ledger!ledgerVars) => LedgerBacked'
  BY LedgerKeepsBacked
<1>3. LedgerBacked => EscrowBacksPlans
  BY DEF LedgerBacked, FundsBacked, Amounts, Payouts, EscrowBacksPlans
<1> QED BY <1>1, <1>2, <1>3, PTL DEF ImplementsLedger, Ledger!LedgerSpec

-----------------------------------------------------------------------------
(* Approvals and triggers. *)

(* Emergency operations alone write to the guards, and calls on triggers   *)
(* alone to the triggers.                                                  *)
LEMMA OthersFrame ==
  [Next]_vars => /\ EmergencyNext \/ UNCHANGED guardVars
                 /\ TriggerNext \/ UNCHANGED triggers
<1> SUFFICES ASSUME [Next]_vars
             PROVE  /\ EmergencyNext \/ UNCHANGED guardVars
                    /\ TriggerNext \/ UNCHANGED triggers
  OBVIOUS
<1>1. CASE AdminNext
  BY <1>1, AdminFrame DEF otherThanAccess
<1>2. CASE PlanNext
  <2>1. ASSUME NEW owner, NEW amount, NEW method, NEW inputs, NEW lendable,
               CreateInheritancePlan(owner, amount, method, inputs, lendable)
        PROVE  UNCHANGED <<guardVars, triggers>>
    BY <2>1 DEF CreateInheritancePlan
  <2>2. UNCHANGED otherThanPlans => UNCHANGED <<guardVars, triggers>>
    BY DEF otherThanPlans
  <2> QED BY <1>2, <2>1, <2>2, PlanFrame
<1>3. CASE ClaimNext
  <2>1. ASSUME NEW e, NEW p, ClaimInheritancePlan(e.claimer, p, e.email, e.claim_code)
        PROVE  UNCHANGED <<guardVars, triggers>>
    BY <2>1 DEF ClaimInheritancePlan
  <2>2. ASSUME NEW p, NEW entries, BatchClaim(p, entries)
        PROVE  UNCHANGED <<guardVars, triggers>>
    BY <2>2 DEF BatchClaim
  <2> QED BY <1>3, <2>1, <2>2 DEF ClaimNext
<1>4. CASE TriggerNext
  BY <1>4, TriggerFrame DEF otherThanTrigger
<1>5. CASE EmergencyNext
  BY <1>5, EmergencyStep DEF otherThanGuards
<1>6. CASE Tick
  BY <1>6 DEF Tick, Advance
<1>7. CASE UNCHANGED vars
  BY <1>7 DEF vars
<1> QED BY <1>1, <1>2, <1>3, <1>4, <1>5, <1>6, <1>7 DEF Next

(* A list without repetition names as many accounts as it is long. *)
LEMMA DistinctCounted ==
  ASSUME NEW s \in Seq(Address), Distinct(s)
  PROVE  Cardinality({s[i] : i \in DOMAIN s}) = Len(s)
<1> DEFINE S == {s[i] : i \in DOMAIN s}
<1>1. Len(s) \in Nat /\ DOMAIN s = 1..Len(s) /\ s = [i \in 1..Len(s) |-> s[i]]
  OBVIOUS
<1>2. s \in Bijection(1..Len(s), S)
  <2>1. s \in [1..Len(s) -> S]
    BY <1>1
  <2>2. \A t \in S : \E i \in 1..Len(s) : s[i] = t
    BY <1>1
  <2>3. \A a, b \in 1..Len(s) : s[a] = s[b] => a = b
    BY <1>1 DEF Distinct
  <2> HIDE DEF S
  <2>4. s \in Injection(1..Len(s), S)
    BY <2>1, <2>3 DEF Injection, IsInjective
  <2>5. s \in Surjection(1..Len(s), S)
    BY <2>1, <2>2 DEF Surjection
  <2> QED BY <2>4, <2>5 DEF Bijection
<1>3. ExistsBijection(1..Len(s), S)
  BY <1>2 DEF ExistsBijection
<1> HIDE DEF S
<1>4. Cardinality(S) = Len(s)
  BY <1>1, <1>3, FS_CountingElements
<1> QED BY <1>4 DEF S

(* No guardian is counted twice. *)
ApprovalsDistinct == \A key \in DOMAIN approvals : Distinct(approvals[key])

(* An approval of a guardian who had not approved yet. *)
LEMMA ApprovalAdds ==
  ASSUME TypeOK, ApprovalsDistinct, NEW guardian \in Address, NEW p, NEW contact,
         ApproveEmergencyAccess(guardian, p, contact)
  PROVE  LET given == approvals'[<<p, contact>>]
         IN  /\ given \in Seq(Address) /\ Distinct(given)
             /\ DOMAIN approvals' = DOMAIN approvals \cup {<<p, contact>>}
             /\ \A key \in DOMAIN approvals : key # <<p, contact>> => approvals'[key] = approvals[key]
             /\ emergency' = IF Len(given) >= guardians[p].threshold
                             THEN Put(emergency, p, NewEmergencyRecord(contact))
                             ELSE emergency
<1> DEFINE old == ApprovalsFor(p, contact)
           given == Append(old, guardian)
<1>1. old \in Seq(Address) /\ Distinct(old)
  <2>1. CASE <<p, contact>> \in DOMAIN approvals
    BY <2>1 DEF ApprovalsFor, TypeOK, IsMap, ApprovalsDistinct
  <2>2. CASE <<p, contact>> \notin DOMAIN approvals
    <3>1. old = << >>
      BY <2>2 DEF ApprovalsFor
    <3> QED BY <3>1 DEF Distinct
  <2> QED BY <2>1, <2>2
<1>2. /\ ~InSeq(old, guardian) /\ approvals' = Put(approvals, <<p, contact>>, given)
      /\ emergency' = IF Len(given) >= guardians[p].threshold
                      THEN Put(emergency, p, NewEmergencyRecord(contact)) ELSE emergency
  BY DEF ApproveEmergencyAccess
<1> HIDE DEF old
<1>3. given \in Seq(Address) /\ Distinct(given)
  <2>1. /\ Len(old) \in Nat /\ DOMAIN old = 1..Len(old) /\ DOMAIN given = 1..(Len(old) + 1)
        /\ given[Len(old) + 1] = guardian /\ \A i \in 1..Len(old) : given[i] = old[i]
    BY <1>1
  <2>2. given \in Seq(Address)
    BY <1>1
  <2> HIDE DEF given
  <2> QED BY <1>1, <1>2, <2>1, <2>2 DEF Distinct, InSeq
<1> HIDE DEF given
<1>4. approvals'[<<p, contact>>] = given
  BY <1>2 DEF Put
<1> QED BY <1>2, <1>3, <1>4 DEF Put

(* Emergency operations other than an approval leave the approvals alone.  *)
LEMMA ApprovalOrNone ==
  ASSUME EmergencyNext
  PROVE  \/ UNCHANGED approvals
         \/ \E p \in PlanId, guardian \in Address, contact \in Contact :
              ApproveEmergencyAccess(guardian, p, contact)
BY DEF EmergencyNext, ActivateEmergencyAccess, AddEmergencyContact, RemoveEmergencyContact,
       DeactivateEmergencyAccess, GetEmergencyAccess, SetGuardians

(* A guardian is counted once, in every list of approvals. *)
LEMMA ApprovalsStayDistinct == Spec => []ApprovalsDistinct
<1>1. Init => ApprovalsDistinct
  BY DEF Init, EmptyMap, ApprovalsDistinct
<1>2. TypeOK /\ ApprovalsDistinct /\ [Next]_vars => ApprovalsDistinct'
  <2> SUFFICES ASSUME TypeOK, ApprovalsDistinct, [Next]_vars PROVE ApprovalsDistinct'
    OBVIOUS
  <2>1. CASE UNCHANGED approvals
    BY <2>1 DEF ApprovalsDistinct
  <2>2. ASSUME NEW p \in PlanId, NEW guardian \in Address, NEW contact \in Contact,
               ApproveEmergencyAccess(guardian, p, contact)
        PROVE  ApprovalsDistinct'
    <3>1. /\ Distinct(approvals'[<<p, contact>>])
          /\ DOMAIN approvals' = DOMAIN approvals \cup {<<p, contact>>}
          /\ \A key \in DOMAIN approvals :
               key # <<p, contact>> => approvals'[key] = approvals[key]
      BY <2>2, ApprovalAdds
    <3> QED BY <3>1 DEF ApprovalsDistinct
  <2>3. EmergencyNext \/ UNCHANGED approvals
    BY OthersFrame DEF guardVars
  <2> QED BY <2>1, <2>2, <2>3, ApprovalOrNone
<1> QED BY <1>1, <1>2, TypesAreKept, PTL DEF Spec

(* An access the owner did not open has as many different approvals as the *)
(* threshold of the moment asks for.                                       *)
THEOREM QuorumReached == Spec => GuardianAccessHasQuorum
<1> DEFINE Quorum(p) ==
       approvals' # approvals =>
         LET given == approvals'[<<p, emergency'[p].trusted_contact>>]
         IN  Cardinality({given[i] : i \in DOMAIN given}) >= guardians[p].threshold
<1>1. ASSUME TypeOK, ApprovalsDistinct, [Next]_vars, approvals' # approvals,
             NEW q \in DOMAIN emergency' \ DOMAIN emergency
      PROVE  LET given == approvals'[<<q, emergency'[q].trusted_contact>>]
             IN  Cardinality({given[i] : i \in DOMAIN given}) >= guardians[q].threshold
  <2>1. EmergencyNext
    BY <1>1, OthersFrame DEF guardVars
  <2>2. PICK p \in PlanId, guardian \in Address, contact \in Contact :
           ApproveEmergencyAccess(guardian, p, contact)
    BY <1>1, <2>1, ApprovalOrNone
  <2> DEFINE given == approvals'[<<p, contact>>]
  <2>3. /\ given \in Seq(Address) /\ Distinct(given)
        /\ emergency' = IF Len(given) >= guardians[p].threshold
                        THEN Put(emergency, p, NewEmergencyRecord(contact))
                        ELSE emergency
    BY <1>1, <2>2, ApprovalAdds
  <2> HIDE DEF given
  <2>4. /\ q = p /\ emergency'[q].trusted_contact = contact
        /\ Len(given) >= guardians[p].threshold
    BY <1>1, <2>3 DEF Put, NewEmergencyRecord
  <2>5. Cardinality({given[i] : i \in DOMAIN given}) = Len(given)
    BY <2>3, DistinctCounted
  <2> QED BY <2>4, <2>5 DEF given
<1>2. TypeOK /\ ApprovalsDistinct /\ [Next]_vars =>
        [\A p \in DOMAIN emergency' \ DOMAIN emergency : Quorum(p)]_vars
  BY <1>1
<1> QED BY <1>2, TypesAreKept, ApprovalsStayDistinct, PTL DEF Spec, GuardianAccessHasQuorum

(* The guard of a check of the conditions is that one of them is due.      *)
LEMMA ChecksFindDue ==
  ASSUME TypeOK, NEW p, CheckTriggerConditions(p)
  PROVE  p \in DOMAIN conditions /\ ConditionDue(p)
<1>1. p \in DOMAIN conditions /\ conditions[p] \in TriggerConfig /\ now \in Nat
  BY DEF CheckTriggerConditions, TypeOK, IsMap
<1> DEFINE config == conditions[p]
<1>2. /\ config.trigger_date \in Nat /\ config.inactivity_period \in Nat
      /\ config.last_activity \in Nat /\ config.conditions \subseteq TriggerCondition
  BY <1>1 DEF TriggerConfig
<1>3. PICK c \in config.conditions : ConditionMet(config, c)
  BY DEF CheckTriggerConditions
<1> HIDE DEF config
<1>4. c \in {"Time", "Inactivity", "Oracle", "Health", "Manual"}
  BY <1>2, <1>3 DEF TriggerCondition
<1>5. \/ "Time" \in config.conditions /\ config.trigger_date \in 1..now
      \/ /\ "Inactivity" \in config.conditions
         /\ config.inactivity_period \in 1..(now - config.last_activity)
      \/ "Oracle" \in config.conditions /\ config.oracle_triggered
      \/ "Health" \in config.conditions /\ config.health_triggered
  <2>1. CASE c = "Time"
    BY <1>1, <1>2, <1>3, <2>1 DEF ConditionMet
  <2>2. CASE c = "Inactivity"
    BY <1>1, <1>2, <1>3, <2>2 DEF ConditionMet
  <2>3. CASE c = "Oracle"
    BY <1>3, <2>3 DEF ConditionMet
  <2>4. CASE c = "Health"
    BY <1>3, <2>4 DEF ConditionMet
  <2>5. CASE c = "Manual"
    BY <1>3, <2>5 DEF ConditionMet
  <2> QED BY <1>4, <2>1, <2>2, <2>3, <2>4, <2>5
<1> QED BY <1>1, <1>5 DEF ConditionDue, config

(* A plan is triggered by the admin, its owner or a contact whose access   *)
(* has not run out, or by nobody in particular when a condition is due.    *)
THEOREM TriggersHaveCauses == Spec => TriggersAreDue
<1> DEFINE Allowed(p, by) ==
       \/ by = None /\ p \in DOMAIN conditions /\ ConditionDue(p)
       \/ by \in {admin, plans[p].owner}
       \/ /\ p \in DOMAIN emergency /\ by = emergency[p].trusted_contact
          /\ now - emergency[p].activated_at <= EMERGENCY_EXPIRATION_PERIOD
<1>1. ASSUME TypeOK, [Next]_vars, NEW q \in DOMAIN triggers' \ DOMAIN triggers
      PROVE  Allowed(q, triggers'[q].by)
  <2>1. TriggerNext
    BY <1>1, OthersFrame
  <2>2. \/ \E caller \in TriggerCaller : TriggerInheritance(caller, q)
        \/ AutoTriggerCheck(q)
    <3> PICK p \in PlanId :
          \/ \E caller \in TriggerCaller : TriggerInheritance(caller, p)
          \/ AutoTriggerCheck(p)
          \/ DOMAIN triggers' = DOMAIN triggers
      <4>1. ASSUME NEW p, NEW caller, NEW c, NEW date, NEW period, NEW oracle,
                   \/ SetTriggerConditions(caller, p, c.conditions, c.trigger_date,
                                           c.inactivity_period, c.oracle)
                   \/ AddTimeTrigger(caller, p, date)
                   \/ AddInactivityTrigger(caller, p, period)
                   \/ AddOracleTrigger(caller, p, oracle) \/ AddHealthTrigger(caller, p, oracle)
            PROVE  UNCHANGED triggers
        BY <4>1 DEF SetTriggerConditions, AddTimeTrigger, AddInactivityTrigger,
           AddOracleTrigger, AddHealthTrigger, SaveConfig
      <4>2. ASSUME NEW p, NEW caller,
                   \/ RecordActivity(caller, p) \/ SubmitOracleTrigger(caller, p)
                   \/ SubmitHealthTrigger(caller, p)
            PROVE  UNCHANGED triggers
        BY <4>2 DEF RecordActivity, SubmitOracleTrigger, SubmitHealthTrigger, SaveConfig
      <4>3. ASSUME NEW p, NEW caller, NEW amount,
                   RecallLoan(caller, p, amount) \/ LiquidationFallback(caller, p)
            PROVE  DOMAIN triggers' = DOMAIN triggers
        BY <4>3 DEF RecallLoan, LiquidationFallback
      <4> QED BY <2>1, <4>1, <4>2, <4>3 DEF TriggerNext
    <3>1. \A by : Trigger(p, by) => DOMAIN triggers' = DOMAIN triggers \cup {p}
      BY DEF Trigger, Put
    <3>2. \E by : Trigger(p, by)
      BY <1>1 DEF TriggerInheritance, AutoTriggerCheck
    <3>3. p = q
      BY <1>1, <3>1, <3>2
    <3> QED BY <1>1, <3>3
  <2>3. ASSUME NEW by, Trigger(q, by) PROVE triggers'[q].by = by
    <3>1. triggers'[q] = NewTriggerInfo(q, by)
      BY <2>3 DEF Trigger, Put
    <3> QED BY <3>1 DEF NewTriggerInfo
  <2>4. ASSUME NEW caller \in TriggerCaller, TriggerInheritance(caller, q)
        PROVE  Allowed(q, triggers'[q].by)
    <3>1. MayTrigger(caller, q) /\ triggers'[q].by = caller
      BY <2>3, <2>4 DEF TriggerInheritance
    <3>2. ASSUME q \in DOMAIN emergency, ~EmergencyExpired(q)
          PROVE  now - emergency[q].activated_at <= EMERGENCY_EXPIRATION_PERIOD
      <4>1. emergency[q].activated_at \in Nat /\ now \in Nat
        BY <1>1, <3>2 DEF TypeOK, IsMap, EmergencyRecord
      <4> QED BY <3>2, <4>1 DEF EmergencyExpired, EMERGENCY_EXPIRATION_PERIOD
    <3> QED BY <3>1, <3>2 DEF MayTrigger
  <2>5. ASSUME AutoTriggerCheck(q) PROVE Allowed(q, triggers'[q].by)
    BY <1>1, <2>3, <2>5, ChecksFindDue DEF AutoTriggerCheck
  <2> HIDE DEF Allowed
  <2> QED BY <2>2, <2>4, <2>5
<1>2. TypeOK /\ [Next]_vars => [\A p \in DOMAIN triggers' \ DOMAIN triggers :
                                   Allowed(p, triggers'[p].by)]_vars
  <2> HIDE DEF Allowed
  <2> QED BY <1>1
<1> QED BY <1>2, TypesAreKept, PTL DEF Spec, TriggersAreDue
=============================================================================
