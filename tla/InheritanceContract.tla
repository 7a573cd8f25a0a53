------------------------ MODULE InheritanceContract ------------------------
(***************************************************************************)
(* The inheritance contract: every entry point of                          *)
(* contracts/inheritance-contract/src/lib.rs that changes plans, claims,   *)
(* triggers, emergency access, roles, KYC or tokens, called in any order   *)
(* by any account with any argument from the candidate sets below.  An     *)
(* empty candidate set takes the entry points that draw from it out of the *)
(* instance.                                                               *)
(***************************************************************************)
EXTENDS AdminOperations, PlanOperations, ClaimOperations, TriggerOperations,
        EmergencyOperations

CONSTANTS
  MaxPlans,         \* bound: the plans an execution creates
  MaxTime,          \* bound: the last day of an execution
  MaxRecovered,     \* bound: recalls and write-offs go on below this sum
  Days,             \* what the ledger may advance by
  AdminCandidate,   \* the accounts that may be made the admin
  RoleChange,       \* the pairs (address, role) assigned and revoked
  PauseValue,       \* the values the pause switch is set to
  KycUser,          \* the accounts that submit their KYC
  KycRejected,      \* the accounts whose KYC is rejected
  KycBatch,         \* the sets of users approved at once
  CreateAmount,     \* the amounts plans are created with
  CreateMethod,     \* the distribution methods they are created with
  CreateInputs,     \* the lists of beneficiaries they are created with
  LendableValue,    \* the values of is_lendable
  DepositAmount, WithdrawAmount, LoanAmount, RecallAmount,
  PriorityValue,    \* the priorities beneficiaries are given
  WaterfallOwner,   \* the accounts that turn the waterfall on
  AddInput,         \* the beneficiaries added one at a time
  AddBatch,         \* the lists of beneficiaries added at once
  RemoveIndex,      \* the indices removed one at a time
  RemoveBatch,      \* the sets of indices removed at once
  NewAllocation,    \* the lists of allocations set at once
  DeactivatingUser, \* the accounts that deactivate their plans
  NewOwner,         \* the accounts plans are transferred to
  ClaimEntry,       \* [claimer, email, claim_code] of single claims
  ClaimBatch,       \* the lists of entries claimed at once
  TriggerCaller,    \* the accounts that trigger by hand
  ConditionSet,     \* [conditions, trigger_date, inactivity_period, oracle]
  TriggerDate, InactivityPeriod, Oracle,
  Contact,          \* the trusted contacts access is given to
  ListedContact,    \* the contacts put on the list of a plan
  GuardianList, Threshold

ASSUME ArgumentAssumption ==
  /\ MaxPlans \in Nat /\ MaxTime \in Nat /\ MaxRecovered \in Nat
  /\ Days \subseteq Nat
  /\ AdminCandidate \subseteq Address
  /\ RoleChange \subseteq Address \X Role
  /\ PauseValue \subseteq BOOLEAN
  /\ KycUser \subseteq Address /\ KycRejected \subseteq Address
  /\ KycBatch \subseteq SUBSET Address
  /\ CreateAmount \subseteq 0..U64Max
  /\ CreateMethod \subseteq DistributionMethod
  /\ \A list \in CreateInputs \cup AddBatch : list \in Seq(BeneficiaryInput)
  /\ LendableValue \subseteq BOOLEAN
  /\ DepositAmount \subseteq Nat /\ WithdrawAmount \subseteq Nat
  /\ LoanAmount \subseteq Nat /\ RecallAmount \subseteq Nat
  /\ PriorityValue \subseteq Nat /\ WaterfallOwner \subseteq Address
  /\ AddInput \subseteq BeneficiaryInput
  /\ RemoveIndex \subseteq Nat /\ \A set \in RemoveBatch : set \subseteq Nat
  /\ \A list \in NewAllocation : list \in Seq(Nat)
  /\ DeactivatingUser \subseteq Address /\ NewOwner \subseteq Address
  /\ \A e \in ClaimEntry : e \in [claimer : Address, email : Email, claim_code : ClaimCode]
  /\ \A list \in ClaimBatch :
       list \in Seq([claimer : Address, email : Email, claim_code : ClaimCode])
  /\ TriggerCaller \subseteq Address
  /\ \A c \in ConditionSet :
       c \in [conditions : SUBSET TriggerCondition, trigger_date : Nat,
              inactivity_period : Nat, oracle : Address \cup {None}]
  /\ TriggerDate \subseteq Nat /\ InactivityPeriod \subseteq Nat
  /\ Oracle \subseteq Address /\ Contact \subseteq Address
  /\ ListedContact \subseteq Address
  /\ \A list \in GuardianList : list \in Seq(Address)
  /\ Threshold \subseteq Nat

PlanId == 1..MaxPlans

-----------------------------------------------------------------------------

AdminNext ==
  \/ \E a \in AdminCandidate : InitializeAdmin(a)
  \/ \E caller \in Address, change \in RoleChange :
       \/ AssignRole(caller, change[1], change[2])
       \/ RevokeRole(caller, change[1], change[2])
  \/ \E caller \in Address, value \in PauseValue : SetPaused(caller, value)
  \/ \E user \in KycUser : SubmitKyc(user)
  \/ \E caller, user \in Address : ApproveKyc(caller, user)
  \/ \E caller \in Address, user \in KycRejected : RejectKyc(caller, user)
  \/ \E caller \in Address, users \in KycBatch : BatchApproveKyc(caller, users)

PlanNext ==
  \/ /\ next_plan_id <= MaxPlans
     /\ \E owner \in Address, amount \in CreateAmount, method \in CreateMethod,
           inputs \in CreateInputs, lendable \in LendableValue :
          CreateInheritancePlan(owner, amount, method, inputs, lendable)
  \/ \E p \in PlanId, caller \in Address :
       \/ \E amount \in DepositAmount : Deposit(caller, p, amount)
       \/ \E amount \in WithdrawAmount : Withdraw(caller, p, amount)
       \/ \E lendable \in LendableValue : SetLendable(caller, p, lendable)
       \/ caller \in WaterfallOwner /\ EnableWaterfall(caller, p)
       \/ \E i \in 1..MAX_BENEFICIARIES, priority \in PriorityValue :
            SetBeneficiaryPriority(caller, p, i, priority)
       \/ \E input \in AddInput : AddBeneficiary(caller, p, input)
       \/ \E i \in RemoveIndex : RemoveBeneficiary(caller, p, i)
       \/ \E inputs \in AddBatch : BatchAddBeneficiaries(caller, p, inputs)
       \/ \E indices \in RemoveBatch : BatchRemoveBeneficiaries(caller, p, indices)
       \/ \E new \in NewAllocation : BatchUpdateAllocations(caller, p, new)
       \/ caller \in DeactivatingUser /\ DeactivateInheritancePlan(caller, p)
       \/ \E new_owner \in NewOwner : TransferPlanOwnership(caller, new_owner, p)
  \/ \E p \in PlanId, amount \in LoanAmount : ExternalLend(p, amount)

ClaimNext ==
  \E p \in PlanId :
    \/ \E e \in ClaimEntry : ClaimInheritancePlan(e.claimer, p, e.email, e.claim_code)
    \/ \E entries \in ClaimBatch : BatchClaim(p, entries)

TriggerNext ==
  \E p \in PlanId :
    \/ \E caller \in TriggerCaller : TriggerInheritance(caller, p)
    \/ AutoTriggerCheck(p)
    \/ \E caller \in Address :
         \/ \E c \in ConditionSet :
              SetTriggerConditions(caller, p, c.conditions, c.trigger_date,
                                   c.inactivity_period, c.oracle)
         \/ \E date \in TriggerDate : AddTimeTrigger(caller, p, date)
         \/ \E period \in InactivityPeriod : AddInactivityTrigger(caller, p, period)
         \/ \E oracle \in Oracle :
              AddOracleTrigger(caller, p, oracle) \/ AddHealthTrigger(caller, p, oracle)
         \/ RecordActivity(caller, p)
         \/ SubmitOracleTrigger(caller, p)
         \/ SubmitHealthTrigger(caller, p)
         \/ /\ Triggered(p)
            /\ triggers[p].recalled_amount + triggers[p].settled_amount < MaxRecovered
            /\ \/ \E amount \in RecallAmount : RecallLoan(caller, p, amount)
               \/ LiquidationFallback(caller, p)

EmergencyNext ==
  \E p \in PlanId, caller \in Address :
    \/ \E contact \in Contact :
         \/ ActivateEmergencyAccess(caller, p, contact)
         \/ ApproveEmergencyAccess(caller, p, contact)
    \/ \E contact \in ListedContact :
         AddEmergencyContact(caller, p, contact) \/ RemoveEmergencyContact(caller, p, contact)
    \/ DeactivateEmergencyAccess(caller, p)
    \/ GetEmergencyAccess(p)
    \/ \E list \in GuardianList, threshold \in Threshold :
         SetGuardians(caller, p, list, threshold)

Tick == \E days \in Days : now + days <= MaxTime /\ Advance(days)

Next == AdminNext \/ PlanNext \/ ClaimNext \/ TriggerNext \/ EmergencyNext \/ Tick

Spec == Init /\ [][Next]_vars

-----------------------------------------------------------------------------
(* Type invariant. *)

TypeOK ==
  /\ now \in Nat
  /\ admin \in Address \cup {None}
  /\ paused \in BOOLEAN
  /\ roles \subseteq Address \X Role
  /\ IsMap(kyc, Address, KycStatus)
  /\ token \in [Address \cup {Contract} -> Nat]
  /\ next_plan_id \in Nat \ {0}
  /\ plans \in [1..(next_plan_id - 1) -> Plan]
  /\ user_plans \in [Address -> Seq(Nat)]
  /\ deactivated \in Seq(Nat)
  /\ IsMap(claims, Nat \X HashedEmail, ClaimRecord)
  /\ claimed_plans \in [Address -> Seq(Nat)]
  /\ all_claimed \in Seq(Nat)
  /\ IsMap(triggers, Nat, TriggerInfo)
  /\ IsMap(conditions, Nat, TriggerConfig)
  /\ IsMap(emergency, Nat, EmergencyRecord)
  /\ IsMap(guardians, Nat, GuardianConfig)
  /\ IsMap(approvals, Nat \X Address, Seq(Address))
  /\ IsMap(contacts, Nat, Seq(Address))

-----------------------------------------------------------------------------
(* Safety invariants. *)

(* Every plan is listed once, under its owner and nobody else, through     *)
(* creations and changes of hands (add_plan_to_user, remove_plan_from_user).*)
OwnerIndexAgrees ==
  \A a \in Address :
    /\ \A i \in DOMAIN user_plans[a] : OwnedBy(user_plans[a][i], a)
    /\ \A i, j \in DOMAIN user_plans[a] :
         user_plans[a][i] = user_plans[a][j] => i = j
    /\ \A p \in DOMAIN plans : plans[p].owner = a => InSeq(user_plans[a], p)

(* The admin's list of deactivated plans names the inactive plans, each    *)
(* once: add_plan_to_deactivated and is_active never part.                 *)
DeactivatedIndexAgrees ==
  /\ \A p \in DOMAIN plans : InSeq(deactivated, p) <=> ~plans[p].is_active
  /\ \A i \in DOMAIN deactivated : PlanExists(deactivated[i])

(* The admin's list of claimed plans names the plans with a claim record,  *)
(* whether the claim came alone or in a batch (add_plan_to_claimed).       *)
ClaimedIndexAgrees ==
  /\ \A key \in DOMAIN claims : InSeq(all_claimed, key[1])
  /\ \A i \in DOMAIN all_claimed :
       \E key \in DOMAIN claims : key[1] = all_claimed[i]

(* The three lists of plans agree with the plans and the claims, through   *)
(* every mix of creations, transfers, deactivations and claims.            *)
IndexesAgree == OwnerIndexAgrees /\ DeactivatedIndexAgrees /\ ClaimedIndexAgrees

(* total_allocation_bp is the sum of the beneficiaries' shares after any   *)
(* mix of single and batch additions, removals and updates, so the shares  *)
(* of a plan never exceed the whole.                                       *)
AllocationsAddUp ==
  \A p \in DOMAIN plans :
    plans[p].total_allocation_bp = TotalAllocation(plans[p].beneficiaries)

(* What the plans still hold and what claims were granted from them is all *)
(* in the escrow account: no sequence of deposits, withdrawals, claims and *)
(* write-offs promises a token twice.                                      *)
EscrowBacksPlans ==
  Total([p \in DOMAIN plans |-> plans[p].total_amount])
    + Total([key \in DOMAIN claims |-> claims[key].payout])
  <= token[Contract]

(* A beneficiary marked as claimed has a claim record under his e-mail     *)
(* hash, also after removals have moved beneficiaries to other indices.    *)
ClaimedFlagIsBacked ==
  \A p \in DOMAIN plans : \A i \in DOMAIN plans[p].beneficiaries :
    plans[p].beneficiaries[i].is_claimed =>
      <<p, plans[p].beneficiaries[i].hashed_email>> \in DOMAIN claims

(* What was lent when the plan was triggered is recalled, settled or still *)
(* on the books of the plan: no loan disappears between the trigger and    *)
(* the end of the recall (recall_loan, liquidation_fallback).              *)
TriggeredLoansAccounted ==
  \A p \in DOMAIN triggers :
    /\ PlanExists(p)
    /\ triggers[p].original_loaned <=
         triggers[p].recalled_amount + triggers[p].settled_amount
           + plans[p].total_loaned

-----------------------------------------------------------------------------
(* Action properties. *)

(* A trigger cannot be taken back, restarted or carried to another owner:  *)
(* its date and its outstanding loans stay, the recall only advances.      *)
TriggerIsFinal ==
  [][\A p \in DOMAIN triggers :
       /\ p \in DOMAIN triggers'
       /\ triggers'[p].triggered_at = triggers[p].triggered_at
       /\ triggers'[p].original_loaned = triggers[p].original_loaned
       /\ triggers'[p].recalled_amount >= triggers[p].recalled_amount
       /\ triggers'[p].settled_amount >= triggers[p].settled_amount
       /\ plans'[p].owner = plans[p].owner]_vars

(* A deactivated plan stays so, takes no more money and grants no claim,   *)
(* not even to the rest of a batch or after a trigger.                     *)
DeactivationIsFinal ==
  [][\A p \in DOMAIN plans :
       ~plans[p].is_active =>
         /\ ~plans'[p].is_active
         /\ plans'[p].total_amount <= plans[p].total_amount
         /\ \A key \in DOMAIN claims' : key[1] = p => key \in DOMAIN claims]_vars

(* A claim is granted once and its record never changes: not by a second   *)
(* claim, a batch, or a beneficiary removed and added again.               *)
ClaimsAreFinal ==
  [][\A key \in DOMAIN claims : key \in DOMAIN claims' /\ claims'[key] = claims[key]]_vars

(* The recorded amount of a plan only falls by what a claim of that plan   *)
(* was granted, by what the escrow paid to the owner, or by a write-off of *)
(* a triggered plan.                                                       *)
AmountFallsForAReason ==
  [][\A p \in DOMAIN plans :
       plans'[p].total_amount < plans[p].total_amount =>
         \/ plans[p].total_amount - plans'[p].total_amount =
              LET new == {key \in DOMAIN claims' \ DOMAIN claims : key[1] = p}
              IN  Total([key \in new |-> claims'[key].payout])
         \/ plans[p].total_amount - plans'[p].total_amount =
              token'[plans[p].owner] - token[plans[p].owner]
         \/ Triggered(p) /\ plans[p].total_loaned > 0 /\ plans'[p].total_loaned = 0]_vars

(* Before a trigger what is lent is left in place by withdrawals, claims   *)
(* and everything else but a batch, whose grants look at no liquidity: no  *)
(* other step makes a plan hold less than its borrowers owe it.            *)
LoansCovered(p) == plans[p].total_loaned <= plans[p].total_amount

LoansStayCovered ==
  [][\A p \in DOMAIN plans :
       ~Triggered(p) /\ LoansCovered(p) /\ ~LoansCovered(p)' =>
         \E key \in DOMAIN claims' \ DOMAIN claims :
           /\ key[1] = p
           /\ ~plans'[p].beneficiaries[claims'[key].beneficiary_index].is_claimed]_vars

(* While the contract is paused no token moves and no claim is granted.    *)
PauseHoldsFunds ==
  [][paused => UNCHANGED <<token, claims>>]_vars

(* Once the admin is set and nobody holds the Admin role any more, nobody  *)
(* ever will: no entry point that grants roles on the side grants this one.*)
LockoutIsPermanent ==
  [][admin # None /\ (\A a \in Address : ~HasRole(a, "Admin")) =>
       \A a \in Address : <<a, "Admin">> \notin roles']_vars

(* Access in force is never extended or handed to another contact: it has  *)
(* to be revoked or to lapse first, however many approvals come in.        *)
EmergencyAccessIsNotReplaced ==
  [][\A p \in DOMAIN emergency \cap DOMAIN emergency' :
       emergency'[p] = emergency[p]]_vars

(* An access that opens without its owner's doing has as many different    *)
(* approvals as the threshold of the moment asks for, however the list and *)
(* the threshold changed while they came in.                               *)
GuardianAccessHasQuorum ==
  [][\A p \in DOMAIN emergency' \ DOMAIN emergency :
       approvals' # approvals =>
         LET given == approvals'[<<p, emergency'[p].trusted_contact>>]
         IN  Cardinality({given[i] : i \in DOMAIN given}) >= guardians[p].threshold]_vars

(* In the day after an activation no single payment (a withdrawal, a claim,*)
(* an entry of a batch) exceeds a tenth of what the plan holds.            *)
CooldownLimitsEachPayment ==
  [][\A p \in DOMAIN plans :
       IsEmergencyActive(p) =>
         LET limit == Share(plans[p].total_amount, EMERGENCY_TRANSFER_LIMIT_BP)
         IN  /\ \A key \in DOMAIN claims' \ DOMAIN claims :
                  key[1] = p => claims'[key].payout <= limit
             /\ plans'[p].total_amount < plans[p].total_amount =>
                  token[Contract] - token'[Contract] <= limit]_vars

(* A condition the owner of the plan asked for has come true. *)
ConditionDue(p) ==
  LET config == conditions[p]
  IN  \/ "Time" \in config.conditions /\ config.trigger_date \in 1..now
      \/ /\ "Inactivity" \in config.conditions
         /\ config.inactivity_period \in 1..(now - config.last_activity)
      \/ "Oracle" \in config.conditions /\ config.oracle_triggered
      \/ "Health" \in config.conditions /\ config.health_triggered

(* Whoever triggers a plan by hand is the admin, its owner, or the contact *)
(* of an access that has not run out; without such a caller a plan is      *)
(* triggered only when one of its conditions is due.                       *)
TriggersAreDue ==
  [][\A p \in DOMAIN triggers' \ DOMAIN triggers :
       LET by == triggers'[p].by
       IN  \/ by = None /\ p \in DOMAIN conditions /\ ConditionDue(p)
           \/ by \in {admin, plans[p].owner}
           \/ /\ p \in DOMAIN emergency /\ by = emergency[p].trusted_contact
              /\ now - emergency[p].activated_at <= EMERGENCY_EXPIRATION_PERIOD]_vars

-----------------------------------------------------------------------------
(* Liveness: what heirs who keep calling can count on.                     *)

HeirsKeepClaiming ==
  \A p \in PlanId, e \in ClaimEntry :
    WF_vars(ClaimInheritancePlan(e.claimer, p, e.email, e.claim_code))

PersistentSpec == Spec /\ HeirsKeepClaiming

Entitled(p, e) ==
  /\ Triggered(p)
  /\ ~paused
  /\ KycApproved(e.claimer)
  /\ Matches(plans[p], e.email, e.claim_code) # {}

(* After the trigger every heir with an approved KYC gets his grant, in    *)
(* whatever order the heirs call and the waterfall wants them, unless the  *)
(* plan is given up, the contract paused, or there is nothing left for him *)
(* or for those before him.                                                *)
HeirsAreServed ==
  \A p \in PlanId, e \in ClaimEntry :
    Entitled(p, e) ~>
      \/ ClaimKey(p, e.email) \in DOMAIN claims
      \/ ~Entitled(p, e)
      \/ ~plans[p].is_active
      \/ \E i \in DOMAIN plans[p].beneficiaries :
           Share(plans[p].total_amount, plans[p].beneficiaries[i].allocation_bp) = 0

-----------------------------------------------------------------------------
(* What comments and documents say of the contract and the code does not   *)
(* do: the property of a run that TLC is expected to refute.               *)

(* "Records the trigger and freezes new loans": a triggered plan is not    *)
(* lendable (trigger_inheritance).                                         *)
TriggerFreezesLoans == \A p \in DOMAIN triggers : ~plans[p].is_lendable
=============================================================================
