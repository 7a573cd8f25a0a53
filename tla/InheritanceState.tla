-------------------------- MODULE InheritanceState --------------------------
(***************************************************************************)
(* The storage of the inheritance contract                                 *)
(* (contracts/inheritance-contract/src/lib.rs) and the helpers its entry   *)
(* points share.  The operations are in PlanOperations, ClaimOperations,   *)
(* TriggerOperations, EmergencyOperations and AdminOperations;             *)
(* InheritanceContract puts them together.                                 *)
(*                                                                         *)
(* A contract call is atomic: it either returns Ok, and all its writes are *)
(* kept, or returns an error or panics, and none is.  An action is a call  *)
(* that returns Ok; a call that fails is a stuttering step.  The           *)
(* reentrancy lock is taken and released inside one call, so no state      *)
(* between two calls ever holds it.                                        *)
(*                                                                         *)
(* Time is in days: every period the contract compares against is a whole  *)
(* number of them.                                                         *)
(***************************************************************************)
EXTENDS Storage

CONSTANTS
  Address,       \* the accounts that call the contract
  Contract,      \* the contract's own token account (the escrow)
  None,          \* an absent Option
  Email,         \* the beneficiaries' e-mail addresses
  EmailLength,   \* the length of each of them
  ClaimCode,     \* the six-digit claim codes
  U64Max,        \* the largest u64
  InitialTokens  \* the settlement tokens each account starts with

ASSUME AccountAssumption ==
  /\ Contract \notin Address
  /\ None \notin Address

ASSUME AmountAssumption ==
  /\ U64Max \in Nat
  /\ InitialTokens \in [Address -> Nat]

ASSUME EmailAssumption == EmailLength \in [Email -> Nat]

VARIABLES
  now,            \* the ledger timestamp
  admin,          \* DataKey::Admin
  paused,         \* PauseKey::Paused
  roles,          \* AccessControlKey::Roles: the pairs (address, role) granted
  kyc,            \* DataKey::Kyc
  token,          \* the balances of the settlement token
  next_plan_id,   \* DataKey::NextPlanId
  plans,          \* DataKey::Plan
  user_plans,     \* DataKey::UserPlans
  deactivated,    \* DataKey::DeactivatedPlans
  claims,         \* DataKey::Claim, with the payout of the CLAIM/SUCCESS event
  claimed_plans,  \* DataKey::UserClaimedPlans
  all_claimed,    \* DataKey::AllClaimedPlans
  triggers,       \* DataKey::InheritanceTrigger
  conditions,     \* DataKey::TriggerConditions
  emergency,      \* DataKey::EmergencyAccess
  guardians,      \* DataKey::Guardians
  approvals,      \* DataKey::EmergencyApprovals
  contacts        \* DataKey::EmergencyContacts

accessVars == <<admin, paused, roles, kyc>>
indexVars  == <<user_plans, deactivated>>
claimVars  == <<claims, claimed_plans, all_claimed>>
guardVars  == <<emergency, guardians, approvals, contacts>>

vars == <<now, accessVars, token, next_plan_id, plans, indexVars, claimVars,
          triggers, conditions, guardVars>>

-----------------------------------------------------------------------------
(* Constants of the source. *)

CREATION_FEE_BP             == 200
FULL_ALLOCATION             == 10000
MAX_BENEFICIARIES           == 10
MAX_CONTACTS                == 10
BATCH_LIMIT                 == 20
EMERGENCY_TRANSFER_LIMIT_BP == 1000
EMERGENCY_COOLDOWN_PERIOD   == 1
EMERGENCY_EXPIRATION_PERIOD == 7

Role == {"Admin", "Owner", "Beneficiary", "Guardian"}

(* What is_claim_time_valid makes each DistributionMethod wait for. *)
DistributionMethod == {"LumpSum", "Monthly", "Quarterly", "Yearly"}
ClaimPeriod == [LumpSum |-> 0, Monthly |-> 30, Quarterly |-> 90, Yearly |-> 365]

TriggerCondition == {"Time", "Inactivity", "Oracle", "Health", "Manual"}

-----------------------------------------------------------------------------
(* Records of the source. *)

(* hash_string feeds its hash with the positions of the characters and not *)
(* with the characters: what is left of a string is its length.            *)
HashString(e) == EmailLength[e]

HashedEmail == {HashString(e) : e \in Email}

BeneficiaryInput ==
  [email : Email, claim_code : ClaimCode, allocation_bp : Nat, priority : Nat]

Beneficiary ==
  [hashed_email : HashedEmail, hashed_claim_code : ClaimCode,
   allocation_bp : 1..FULL_ALLOCATION, priority : Nat, is_claimed : BOOLEAN]

Plan ==
  [owner : Address, total_amount : 0..U64Max, total_loaned : Nat,
   distribution_method : DistributionMethod, beneficiaries : Seq(Beneficiary),
   total_allocation_bp : 0..FULL_ALLOCATION, created_at : Nat,
   is_active : BOOLEAN, is_lendable : BOOLEAN, waterfall_enabled : BOOLEAN]

KycStatus == [submitted : BOOLEAN, approved : BOOLEAN, rejected : BOOLEAN]

ClaimRecord == [beneficiary_index : Nat, payout : Nat]

(* by is no field of the code: it remembers who triggered the plan by hand, *)
(* None for auto_trigger_check, and is read only by a property.             *)
TriggerInfo ==
  [by : Address \cup {None}, triggered_at : Nat, recall_attempted : BOOLEAN, liquidation_triggered : BOOLEAN,
   original_loaned : Nat, recalled_amount : Nat, settled_amount : Nat]

TriggerConfig ==
  [conditions : SUBSET TriggerCondition, trigger_date : Nat,
   inactivity_period : Nat, last_activity : Nat,
   oracle_address : Address \cup {None},
   oracle_triggered : BOOLEAN, health_triggered : BOOLEAN]

EmergencyRecord == [trusted_contact : Address, activated_at : Nat]

GuardianConfig == [guardians : Seq(Address), threshold : Nat \ {0}]

-----------------------------------------------------------------------------
(* The share bp (in basis points) of an amount. *)
Share(amount, bp) == (amount * bp) \div FULL_ALLOCATION

-----------------------------------------------------------------------------
(* Guards several entry points share. *)

HasRole(a, role) == <<a, role>> \in roles

KycApproved(user) == user \in DOMAIN kyc /\ kyc[user].approved

PlanExists(p) == p \in DOMAIN plans

OwnedBy(p, caller) == PlanExists(p) /\ plans[p].owner = caller

Triggered(p) == p \in DOMAIN triggers

(* Faulty: the loans of the plan are forgotten. *)
AvailableWithLoans(plan) == plan.total_amount

Available(plan) == SaturatingSub(plan.total_amount, plan.total_loaned)

(* The 24 hours after an activation, whether or not it is still in force.  *)
IsEmergencyActive(p) ==
  /\ p \in DOMAIN emergency
  /\ SaturatingSub(now, emergency[p].activated_at) < EMERGENCY_COOLDOWN_PERIOD

EmergencyExpired(p) ==
  now > emergency[p].activated_at + EMERGENCY_EXPIRATION_PERIOD

(* An amount the cooldown lets one call move out of a plan. *)
WithinEmergencyLimit(p, plan, amount) ==
  IsEmergencyActive(p) =>
    amount <= Share(plan.total_amount, EMERGENCY_TRANSFER_LIMIT_BP)

-----------------------------------------------------------------------------
(* The state after deployment: no admin yet, tokens in the accounts.       *)
Init ==
  /\ now = 1
  /\ admin = None
  /\ paused = FALSE
  /\ roles = {}
  /\ kyc = EmptyMap
  /\ token = [a \in Address \cup {Contract} |-> IF a = Contract THEN 0 ELSE InitialTokens[a]]
  /\ next_plan_id = 1
  /\ plans = EmptyMap
  /\ user_plans = [a \in Address |-> << >>]
  /\ deactivated = << >>
  /\ claims = EmptyMap
  /\ claimed_plans = [a \in Address |-> << >>]
  /\ all_claimed = << >>
  /\ triggers = EmptyMap
  /\ conditions = EmptyMap
  /\ emergency = EmptyMap
  /\ guardians = EmptyMap
  /\ approvals = EmptyMap
  /\ contacts = EmptyMap

(* The ledger closes: days pass between two calls. *)
Advance(days) ==
  /\ now' = now + days
  /\ UNCHANGED <<accessVars, token, next_plan_id, plans, indexVars, claimVars,
                 triggers, conditions, guardVars>>
=============================================================================
