--------------------------- MODULE PlanOperations ---------------------------
(***************************************************************************)
(* Plans: creation, funding, beneficiaries, allocations and ownership.     *)
(***************************************************************************)
EXTENDS InheritanceState

(* What a plan operation other than creation and transfer leaves alone.    *)
otherThanPlans ==
  <<now, accessVars, next_plan_id, claimVars, triggers, conditions, guardVars>>

-----------------------------------------------------------------------------
(* Beneficiaries. *)

NewBeneficiary(input) ==
  [hashed_email |-> HashString(input.email), hashed_claim_code |-> input.claim_code,
   allocation_bp |-> input.allocation_bp, priority |-> input.priority,
   is_claimed |-> FALSE]

(* The sum of the first n numbers of a sequence. *)
SumUpTo(s, n) ==
  LET sum[i \in 0..n] == IF i = 0 THEN 0 ELSE sum[i - 1] + s[i]
  IN  sum[n]

Allocations(bens) == [i \in 1..Len(bens) |-> bens[i].allocation_bp]

TotalAllocation(bens) == SumUpTo(Allocations(bens), Len(bens))

ValidBeneficiaries(inputs) ==
  /\ Len(inputs) \in 1..MAX_BENEFICIARIES
  /\ \A i \in DOMAIN inputs :
       inputs[i].priority # 0 /\ inputs[i].allocation_bp # 0
  /\ \A i, j \in DOMAIN inputs :
       inputs[i].priority = inputs[j].priority => i = j
  /\ TotalAllocation(inputs) = FULL_ALLOCATION

(* Neither the position nor the priority of a new beneficiary is checked.  *)
CanAddBeneficiary(plan, input) ==
  /\ Len(plan.beneficiaries) < MAX_BENEFICIARIES
  /\ input.allocation_bp # 0
  /\ plan.total_allocation_bp + input.allocation_bp <= FULL_ALLOCATION

WithBeneficiary(plan, input) ==
  [plan EXCEPT !.beneficiaries = Append(@, NewBeneficiary(input)),
               !.total_allocation_bp = @ + input.allocation_bp]

(* Faulty: the flag stays at its index. *)
SwapRemoveKeepingFlag(s, i) ==
  [k \in 1..(Len(s) - 1) |->
     IF k = i THEN [s[Len(s)] EXCEPT !.is_claimed = s[i].is_claimed] ELSE s[k]]

(* The last beneficiary takes the place of the one removed. *)
SwapRemove(s, i) ==
  [k \in 1..(Len(s) - 1) |-> IF k = i THEN s[Len(s)] ELSE s[k]]

(* Faulty: the total is left as it was. *)
WithoutBeneficiaryKeepingTotal(plan, i) ==
  [plan EXCEPT !.beneficiaries = SwapRemove(@, i)]

WithoutBeneficiary(plan, i) ==
  [plan EXCEPT !.beneficiaries = SwapRemove(@, i),
               !.total_allocation_bp =
                 SaturatingSub(@, plan.beneficiaries[i].allocation_bp)]

-----------------------------------------------------------------------------
(* Creation. *)

(* checked_mul(..).unwrap_or(0): a product beyond u64 makes the fee zero.  *)
CreationFee(amount) ==
  IF amount * CREATION_FEE_BP > U64Max THEN 0
  ELSE (amount * CREATION_FEE_BP) \div FULL_ALLOCATION

CreateInheritancePlan(owner, amount, method, inputs, lendable) ==
  LET fee  == CreationFee(amount)
      net  == amount - fee
      plan == [owner |-> owner, total_amount |-> net, total_loaned |-> 0,
               distribution_method |-> method,
               beneficiaries |->
                 [i \in 1..Len(inputs) |-> NewBeneficiary(inputs[i])],
               total_allocation_bp |-> FULL_ALLOCATION, created_at |-> now,
               is_active |-> TRUE, is_lendable |-> lendable,
               waterfall_enabled |-> FALSE]
  IN  /\ ~paused
      /\ KycApproved(owner)
      /\ admin # None
      /\ net # 0
      /\ token[owner] >= amount
      /\ ValidBeneficiaries(inputs)
      /\ token' = Transfer(Transfer(token, owner, admin, fee), owner, Contract, net)
      /\ plans' = Put(plans, next_plan_id, plan)
      /\ next_plan_id' = next_plan_id + 1
      /\ user_plans' = [user_plans EXCEPT ![owner] = Append(@, next_plan_id)]
      /\ roles' = roles \cup {<<owner, "Owner">>}
      /\ UNCHANGED <<now, admin, paused, kyc, deactivated, claimVars, triggers,
                     conditions, guardVars>>

-----------------------------------------------------------------------------
(* Funds. *)

(* Faulty: the activity of the plan is not checked. *)
DepositIntoAnyPlan(caller, p, amount) ==
  /\ ~paused
  /\ amount > 0
  /\ OwnedBy(p, caller)
  /\ token[caller] >= amount
  /\ plans[p].total_amount + amount <= U64Max
  /\ token' = Transfer(token, caller, Contract, amount)
  /\ plans' = [plans EXCEPT ![p].total_amount = @ + amount]
  /\ UNCHANGED <<indexVars, otherThanPlans>>

Deposit(caller, p, amount) ==
  /\ ~paused
  /\ amount > 0
  /\ OwnedBy(p, caller)
  /\ plans[p].is_active
  /\ token[caller] >= amount
  /\ plans[p].total_amount + amount <= U64Max
  /\ token' = Transfer(token, caller, Contract, amount)
  /\ plans' = [plans EXCEPT ![p].total_amount = @ + amount]
  /\ UNCHANGED <<indexVars, otherThanPlans>>

(* Faulty: the pause switch is not looked at. *)
WithdrawWhilePaused(caller, p, amount) ==
  /\ amount > 0
  /\ OwnedBy(p, caller)
  /\ WithinEmergencyLimit(p, plans[p], amount)
  /\ amount <= Available(plans[p])
  /\ amount <= token[Contract]
  /\ token' = Transfer(token, Contract, caller, amount)
  /\ plans' = [plans EXCEPT ![p].total_amount = @ - amount]
  /\ UNCHANGED <<indexVars, otherThanPlans>>

(* Neither the activity of the plan nor a trigger is looked at. *)
Withdraw(caller, p, amount) ==
  /\ ~paused
  /\ amount > 0
  /\ OwnedBy(p, caller)
  /\ WithinEmergencyLimit(p, plans[p], amount)
  /\ amount <= Available(plans[p])
  /\ amount <= token[Contract]
  /\ token' = Transfer(token, Contract, caller, amount)
  /\ plans' = [plans EXCEPT ![p].total_amount = @ - amount]
  /\ UNCHANGED <<indexVars, otherThanPlans>>

(* The lending side books a loan against a lendable plan.  No entry point  *)
(* of the contract does; the tests write total_loaned to the storage.      *)
ExternalLend(p, amount) ==
  /\ PlanExists(p)
  /\ plans[p].is_active
  /\ plans[p].is_lendable
  /\ amount \in 1..Available(plans[p])
  /\ plans' = [plans EXCEPT ![p].total_loaned = @ + amount]
  /\ UNCHANGED <<token, indexVars, otherThanPlans>>

-----------------------------------------------------------------------------
(* Settings of a plan. *)

SetLendable(owner, p, lendable) ==
  /\ OwnedBy(p, owner)
  /\ plans' = [plans EXCEPT ![p].is_lendable = lendable]
  /\ UNCHANGED <<token, indexVars, otherThanPlans>>

EnableWaterfall(owner, p) ==
  /\ OwnedBy(p, owner)
  /\ plans' = [plans EXCEPT ![p].waterfall_enabled = TRUE]
  /\ UNCHANGED <<token, indexVars, otherThanPlans>>

SetBeneficiaryPriority(owner, p, i, priority) ==
  /\ OwnedBy(p, owner)
  /\ i \in DOMAIN plans[p].beneficiaries
  /\ priority # 0
  /\ \A j \in DOMAIN plans[p].beneficiaries \ {i} :
       plans[p].beneficiaries[j].priority # priority
  /\ plans' = [plans EXCEPT ![p].beneficiaries[i].priority = priority]
  /\ UNCHANGED <<token, indexVars, otherThanPlans>>

AddBeneficiary(owner, p, input) ==
  /\ ~paused
  /\ OwnedBy(p, owner)
  /\ CanAddBeneficiary(plans[p], input)
  /\ plans' = [plans EXCEPT ![p] = WithBeneficiary(@, input)]
  /\ UNCHANGED <<token, indexVars, otherThanPlans>>

RemoveBeneficiary(owner, p, i) ==
  /\ ~paused
  /\ OwnedBy(p, owner)
  /\ i \in DOMAIN plans[p].beneficiaries
  /\ plans[p].beneficiaries[i].allocation_bp <= plans[p].total_allocation_bp
  /\ plans' = [plans EXCEPT ![p] = WithoutBeneficiary(@, i)]
  /\ UNCHANGED <<token, indexVars, otherThanPlans>>

-----------------------------------------------------------------------------
(* Batches, which do not look at the pause switch. *)

AddOrSkip(plan, input) ==
  IF CanAddBeneficiary(plan, input) THEN WithBeneficiary(plan, input) ELSE plan

PlanAfterAdds(plan, inputs) ==
  LET after[i \in 0..Len(inputs)] ==
        IF i = 0 THEN plan ELSE AddOrSkip(after[i - 1], inputs[i])
  IN  after[Len(inputs)]

BatchAddBeneficiaries(owner, p, inputs) ==
  /\ Len(inputs) <= BATCH_LIMIT
  /\ OwnedBy(p, owner)
  /\ plans' = [plans EXCEPT ![p] = PlanAfterAdds(@, inputs)]
  /\ UNCHANGED <<token, indexVars, otherThanPlans>>

RemoveOrKeep(plan, i, indices) ==
  IF i \in indices THEN WithoutBeneficiary(plan, i) ELSE plan

(* Each index once, the highest first, those out of range dropped: what an *)
(* index finds when its turn comes is what it named before the batch.      *)
PlanAfterRemovals(plan, indices) ==
  LET n == Len(plan.beneficiaries)
      after[k \in 0..n] ==
        IF k = 0 THEN plan ELSE RemoveOrKeep(after[k - 1], n + 1 - k, indices)
  IN  after[n]

BatchRemoveBeneficiaries(owner, p, indices) ==
  /\ Cardinality(indices) <= BATCH_LIMIT
  /\ OwnedBy(p, owner)
  /\ plans' = [plans EXCEPT ![p] = PlanAfterRemovals(@, indices)]
  /\ UNCHANGED <<token, indexVars, otherThanPlans>>

BatchUpdateAllocations(owner, p, new) ==
  /\ OwnedBy(p, owner)
  /\ Len(new) = Len(plans[p].beneficiaries)
  /\ \A i \in DOMAIN new : new[i] # 0
  /\ SumUpTo(new, Len(new)) = FULL_ALLOCATION
  /\ plans' = [plans EXCEPT
       ![p].beneficiaries =
         [i \in 1..Len(new) |-> [@[i] EXCEPT !.allocation_bp = new[i]]],
       ![p].total_allocation_bp = FULL_ALLOCATION]
  /\ UNCHANGED <<token, indexVars, otherThanPlans>>

-----------------------------------------------------------------------------
(* The end of a plan, and a change of hands. *)

(* Faulty: the admin's list is not told. *)
DeactivateSilently(owner, p) ==
  /\ OwnedBy(p, owner)
  /\ plans[p].is_active
  /\ plans' = [plans EXCEPT ![p].is_active = FALSE]
  /\ UNCHANGED <<token, indexVars, otherThanPlans>>

(* The plan is only marked: no token goes back to its owner. *)
DeactivateInheritancePlan(owner, p) ==
  /\ OwnedBy(p, owner)
  /\ plans[p].is_active
  /\ plans' = [plans EXCEPT ![p].is_active = FALSE]
  /\ deactivated' = PushNew(deactivated, p)
  /\ UNCHANGED <<token, user_plans, otherThanPlans>>

(* Faulty: the plan stays on the list of its former owner. *)
KeepFirstId(s, id) == s

RemoveFirstId(s, id) ==
  IF ~InSeq(s, id) THEN s
  ELSE LET at == CHOOSE i \in DOMAIN s : s[i] = id /\ \A j \in 1..(i - 1) : s[j] # id
       IN  [k \in 1..(Len(s) - 1) |-> IF k < at THEN s[k] ELSE s[k + 1]]

TransferPlanOwnership(owner, new_owner, p) ==
  LET without == [user_plans EXCEPT ![owner] = RemoveFirstId(@, p)]
  IN  /\ OwnedBy(p, owner)
      /\ ~Triggered(p)
      /\ user_plans' = [without EXCEPT ![new_owner] = Append(@, p)]
      /\ plans' = [plans EXCEPT ![p].owner = new_owner]
      /\ UNCHANGED <<token, deactivated, otherThanPlans>>
=============================================================================
