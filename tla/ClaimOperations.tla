--------------------------- MODULE ClaimOperations --------------------------
(***************************************************************************)
(* Claims, one at a time and in batches.  A claim lowers the recorded      *)
(* amount of the plan and leaves a claim record; it moves no tokens.       *)
(***************************************************************************)
EXTENDS InheritanceState

ClaimKey(p, email) == <<p, HashString(email)>>

IsClaimTimeValid(plan) ==
  now - plan.created_at >= ClaimPeriod[plan.distribution_method]

(* Faulty: a deactivated plan is not told from an active one. *)
ClaimableWhenInactive(p) ==
  /\ PlanExists(p)
  /\ Triggered(p) \/ IsClaimTimeValid(plans[p])

Claimable(p) ==
  /\ PlanExists(p)
  /\ plans[p].is_active
  /\ Triggered(p) \/ IsClaimTimeValid(plans[p])

(* Faulty: the flag of a beneficiary stands for his claim record. *)
HasClaimedByFlag(p, email) ==
  \E i \in DOMAIN plans[p].beneficiaries :
    /\ plans[p].beneficiaries[i].hashed_email = HashString(email)
    /\ plans[p].beneficiaries[i].is_claimed

HasClaimed(p, email) == ClaimKey(p, email) \in DOMAIN claims

(* The indices of the beneficiaries with this e-mail hash and claim code.  *)
Matches(plan, email, code) ==
  {i \in DOMAIN plan.beneficiaries :
     /\ plan.beneficiaries[i].hashed_email = HashString(email)
     /\ plan.beneficiaries[i].hashed_claim_code = code}

FirstMatch(plan, email, code) ==
  CHOOSE i \in Matches(plan, email, code) :
    \A j \in Matches(plan, email, code) : i <= j

(* Faulty: those who have claimed still stand in the way. *)
HasSmallerPriority(plan, i) ==
  \E j \in DOMAIN plan.beneficiaries :
    /\ plan.beneficiaries[j].priority # 0
    /\ plan.beneficiaries[j].priority < plan.beneficiaries[i].priority

(* Somebody with a smaller, non-zero priority number is still to claim.    *)
HasEarlierClaimant(plan, i) ==
  \E j \in DOMAIN plan.beneficiaries :
    /\ plan.beneficiaries[j].priority # 0
    /\ plan.beneficiaries[j].priority < plan.beneficiaries[i].priority
    /\ ~plan.beneficiaries[j].is_claimed

(* calculate_waterfall_payout: a share of what the plan still holds.       *)
CalculateWaterfallPayout(plan, i) ==
  IF plan.waterfall_enabled /\ HasEarlierClaimant(plan, i) THEN 0
  ELSE Least(Share(plan.total_amount, plan.beneficiaries[i].allocation_bp),
             plan.total_amount)

(* Faulty: only the list of the owner is kept. *)
AddPlanToOwnersClaimed(owner, p) ==
  /\ claimed_plans' = [claimed_plans EXCEPT ![owner] = PushNew(@, p)]
  /\ all_claimed' = all_claimed

(* add_plan_to_claimed files the plan under its owner of the moment.       *)
AddPlanToClaimed(owner, p) ==
  /\ claimed_plans' = [claimed_plans EXCEPT ![owner] = PushNew(@, p)]
  /\ all_claimed' = PushNew(all_claimed, p)

ClaimInheritancePlan(claimer, p, email, code) ==
  LET plan   == plans[p]
      i      == FirstMatch(plan, email, code)
      payout == CalculateWaterfallPayout(plan, i)
  IN  /\ ~paused
      /\ KycApproved(claimer)
      /\ Claimable(p)
      /\ ~HasClaimed(p, email)
      /\ Matches(plan, email, code) # {}
      /\ ~(plan.waterfall_enabled /\ HasEarlierClaimant(plan, i))
      /\ WithinEmergencyLimit(p, plan, payout)
      /\ ~Triggered(p) => payout <= Available(plan)
      /\ payout # 0
      /\ plans' = [plans EXCEPT
           ![p].beneficiaries[i].is_claimed = TRUE,
           ![p].total_amount = SaturatingSub(@, payout)]
      /\ claims' = Put(claims, ClaimKey(p, email),
                       [beneficiary_index |-> i, payout |-> payout])
      /\ AddPlanToClaimed(plan.owner, p)
      /\ roles' = roles \cup {<<claimer, "Beneficiary">>}
      /\ UNCHANGED <<now, admin, paused, kyc, token, next_plan_id, indexVars,
                     triggers, conditions, guardVars>>

-----------------------------------------------------------------------------
(* A batch entry that cannot be claimed is counted and skipped.  One that  *)
(* can is paid its share whatever the order of the waterfall and the       *)
(* liquidity of the plan, and its is_claimed flag stays FALSE.             *)

BatchPayout(plan, i) ==
  Share(plan.total_amount, plan.beneficiaries[i].allocation_bp)

(* Faulty: a batch does not know the cooldown. *)
CanClaimAnyAmountInBatch(book, p, entry) ==
  /\ KycApproved(entry.claimer)
  /\ ClaimKey(p, entry.email) \notin DOMAIN book.claims
  /\ Matches(book.plan, entry.email, entry.claim_code) # {}

(* book is the pair of the plan and the claim records as the batch goes.   *)
CanClaimInBatch(book, p, entry) ==
  /\ KycApproved(entry.claimer)
  /\ ClaimKey(p, entry.email) \notin DOMAIN book.claims
  /\ Matches(book.plan, entry.email, entry.claim_code) # {}
  /\ WithinEmergencyLimit(p, book.plan,
       BatchPayout(book.plan, FirstMatch(book.plan, entry.email, entry.claim_code)))

(* Faulty: the grants of a batch are not taken off the plan. *)
ClaimOrSkipKeepingAmount(book, p, entry) ==
  LET i == FirstMatch(book.plan, entry.email, entry.claim_code)
  IN  IF ~CanClaimInBatch(book, p, entry) THEN book
      ELSE [book EXCEPT !.claims = Put(@, ClaimKey(p, entry.email),
             [beneficiary_index |-> i, payout |-> BatchPayout(book.plan, i)])]

ClaimOrSkip(book, p, entry) ==
  LET i      == FirstMatch(book.plan, entry.email, entry.claim_code)
      payout == BatchPayout(book.plan, i)
  IN  IF ~CanClaimInBatch(book, p, entry) THEN book
      ELSE [plan   |-> [book.plan EXCEPT !.total_amount = SaturatingSub(@, payout)],
            claims |-> Put(book.claims, ClaimKey(p, entry.email),
                           [beneficiary_index |-> i, payout |-> payout])]

BookAfterClaims(p, entries) ==
  LET after[k \in 0..Len(entries)] ==
        IF k = 0 THEN [plan |-> plans[p], claims |-> claims]
        ELSE ClaimOrSkip(after[k - 1], p, entries[k])
  IN  after[Len(entries)]

BatchClaim(p, entries) ==
  LET book == BookAfterClaims(p, entries)
  IN  /\ ~paused
      /\ Len(entries) <= BATCH_LIMIT
      /\ Claimable(p)
      /\ plans' = [plans EXCEPT ![p] = book.plan]
      /\ claims' = book.claims
      /\ IF book.claims = claims
         THEN UNCHANGED <<claimed_plans, all_claimed>>
         ELSE AddPlanToClaimed(plans[p].owner, p)
      /\ UNCHANGED <<now, accessVars, token, next_plan_id, indexVars, triggers,
                     conditions, guardVars>>
=============================================================================
