----------------------------- MODULE PlanProofs -----------------------------
(***************************************************************************)
(* What the steps of the inheritance contract do to its plans.  Every step *)
(* edits one plan, lists one (creation, deactivation, transfer), claims    *)
(* from one, or touches none; from what each kind keeps follow the         *)
(* properties about shares, marks of claims and loans, and about the lists *)
(* the contract keeps of its plans.                                        *)
(***************************************************************************)
EXTENDS InheritanceProofs

-----------------------------------------------------------------------------
(* What an edit of the beneficiaries preserves: the total of the shares is *)
(* their sum, and a mark of a claim stays with the e-mail hash it was set  *)
(* for.                                                                    *)

AddsUp(plan) == plan.total_allocation_bp = TotalAllocation(plan.beneficiaries)

KeepsMarks(new, old) ==
  \A i \in DOMAIN new.beneficiaries :
    new.beneficiaries[i].is_claimed =>
      \E j \in DOMAIN old.beneficiaries :
        /\ old.beneficiaries[j].is_claimed
        /\ old.beneficiaries[j].hashed_email = new.beneficiaries[i].hashed_email

SoundEdit(new, old) == KeepsMarks(new, old) /\ (AddsUp(old) => AddsUp(new))

(* The shares of a list of beneficiaries are a list of numbers. *)
LEMMA AllocationsTable ==
  ASSUME NEW bens \in Seq(Beneficiary)
  PROVE  /\ Len(bens) \in Nat /\ Allocations(bens) \in [1..Len(bens) -> Nat]
         /\ \A i \in 1..Len(bens) : Allocations(bens)[i] = bens[i].allocation_bp
<1>1. ASSUME NEW i \in 1..Len(bens) PROVE bens[i].allocation_bp \in Nat
  <2>1. bens[i] \in Beneficiary
    OBVIOUS
  <2> QED BY <2>1 DEF Beneficiary
<1> QED BY <1>1 DEF Allocations

(* A further beneficiary. *)
LEMMA AdditionIsSound ==
  ASSUME NEW plan \in Plan, NEW input \in BeneficiaryInput, CanAddBeneficiary(plan, input)
  PROVE  SoundEdit(WithBeneficiary(plan, input), plan)
<1> DEFINE old == plan.beneficiaries
           more == NewBeneficiary(input)
           new == Append(old, more)
           left == WithBeneficiary(plan, input)
<1>1. /\ old \in Seq(Beneficiary) /\ left \in Plan /\ left.beneficiaries = new
      /\ left.total_allocation_bp = plan.total_allocation_bp + input.allocation_bp
  <2> HIDE DEF more
  <2>1. WithBeneficiary(plan, input) \in Plan
    BY WithBeneficiaryTyped
  <2> QED BY <2>1 DEF WithBeneficiary, Plan, more
<1>2. more.allocation_bp = input.allocation_bp /\ more.is_claimed = FALSE
  BY DEF NewBeneficiary
<1>3. new \in Seq(Beneficiary)
  BY <1>1 DEF Plan
<1> HIDE DEF left, more
<1>4. /\ Len(new) = Len(old) + 1 /\ Len(old) \in Nat /\ new[Len(old) + 1] = more
      /\ \A i \in 1..Len(old) : new[i] = old[i]
  BY <1>1
<1> HIDE DEF new, old
<1>5. KeepsMarks(left, plan)
  <2> SUFFICES ASSUME NEW i \in DOMAIN new, new[i].is_claimed
               PROVE  \E j \in DOMAIN old : /\ old[j].is_claimed
                                            /\ old[j].hashed_email = new[i].hashed_email
    BY <1>1 DEF KeepsMarks, old
  <2>1. i \in 1..(Len(old) + 1)
    BY <1>3, <1>4
  <2>2. i \in 1..Len(old)
    BY <1>2, <1>4, <2>1
  <2> QED BY <1>1, <1>4, <2>2
<1>6. TotalAllocation(new) = TotalAllocation(old) + input.allocation_bp
  <2> DEFINE s == Allocations(old)
             t == Allocations(new)
             n == Len(old)
  <2>1. /\ n \in Nat /\ s \in [1..n -> Nat] /\ t \in [1..(n + 1) -> Nat]
        /\ \A i \in 1..n : s[i] = old[i].allocation_bp
        /\ \A i \in 1..(n + 1) : t[i] = new[i].allocation_bp
    BY <1>1, <1>3, <1>4, AllocationsTable
  <2>2. t[n + 1] = input.allocation_bp /\ \A k \in 1..n : t[k] = s[k]
    BY <1>2, <1>4, <2>1
  <2>3. TotalAllocation(new) = SumUpTo(t, n + 1) /\ TotalAllocation(old) = SumUpTo(s, n)
    BY <1>4 DEF TotalAllocation
  <2> HIDE DEF s, t, n
  <2> QED BY <2>1, <2>2, <2>3, SumExtended
<1> QED BY <1>1, <1>5, <1>6 DEF SoundEdit, AddsUp, left, old

(* One beneficiary less. *)
LEMMA RemovalIsSound ==
  ASSUME NEW plan \in Plan, NEW i \in 1..Len(plan.beneficiaries)
  PROVE  SoundEdit(WithoutBeneficiary(plan, i), plan)
<1> DEFINE old == plan.beneficiaries
           new == SwapRemove(old, i)
           n == Len(old) - 1
           left == WithoutBeneficiary(plan, i)
<1>1. /\ old \in Seq(Beneficiary) /\ left.beneficiaries = new
      /\ left.total_allocation_bp = SaturatingSub(plan.total_allocation_bp, old[i].allocation_bp)
      /\ plan.total_allocation_bp \in Nat
  <2> HIDE DEF new
  <2> QED BY FullAllocation DEF WithoutBeneficiary, Plan, new
<1>2. /\ new \in Seq(Beneficiary) /\ Len(new) = n /\ n \in Nat /\ Len(old) = n + 1
      /\ i \in 1..(n + 1)
      /\ \A k \in 1..n : new[k] = IF k = i THEN old[n + 1] ELSE old[k]
  <2>1. new \in Seq(Beneficiary) /\ Len(new) = n
    BY <1>1, SwapRemoveDef
  <2>2. Len(old) \in Nat /\ i \in 1..Len(old)
    BY <1>1
  <2> QED BY <2>1, <2>2 DEF SwapRemove
<1> HIDE DEF new, old, left, n
<1>3. KeepsMarks(left, plan)
  <2> SUFFICES ASSUME NEW k \in 1..n, new[k].is_claimed
               PROVE  \E j \in 1..(n + 1) : /\ old[j].is_claimed
                                            /\ old[j].hashed_email = new[k].hashed_email
    BY <1>1, <1>2 DEF KeepsMarks, old
  <2>1. new[k] = IF k = i THEN old[n + 1] ELSE old[k]
    BY <1>2
  <2>2. n + 1 \in 1..(n + 1) /\ k \in 1..(n + 1)
    BY <1>2
  <2> QED BY <2>1, <2>2
<1>4. TotalAllocation(new) = TotalAllocation(old) - old[i].allocation_bp
      /\ TotalAllocation(old) \in Nat /\ old[i].allocation_bp \in Nat
      /\ old[i].allocation_bp <= TotalAllocation(old)
  <2> DEFINE s == Allocations(old)
             t == Allocations(new)
  <2>1. /\ s \in [1..(n + 1) -> Nat] /\ t \in [1..n -> Nat]
        /\ \A k \in 1..(n + 1) : s[k] = old[k].allocation_bp
        /\ \A k \in 1..n : t[k] = new[k].allocation_bp
    BY <1>1, <1>2, AllocationsTable
  <2>2. s[i] = old[i].allocation_bp /\ \A k \in 1..n : t[k] = IF k = i THEN s[n + 1] ELSE s[k]
    <3>1. n + 1 \in 1..(n + 1) /\ \A k \in 1..n : k \in 1..(n + 1)
      BY <1>2
    <3> HIDE DEF s, t
    <3>2. ASSUME NEW k \in 1..n PROVE t[k] = IF k = i THEN s[n + 1] ELSE s[k]
      <4>1. t[k] = new[k].allocation_bp /\ new[k] = IF k = i THEN old[n + 1] ELSE old[k]
        BY <1>2, <2>1
      <4> QED BY <2>1, <3>1, <4>1
    <3> QED BY <1>2, <2>1, <3>2
  <2>3. TotalAllocation(old) = SumUpTo(s, n + 1) /\ TotalAllocation(new) = SumUpTo(t, n)
    BY <1>2 DEF TotalAllocation
  <2> HIDE DEF s, t
  <2>4. SumUpTo(t, n) = SumUpTo(s, n + 1) - s[i]
    BY <1>2, <2>1, <2>2, SumSwapped
  <2>5. SumUpTo(s, n + 1) \in Nat /\ s[i] <= SumUpTo(s, n + 1)
    <3>1. n + 1 \in Nat
      BY <1>2
    <3> QED BY <1>2, <2>1, <3>1, SumBoundsTerms
  <2>6. s[i] \in Nat
    BY <1>2, <2>1
  <2> QED BY <2>2, <2>3, <2>4, <2>5, <2>6
<1>5. AddsUp(plan) => AddsUp(left)
  BY <1>1, <1>4 DEF AddsUp, SaturatingSub, old
<1> QED BY <1>3, <1>5 DEF SoundEdit, left

(* A sound edit of a sound edit is one. *)
LEMMA SoundEdits ==
  ASSUME NEW a, NEW b, NEW c, SoundEdit(b, a), SoundEdit(c, b)
  PROVE  SoundEdit(c, a)
<1>1. KeepsMarks(c, a)
  <2> SUFFICES ASSUME NEW i \in DOMAIN c.beneficiaries, c.beneficiaries[i].is_claimed
               PROVE  \E j \in DOMAIN a.beneficiaries :
                        /\ a.beneficiaries[j].is_claimed
                        /\ a.beneficiaries[j].hashed_email = c.beneficiaries[i].hashed_email
    BY DEF KeepsMarks
  <2>1. PICK j \in DOMAIN b.beneficiaries :
           /\ b.beneficiaries[j].is_claimed
           /\ b.beneficiaries[j].hashed_email = c.beneficiaries[i].hashed_email
    BY DEF SoundEdit, KeepsMarks
  <2> QED BY <2>1 DEF SoundEdit, KeepsMarks
<1> QED BY <1>1 DEF SoundEdit

(* Batches of additions and of removals. *)
LEMMA BatchesAreSound ==
  ASSUME NEW plan \in Plan
  PROVE  /\ \A inputs \in Seq(BeneficiaryInput) : SoundEdit(PlanAfterAdds(plan, inputs), plan)
         /\ \A indices : SoundEdit(PlanAfterRemovals(plan, indices), plan)
<1> DEFINE S == {x \in Plan : SoundEdit(x, plan)}
<1>1. plan \in S
  BY DEF SoundEdit, KeepsMarks
<1>2. ASSUME NEW inputs \in Seq(BeneficiaryInput)
      PROVE  SoundEdit(PlanAfterAdds(plan, inputs), plan)
  <2>1. KeptByAdds(S, inputs)
    <3> SUFFICES ASSUME NEW x \in S, NEW i \in 1..Len(inputs)
                 PROVE  AddOrSkip(x, inputs[i]) \in S
      BY DEF KeptByAdds
    <3>1. inputs[i] \in BeneficiaryInput /\ x \in Plan /\ SoundEdit(x, plan)
      OBVIOUS
    <3>2. CASE ~CanAddBeneficiary(x, inputs[i])
      BY <3>2 DEF AddOrSkip
    <3>3. CASE CanAddBeneficiary(x, inputs[i])
      <4>1. WithBeneficiary(x, inputs[i]) \in Plan
        BY <3>1, <3>3, WithBeneficiaryTyped
      <4>2. SoundEdit(WithBeneficiary(x, inputs[i]), x)
        BY <3>1, <3>3, AdditionIsSound
      <4>3. SoundEdit(WithBeneficiary(x, inputs[i]), plan)
        BY <3>1, <4>2, SoundEdits
      <4> QED BY <3>3, <4>1, <4>3 DEF AddOrSkip
    <3> QED BY <3>2, <3>3
  <2>2. Len(inputs) \in Nat
    OBVIOUS
  <2> HIDE DEF S
  <2>3. PlanAfterAdds(plan, inputs) \in S
    BY <1>1, <2>1, <2>2, BatchAddRule
  <2> QED BY <2>3 DEF S
<1>3. ASSUME NEW indices
      PROVE  SoundEdit(PlanAfterRemovals(plan, indices), plan)
  <2>1. KeptByRemovals(S)
    <3> SUFFICES ASSUME NEW x \in S, NEW i \in 1..Len(x.beneficiaries)
                 PROVE  WithoutBeneficiary(x, i) \in S
      BY DEF KeptByRemovals
    <3>1. x \in Plan /\ SoundEdit(x, plan)
      OBVIOUS
    <3>2. WithoutBeneficiary(x, i) \in Plan /\ SoundEdit(WithoutBeneficiary(x, i), x)
      BY <3>1, WithoutBeneficiaryTyped, RemovalIsSound
    <3> QED BY <3>1, <3>2, SoundEdits
  <2>2. S \in SUBSET Plan
    OBVIOUS
  <2> HIDE DEF S
  <2>3. PlanAfterRemovals(plan, indices) \in S
    BY <1>1, <2>1, <2>2, BatchRemoveRule
  <2> QED BY <2>3 DEF S
<1> QED BY <1>2, <1>3

-----------------------------------------------------------------------------
(* The kinds of steps there are. *)

Covered(plan) == plan.total_loaned <= plan.total_amount

SameOwner(new, old) == new.owner = old.owner /\ new.is_active = old.is_active

(* How money moves with an edit: not at all, into the escrow, to the owner *)
(* of the plan, or as a loan that is written off.                          *)
Unmoved(p, plan) == plan.total_amount = plans[p].total_amount /\ UNCHANGED token

PaidIn(p, plan) ==
  \E amount \in Nat \ {0} :
    /\ plans[p].is_active
    /\ plan.total_amount = plans[p].total_amount + amount
    /\ token'[Contract] = token[Contract] + amount

PaidOut(p, plan) ==
  \E amount \in Nat \ {0} :
    /\ WithinEmergencyLimit(p, plans[p], amount)
    /\ plan.total_amount = plans[p].total_amount - amount
    /\ token'[Contract] = token[Contract] - amount
    /\ token'[plans[p].owner] = token[plans[p].owner] + amount

WrittenOff(p, plan) ==
  /\ Triggered(p) /\ plans[p].total_loaned > 0 /\ plan.total_loaned = 0
  /\ plan.total_amount <= plans[p].total_amount
  /\ UNCHANGED token

(* A plan is triggered, or none is. *)
NewlyTriggered(p, plan) ==
  /\ plans[p].is_active /\ ~Triggered(p)
  /\ DOMAIN triggers' = DOMAIN triggers \cup {p}
  /\ Unmoved(p, plan)

SameTriggers == DOMAIN triggers' = DOMAIN triggers

Booked(p, plan) ==
  \/ NewlyTriggered(p, plan)
  \/ /\ SameTriggers
     /\ Unmoved(p, plan) \/ PaidIn(p, plan) \/ PaidOut(p, plan) \/ WrittenOff(p, plan)

(* One plan is edited, no claim made and no plan listed or dropped.        *)
Edited(p, plan) ==
  /\ p \in DOMAIN plans /\ plan \in Plan
  /\ plans' = [plans EXCEPT ![p] = plan]
  /\ SoundEdit(plan, plans[p]) /\ SameOwner(plan, plans[p])
  /\ ~Triggered(p) /\ Covered(plans[p]) => Covered(plan)
  /\ Booked(p, plan)
  /\ UNCHANGED <<claimVars, indexVars>>

Edits == \E p, plan : Edited(p, plan)

Listing ==
  \/ \E owner \in Address, amount \in CreateAmount, inputs \in Seq(BeneficiaryInput) :
       \E method, lendable : CreateInheritancePlan(owner, amount, method, inputs, lendable)
  \/ \E p \in PlanId, owner \in Address :
       \/ DeactivateInheritancePlan(owner, p)
       \/ \E new_owner \in Address : TransferPlanOwnership(owner, new_owner, p)

Claiming ==
  \E p \in PlanId :
    \/ \E claimer \in Address, email \in Email :
         \E code : ClaimInheritancePlan(claimer, p, email, code)
    \/ \E entries \in Seq(EntryRecord) : BatchClaim(p, entries)

Elsewhere == UNCHANGED <<plans, token, triggers, claimVars, indexVars>>

(* What a plan is after an edit is a plan. *)
LEMMA EditedTyped ==
  ASSUME TypeOK, TypeOK', NEW p \in DOMAIN plans, NEW plan,
         plans' = [plans EXCEPT ![p] = plan]
  PROVE  plan \in Plan
<1>1. plans'[p] = plan /\ p \in DOMAIN plans'
  BY DEF TypeOK
<1> QED BY <1>1 DEF TypeOK

(* Edits that leave the beneficiaries alone. *)
LEMMA FundsEdit ==
  ASSUME TypeOK, TypeOK', NEW p \in DOMAIN plans, NEW plan,
         plans' = [plans EXCEPT ![p] = plan], UNCHANGED <<claimVars, indexVars>>,
         plan.beneficiaries = plans[p].beneficiaries,
         plan.total_allocation_bp = plans[p].total_allocation_bp,
         SameOwner(plan, plans[p]), ~Triggered(p) /\ Covered(plans[p]) => Covered(plan),
         Booked(p, plan)
  PROVE  Edits
<1>1. plan \in Plan
  BY EditedTyped
<1>2. SoundEdit(plan, plans[p])
  BY DEF SoundEdit, KeepsMarks, AddsUp
<1>3. Edited(p, plan)
  BY <1>1, <1>2 DEF Edited
<1> QED BY <1>3 DEF Edits

(* Edits that leave the funds alone. *)
LEMMA HeirsEdit ==
  ASSUME TypeOK, TypeOK', NEW p \in DOMAIN plans, NEW plan,
         plans' = [plans EXCEPT ![p] = plan],
         UNCHANGED <<token, triggers, claimVars, indexVars>>,
         SoundEdit(plan, plans[p]), SameFunds(plan, plans[p])
  PROVE  Edits
<1>1. plan \in Plan
  BY EditedTyped
<1>2. Edited(p, plan)
  BY <1>1 DEF Edited, SameFunds, SameOwner, Covered, Booked, SameTriggers, Unmoved
<1> QED BY <1>2 DEF Edits

(* Deposits, withdrawals, loans and flags. *)
LEMMA FundsKind ==
  ASSUME TypeOK, TypeOK', NEW p, NEW caller \in Address,
         \/ \E amount \in DepositAmount : Deposit(caller, p, amount)
         \/ \E amount \in WithdrawAmount : Withdraw(caller, p, amount)
         \/ \E amount \in LoanAmount : ExternalLend(p, amount)
         \/ \E lendable \in LendableValue : SetLendable(caller, p, lendable)
         \/ EnableWaterfall(caller, p)
  PROVE  Edits
<1>1. /\ p \in DOMAIN plans /\ plans[p] \in Plan
      /\ plans[p].total_amount \in Nat /\ plans[p].total_loaned \in Nat
      /\ UNCHANGED <<triggers, claimVars, indexVars>>
  <2>1. p \in DOMAIN plans /\ UNCHANGED <<triggers, claimVars, indexVars>>
    BY DEF Deposit, Withdraw, ExternalLend, SetLendable, EnableWaterfall, OwnedBy,
           PlanExists, otherThanPlans
  <2> QED BY <2>1, PlanAmounts DEF TypeOK
<1>0. SameTriggers /\ token \in [Address \cup {Contract} -> Nat] /\ caller # Contract
  BY <1>1, AccountAssumption DEF SameTriggers, TypeOK
<1>2. ASSUME NEW amount \in DepositAmount, Deposit(caller, p, amount) PROVE Edits
  <2> DEFINE plan == [plans[p] EXCEPT !.total_amount = @ + amount]
  <2>1. plans' = [plans EXCEPT ![p] = plan]
    BY <1>2 DEF Deposit
  <2>2. /\ plan.beneficiaries = plans[p].beneficiaries
        /\ plan.total_allocation_bp = plans[p].total_allocation_bp
        /\ SameOwner(plan, plans[p]) /\ plan.total_loaned = plans[p].total_loaned
        /\ plan.total_amount = plans[p].total_amount + amount
    BY <1>1 DEF SameOwner, Plan
  <2> HIDE DEF plan
  <2>3. amount \in Nat
    BY ArgumentAssumption
  <2>4. Covered(plans[p]) => Covered(plan)
    BY <1>1, <2>2, <2>3 DEF Covered
  <2>5. PaidIn(p, plan)
    <3>1. token'[Contract] = token[Contract] + amount /\ amount > 0 /\ plans[p].is_active
      BY <1>0, <1>2, <2>3 DEF Deposit, Transfer
    <3> QED BY <2>2, <2>3, <3>1 DEF PaidIn
  <2> QED BY <1>0, <1>1, <2>1, <2>2, <2>4, <2>5, FundsEdit DEF Booked
<1>3. ASSUME NEW amount \in WithdrawAmount, Withdraw(caller, p, amount) PROVE Edits
  <2> DEFINE plan == [plans[p] EXCEPT !.total_amount = @ - amount]
  <2>1. plans' = [plans EXCEPT ![p] = plan]
    BY <1>3 DEF Withdraw
  <2>2. /\ plan.beneficiaries = plans[p].beneficiaries
        /\ plan.total_allocation_bp = plans[p].total_allocation_bp
        /\ SameOwner(plan, plans[p]) /\ plan.total_loaned = plans[p].total_loaned
        /\ plan.total_amount = plans[p].total_amount - amount
    BY <1>1 DEF SameOwner, Plan
  <2> HIDE DEF plan
  <2>3. amount \in Nat /\ amount <= Available(plans[p])
    BY <1>3, ArgumentAssumption DEF Withdraw
  <2>4. Covered(plans[p]) => Covered(plan)
    BY <1>1, <2>2, <2>3 DEF Covered, Available, SaturatingSub
  <2>5. PaidOut(p, plan)
    <3>1. /\ token' = Transfer(token, Contract, caller, amount) /\ amount > 0
          /\ plans[p].owner = caller /\ WithinEmergencyLimit(p, plans[p], amount)
      BY <1>3 DEF Withdraw, OwnedBy
    <3>2. /\ token'[Contract] = token[Contract] - amount
          /\ token'[caller] = token[caller] + amount
      BY <1>0, <2>3, <3>1 DEF Transfer
    <3> QED BY <2>2, <2>3, <3>1, <3>2 DEF PaidOut
  <2> QED BY <1>0, <1>1, <2>1, <2>2, <2>4, <2>5, FundsEdit DEF Booked
<1>4. ASSUME NEW amount \in LoanAmount, ExternalLend(p, amount) PROVE Edits
  <2> DEFINE plan == [plans[p] EXCEPT !.total_loaned = @ + amount]
  <2>1. plans' = [plans EXCEPT ![p] = plan]
    BY <1>4 DEF ExternalLend
  <2>2. /\ plan.beneficiaries = plans[p].beneficiaries
        /\ plan.total_allocation_bp = plans[p].total_allocation_bp
        /\ SameOwner(plan, plans[p]) /\ plan.total_amount = plans[p].total_amount
        /\ plan.total_loaned = plans[p].total_loaned + amount
    BY <1>1 DEF SameOwner, Plan
  <2> HIDE DEF plan
  <2>3. amount \in Nat /\ amount <= Available(plans[p])
    BY <1>4, ArgumentAssumption DEF ExternalLend
  <2>4. Covered(plans[p]) => Covered(plan)
    BY <1>1, <2>2, <2>3 DEF Covered, Available, SaturatingSub
  <2>5. Unmoved(p, plan)
    BY <1>1, <1>4, <2>2 DEF Unmoved, ExternalLend
  <2> QED BY <1>0, <1>1, <2>1, <2>2, <2>4, <2>5, FundsEdit DEF Booked
<1>5. ASSUME NEW lendable \in LendableValue, SetLendable(caller, p, lendable) PROVE Edits
  <2> DEFINE plan == [plans[p] EXCEPT !.is_lendable = lendable]
  <2>1. plans' = [plans EXCEPT ![p] = plan]
    BY <1>5 DEF SetLendable
  <2>2. /\ plan.beneficiaries = plans[p].beneficiaries
        /\ plan.total_allocation_bp = plans[p].total_allocation_bp
        /\ SameOwner(plan, plans[p]) /\ Covered(plan) = Covered(plans[p])
        /\ plan.total_amount = plans[p].total_amount
    BY <1>1 DEF SameOwner, Covered, Plan
  <2> HIDE DEF plan
  <2>3. Unmoved(p, plan)
    BY <1>5, <2>2 DEF Unmoved, SetLendable
  <2> QED BY <1>0, <1>1, <2>1, <2>2, <2>3, FundsEdit DEF Booked
<1>6. CASE EnableWaterfall(caller, p)
  <2> DEFINE plan == [plans[p] EXCEPT !.waterfall_enabled = TRUE]
  <2>1. plans' = [plans EXCEPT ![p] = plan]
    BY <1>6 DEF EnableWaterfall
  <2>2. /\ plan.beneficiaries = plans[p].beneficiaries
        /\ plan.total_allocation_bp = plans[p].total_allocation_bp
        /\ SameOwner(plan, plans[p]) /\ Covered(plan) = Covered(plans[p])
        /\ plan.total_amount = plans[p].total_amount
    BY <1>1 DEF SameOwner, Covered, Plan
  <2> HIDE DEF plan
  <2>3. Unmoved(p, plan)
    BY <1>6, <2>2 DEF Unmoved, EnableWaterfall
  <2> QED BY <1>0, <1>1, <2>1, <2>2, <2>3, FundsEdit DEF Booked
<1> QED BY <1>2, <1>3, <1>4, <1>5, <1>6

(* Additions and removals of beneficiaries. *)
LEMMA HeirsKind ==
  ASSUME TypeOK, TypeOK', NEW p, NEW caller,
         \/ \E input \in AddInput : AddBeneficiary(caller, p, input)
         \/ \E i \in RemoveIndex : RemoveBeneficiary(caller, p, i)
         \/ \E inputs \in AddBatch : BatchAddBeneficiaries(caller, p, inputs)
         \/ \E indices \in RemoveBatch : BatchRemoveBeneficiaries(caller, p, indices)
  PROVE  Edits
<1>1. p \in DOMAIN plans /\ plans[p] \in Plan /\ UNCHANGED <<token, triggers, claimVars, indexVars>>
  <2>1. p \in DOMAIN plans /\ UNCHANGED <<token, triggers, claimVars, indexVars>>
    BY DEF AddBeneficiary, RemoveBeneficiary, BatchAddBeneficiaries,
           BatchRemoveBeneficiaries, OwnedBy, PlanExists, otherThanPlans
  <2> QED BY <2>1 DEF TypeOK
<1>2. ASSUME NEW input \in AddInput, AddBeneficiary(caller, p, input) PROVE Edits
  <2> DEFINE plan == WithBeneficiary(plans[p], input)
  <2>1. plans' = [plans EXCEPT ![p] = plan]
    BY <1>2 DEF AddBeneficiary
  <2>2. SoundEdit(plan, plans[p])
    BY <1>1, <1>2, ArgumentAssumption, AdditionIsSound DEF AddBeneficiary
  <2>3. SameFunds(plan, plans[p])
    BY <1>1 DEF WithBeneficiary, Plan, SameFunds
  <2> HIDE DEF plan
  <2> QED BY <1>1, <2>1, <2>2, <2>3, HeirsEdit
<1>3. ASSUME NEW i \in RemoveIndex, RemoveBeneficiary(caller, p, i) PROVE Edits
  <2> DEFINE plan == WithoutBeneficiary(plans[p], i)
  <2>1. plans' = [plans EXCEPT ![p] = plan]
    BY <1>3 DEF RemoveBeneficiary
  <2>2. i \in 1..Len(plans[p].beneficiaries)
    BY <1>1, <1>3 DEF RemoveBeneficiary, Plan
  <2>3. SoundEdit(plan, plans[p])
    BY <1>1, <2>2, RemovalIsSound
  <2>4. SameFunds(plan, plans[p])
    BY <1>1 DEF WithoutBeneficiary, Plan, SameFunds
  <2> HIDE DEF plan
  <2> QED BY <1>1, <2>1, <2>3, <2>4, HeirsEdit
<1>4. ASSUME NEW inputs \in AddBatch, BatchAddBeneficiaries(caller, p, inputs) PROVE Edits
  <2> DEFINE plan == PlanAfterAdds(plans[p], inputs)
  <2>1. plans' = [plans EXCEPT ![p] = plan]
    BY <1>4 DEF BatchAddBeneficiaries
  <2>2. inputs \in Seq(BeneficiaryInput)
    BY ArgumentAssumption
  <2>3. SoundEdit(plan, plans[p]) /\ SameFunds(plan, plans[p])
    BY <1>1, <2>2, BatchesAreSound, BatchAddKeeps
  <2> HIDE DEF plan
  <2> QED BY <1>1, <2>1, <2>3, HeirsEdit
<1>5. ASSUME NEW indices \in RemoveBatch, BatchRemoveBeneficiaries(caller, p, indices)
      PROVE  Edits
  <2> DEFINE plan == PlanAfterRemovals(plans[p], indices)
  <2>1. plans' = [plans EXCEPT ![p] = plan]
    BY <1>5 DEF BatchRemoveBeneficiaries
  <2>2. SoundEdit(plan, plans[p]) /\ SameFunds(plan, plans[p])
    BY <1>1, BatchesAreSound, BatchRemoveKeeps
  <2> HIDE DEF plan
  <2> QED BY <1>1, <2>1, <2>2, HeirsEdit
<1> QED BY <1>2, <1>3, <1>4, <1>5

(* A new priority. *)
LEMMA PriorityKind ==
  ASSUME TypeOK, TypeOK', NEW p, NEW caller, NEW i, NEW priority,
         SetBeneficiaryPriority(caller, p, i, priority)
  PROVE  Edits
<1> DEFINE old  == plans[p].beneficiaries
           bens == [old EXCEPT ![i].priority = priority]
           plan == [plans[p] EXCEPT !.beneficiaries = bens]
<1>1. /\ p \in DOMAIN plans /\ plans[p] \in Plan /\ old \in Seq(Beneficiary)
      /\ UNCHANGED <<token, triggers, claimVars, indexVars>>
  BY OwnedTyped DEF SetBeneficiaryPriority, Plan, otherThanPlans
<1>2. i \in 1..Len(old) /\ old[i] \in Beneficiary
  BY <1>1 DEF SetBeneficiaryPriority
<1>3. plans' = [plans EXCEPT ![p] = plan]
  BY DEF SetBeneficiaryPriority
<1>4. /\ plan.beneficiaries = bens /\ plan.total_allocation_bp = plans[p].total_allocation_bp
      /\ SameFunds(plan, plans[p])
  <2> HIDE DEF bens
  <2> QED BY <1>1 DEF Plan, SameFunds
<1>5. /\ Len(bens) = Len(old) /\ DOMAIN bens = DOMAIN old
      /\ \A k \in 1..Len(old) : /\ bens[k].allocation_bp = old[k].allocation_bp
                                /\ bens[k].is_claimed = old[k].is_claimed
                                /\ bens[k].hashed_email = old[k].hashed_email
  <2>1. bens = [old EXCEPT ![i] = [old[i] EXCEPT !.priority = priority]]
    OBVIOUS
  <2> DEFINE new == [old[i] EXCEPT !.priority = priority]
  <2>2. /\ new.allocation_bp = old[i].allocation_bp /\ new.is_claimed = old[i].is_claimed
        /\ new.hashed_email = old[i].hashed_email
    BY <1>2 DEF Beneficiary
  <2> HIDE DEF new, bens
  <2>3. bens = [old EXCEPT ![i] = new]
    BY <2>1 DEF new
  <2> QED BY <1>1, <1>2, <2>2, <2>3
<1> HIDE DEF bens, plan
<1>6. SoundEdit(plan, plans[p])
  <2>1. KeepsMarks(plan, plans[p])
    BY <1>1, <1>4, <1>5 DEF KeepsMarks
  <2>2. TotalAllocation(bens) = TotalAllocation(old)
    BY <1>5 DEF TotalAllocation, Allocations
  <2> QED BY <1>4, <2>1, <2>2 DEF SoundEdit, AddsUp
<1> QED BY <1>1, <1>3, <1>4, <1>6, HeirsEdit

(* New allocations. *)
LEMMA AllocationsKind ==
  ASSUME TypeOK, TypeOK', NEW p, NEW caller, NEW new \in NewAllocation,
         BatchUpdateAllocations(caller, p, new)
  PROVE  Edits
<1> DEFINE old  == plans[p].beneficiaries
           bens == [i \in 1..Len(new) |-> [old[i] EXCEPT !.allocation_bp = new[i]]]
           plan == [plans[p] EXCEPT !.beneficiaries = bens,
                                    !.total_allocation_bp = FULL_ALLOCATION]
<1>1. /\ p \in DOMAIN plans /\ plans[p] \in Plan /\ old \in Seq(Beneficiary)
      /\ UNCHANGED <<token, triggers, claimVars, indexVars>>
  BY OwnedTyped DEF BatchUpdateAllocations, Plan, otherThanPlans
<1>2. new \in Seq(Nat) /\ Len(new) = Len(old)
  BY ArgumentAssumption DEF BatchUpdateAllocations
<1>3. plans' = [plans EXCEPT ![p] = plan]
  BY DEF BatchUpdateAllocations
<1>4. /\ plan.beneficiaries = bens /\ plan.total_allocation_bp = FULL_ALLOCATION
      /\ SameFunds(plan, plans[p])
  <2> HIDE DEF bens
  <2> QED BY <1>1 DEF Plan, SameFunds
<1>5. /\ Len(bens) = Len(new) /\ DOMAIN bens = 1..Len(new)
      /\ \A k \in 1..Len(new) : /\ bens[k].allocation_bp = new[k]
                                /\ bens[k].is_claimed = old[k].is_claimed
                                /\ bens[k].hashed_email = old[k].hashed_email
  <2>1. ASSUME NEW k \in 1..Len(new)
        PROVE  /\ bens[k].allocation_bp = new[k]
               /\ bens[k].is_claimed = old[k].is_claimed
               /\ bens[k].hashed_email = old[k].hashed_email
    <3>1. old[k] \in Beneficiary
      BY <1>1, <1>2
    <3> QED BY <3>1 DEF Beneficiary
  <2>2. Len(new) \in Nat
    BY <1>2
  <2> QED BY <2>1, <2>2
<1> HIDE DEF bens, plan
<1>6. SoundEdit(plan, plans[p])
  <2>1. KeepsMarks(plan, plans[p])
    <3>1. DOMAIN old = 1..Len(new)
      BY <1>1, <1>2
    <3> QED BY <1>4, <1>5, <3>1 DEF KeepsMarks
  <2>2. Allocations(bens) = new
    <3>1. new = [k \in 1..Len(new) |-> new[k]]
      BY <1>2
    <3>2. Allocations(bens) = [k \in 1..Len(new) |-> new[k]]
      BY <1>5 DEF Allocations
    <3> QED BY <3>1, <3>2
  <2>3. TotalAllocation(bens) = FULL_ALLOCATION
    BY <1>5, <2>2 DEF TotalAllocation, BatchUpdateAllocations
  <2> QED BY <1>4, <2>1, <2>3 DEF SoundEdit, AddsUp
<1> QED BY <1>1, <1>3, <1>4, <1>6, HeirsEdit

(* Triggers and what follows them. *)
LEMMA TriggerKind ==
  ASSUME TypeOK, TypeOK', NEW p \in DOMAIN plans, NEW caller, NEW by,
         \/ Trigger(p, by)
         \/ \E amount \in RecallAmount : RecallLoan(caller, p, amount)
         \/ LiquidationFallback(caller, p)
  PROVE  Edits
<1>1. plans[p] \in Plan /\ UNCHANGED <<token, claimVars, indexVars>>
  BY DEF TypeOK, Trigger, RecallLoan, LiquidationFallback, otherThanTrigger
<1>2. CASE Trigger(p, by)
  <2> DEFINE plan == [plans[p] EXCEPT !.is_lendable = FALSE]
  <2>1. plans' = [plans EXCEPT ![p] = plan]
    BY <1>2 DEF Trigger
  <2>2. /\ plan.beneficiaries = plans[p].beneficiaries
        /\ plan.total_allocation_bp = plans[p].total_allocation_bp
        /\ SameOwner(plan, plans[p]) /\ Covered(plan) = Covered(plans[p])
        /\ plan.total_amount = plans[p].total_amount
    BY <1>1 DEF SameOwner, Covered, Plan
  <2> HIDE DEF plan
  <2>3. NewlyTriggered(p, plan)
    BY <1>1, <1>2, <2>2 DEF NewlyTriggered, Unmoved, Trigger, Put
  <2> QED BY <1>1, <2>1, <2>2, <2>3, FundsEdit DEF Booked
<1>3. ASSUME NEW amount \in RecallAmount, RecallLoan(caller, p, amount) PROVE Edits
  <2> DEFINE plan == [plans[p] EXCEPT !.total_loaned = @ - amount]
  <2>1. plans' = [plans EXCEPT ![p] = plan] /\ Triggered(p)
    BY <1>3 DEF RecallLoan
  <2>2. /\ plan.beneficiaries = plans[p].beneficiaries
        /\ plan.total_allocation_bp = plans[p].total_allocation_bp
        /\ SameOwner(plan, plans[p]) /\ plan.total_amount = plans[p].total_amount
    BY <1>1 DEF SameOwner, Plan
  <2> HIDE DEF plan
  <2>3. SameTriggers /\ Unmoved(p, plan)
    BY <1>1, <1>3, <2>2 DEF SameTriggers, Unmoved, RecallLoan
  <2> QED BY <1>1, <2>1, <2>2, <2>3, FundsEdit DEF Booked
<1>4. CASE LiquidationFallback(caller, p)
  <2> DEFINE left == SaturatingSub(plans[p].total_amount, plans[p].total_loaned)
             plan == [plans[p] EXCEPT !.total_amount = left, !.total_loaned = 0]
  <2>1. plans' = [plans EXCEPT ![p] = plan] /\ Triggered(p)
    BY <1>4 DEF LiquidationFallback
  <2>2. /\ plan.beneficiaries = plans[p].beneficiaries
        /\ plan.total_allocation_bp = plans[p].total_allocation_bp
        /\ SameOwner(plan, plans[p])
        /\ plan.total_amount = left /\ plan.total_loaned = 0
    <3> HIDE DEF left
    <3> QED BY <1>1 DEF SameOwner, Plan
  <2> HIDE DEF plan
  <2>3. left <= plans[p].total_amount
    BY PlanAmounts DEF SaturatingSub
  <2>4. SameTriggers /\ WrittenOff(p, plan)
    BY <1>1, <1>4, <2>2, <2>3 DEF SameTriggers, WrittenOff, LiquidationFallback
  <2> QED BY <1>1, <2>1, <2>2, <2>4, FundsEdit DEF Booked
<1> QED BY <1>2, <1>3, <1>4

(* Calls on plans. *)
LEMMA PlanKinds == TypeOK /\ TypeOK' /\ PlanNext => Edits \/ Listing
<1> SUFFICES ASSUME TypeOK, TypeOK', PlanNext PROVE Edits \/ Listing
  OBVIOUS
<1>1. ASSUME NEW owner \in Address, NEW amount \in CreateAmount, NEW method \in CreateMethod,
             NEW inputs \in CreateInputs, NEW lendable \in LendableValue,
             CreateInheritancePlan(owner, amount, method, inputs, lendable)
      PROVE  Listing
  <2>1. inputs \in Seq(BeneficiaryInput)
    BY ArgumentAssumption
  <2> QED BY <1>1, <2>1 DEF Listing
<1>2. ASSUME NEW p \in PlanId, NEW caller \in Address, NEW new_owner \in NewOwner,
             TransferPlanOwnership(caller, new_owner, p)
      PROVE  Listing
  <2>1. new_owner \in Address
    BY ArgumentAssumption
  <2> QED BY <1>2, <2>1 DEF Listing
<1>3. ASSUME NEW p \in PlanId, NEW caller \in Address, DeactivateInheritancePlan(caller, p)
      PROVE  Listing
  BY <1>3 DEF Listing
<1>4. ASSUME NEW p \in PlanId, NEW amount \in LoanAmount, ExternalLend(p, amount)
      PROVE  Edits
  <2>1. \E a \in LoanAmount : ExternalLend(p, a)
    BY <1>4
  <2>2. plans[p].owner \in Address
    BY <1>4 DEF ExternalLend, PlanExists, TypeOK, Plan
  <2> QED BY <2>1, <2>2, FundsKind
<1> QED
  BY <1>1, <1>2, <1>3, <1>4, FundsKind, HeirsKind, PriorityKind, AllocationsKind DEF PlanNext

(* Any step. *)
LEMMA StepKinds == TypeOK /\ TypeOK' /\ [Next]_vars => Elsewhere \/ Edits \/ Listing \/ Claiming
<1> SUFFICES ASSUME TypeOK, TypeOK', [Next]_vars
             PROVE  Elsewhere \/ Edits \/ Listing \/ Claiming
  OBVIOUS
<1>1. CASE AdminNext
  <2>1. UNCHANGED otherThanAccess
    BY <1>1, AdminFrame
  <2> QED BY <2>1 DEF otherThanAccess, Elsewhere
<1>2. CASE EmergencyNext
  <2>1. UNCHANGED otherThanGuards
    BY <1>2, EmergencyFrame
  <2> QED BY <2>1 DEF otherThanGuards, Elsewhere
<1>3. CASE Tick \/ UNCHANGED vars
  BY <1>3 DEF Tick, Advance, vars, Elsewhere
<1>4. CASE ClaimNext
  <2> PICK p \in PlanId :
        \/ \E e \in ClaimEntry : ClaimInheritancePlan(e.claimer, p, e.email, e.claim_code)
        \/ \E entries \in ClaimBatch : BatchClaim(p, entries)
    BY <1>4 DEF ClaimNext
  <2>1. ASSUME NEW e \in ClaimEntry,
               ClaimInheritancePlan(e.claimer, p, e.email, e.claim_code)
        PROVE  Claiming
    <3>1. e.claimer \in Address /\ e.email \in Email
      BY ArgumentAssumption
    <3> QED BY <2>1, <3>1 DEF Claiming
  <2>2. ASSUME NEW entries \in ClaimBatch, BatchClaim(p, entries) PROVE Claiming
    <3>1. entries \in Seq(EntryRecord)
      BY ArgumentAssumption DEF EntryRecord
    <3> QED BY <2>2, <3>1 DEF Claiming
  <2> QED BY <2>1, <2>2
<1>5. CASE TriggerNext
  <2> SUFFICES ASSUME NEW p \in PlanId,
               \/ \E caller \in TriggerCaller : TriggerInheritance(caller, p)
               \/ AutoTriggerCheck(p)
               \/ \E caller \in Address : ConfigStep(caller, p)
               \/ \E caller \in Address, amount \in RecallAmount :
                    RecallLoan(caller, p, amount)
               \/ \E caller \in Address : LiquidationFallback(caller, p)
               PROVE Elsewhere \/ Edits
    BY <1>5 DEF TriggerNext, ConfigStep
  <2>1. ASSUME NEW caller \in Address, ConfigStep(caller, p) PROVE Elsewhere
    <3>1. UNCHANGED <<plans, triggers, otherThanTrigger>>
      BY <2>1 DEF ConfigStep, SetTriggerConditions, AddTimeTrigger, AddInactivityTrigger,
         AddOracleTrigger, AddHealthTrigger, RecordActivity, SubmitOracleTrigger,
         SubmitHealthTrigger, SaveConfig
    <3> QED BY <3>1 DEF otherThanTrigger, Elsewhere
  <2>2. ASSUME NEW caller, \/ \E by : Trigger(p, by)
                           \/ \E amount \in RecallAmount : RecallLoan(caller, p, amount)
                           \/ LiquidationFallback(caller, p),
               p \in DOMAIN plans
        PROVE  Edits
    BY <2>2, TriggerKind
  <2> QED BY <2>1, <2>2 DEF TriggerInheritance, AutoTriggerCheck, RecallLoan,
             LiquidationFallback, PlanExists
<1> QED BY <1>1, <1>2, <1>3, <1>4, <1>5, PlanKinds DEF Next

-----------------------------------------------------------------------------
(* What claims make of a plan and of the records. *)

Fresh(records) == [key \in DOMAIN records \ DOMAIN claims |-> records[key].payout]

Limit(plan) == Share(plan.total_amount, EMERGENCY_TRANSFER_LIMIT_BP)

SameTerms(new, old) ==
  /\ SameOwner(new, old)
  /\ new.total_loaned = old.total_loaned
  /\ new.total_allocation_bp = old.total_allocation_bp

(* Claims of p were granted and taken off it, none above the limit of the  *)
(* cooldown.                                                               *)
GrantedFrom(p, plan, records) ==
  /\ SameTerms(plan, plans[p])
  /\ OnlyNewClaims(claims, records, p)
  /\ IntMap(Fresh(records))
  /\ plan.total_amount = plans[p].total_amount - Total(Fresh(records))
  /\ plan.total_amount <= plans[p].total_amount
  /\ IsEmergencyActive(p) =>
       \A key \in DOMAIN Fresh(records) : Fresh(records)[key] <= Limit(plans[p])

(* A larger amount has no smaller share. *)
LEMMA ShareGrows ==
  ASSUME NEW a \in Nat, NEW b \in Nat, a <= b, NEW bp \in Nat
  PROVE  Share(a, bp) <= Share(b, bp)
<1> DEFINE x == a * bp
           y == b * bp
<1>1. x \in Nat /\ y \in Nat /\ x <= y
  <2>1. (b - a) * bp \in Nat
    <3>1. b - a \in Nat
      OBVIOUS
    <3> QED BY <3>1, NatProduct
  <2>2. a * bp \in Nat
    BY NatProduct
  <2>3. b * bp = a * bp + (b - a) * bp
    OBVIOUS
  <2> QED BY <2>1, <2>2, <2>3
<1> HIDE DEF x, y
<1>2. x \div FULL_ALLOCATION <= y \div FULL_ALLOCATION
  BY <1>1 DEF FULL_ALLOCATION
<1> QED BY <1>2 DEF Share, x, y

(* No claim yet. *)
LEMMA NoneGranted ==
  ASSUME TypeOK, NEW p \in DOMAIN plans
  PROVE  GrantedFrom(p, plans[p], claims)
<1>1. DOMAIN Fresh(claims) = {}
  BY DEF Fresh
<1>2. IntMap(Fresh(claims)) /\ Total(Fresh(claims)) = 0
  BY <1>1, TotalOfNothing, FS_EmptySet DEF IntMap
<1> QED BY <1>1, <1>2, PlanAmounts DEF GrantedFrom, SameTerms, SameOwner, OnlyNewClaims

(* One claim more. *)
LEMMA OneMoreGrant ==
  ASSUME TypeOK, NEW p \in Nat, p \in DOMAIN plans,
         NEW plan, NEW records, GrantedFrom(p, plan, records), plan.total_amount \in Nat,
         NEW payout \in Nat, NEW left, SameTerms(left, plan),
         left.total_amount = plan.total_amount - payout,
         NEW email \in Email, ClaimKey(p, email) \notin DOMAIN records,
         NEW record, record.payout = payout,
         IsEmergencyActive(p) => payout <= Limit(plans[p])
  PROVE  GrantedFrom(p, left, Put(records, ClaimKey(p, email), record))
<1> DEFINE key  == ClaimKey(p, email)
           more == Put(records, key, record)
           f    == Fresh(records)
           e    == Fresh(more)
<1>1. /\ DOMAIN more = DOMAIN records \cup {key} /\ more[key] = record
      /\ \A k \in DOMAIN records : k # key => more[k] = records[k]
  BY DEF Put
<1>2. key \notin DOMAIN records /\ key \notin DOMAIN claims
  BY DEF GrantedFrom, OnlyNewClaims
<1>3. OnlyNewClaims(claims, more, p)
  BY <1>2, NewClaim DEF GrantedFrom
<1> HIDE DEF key, more
<1>4. /\ DOMAIN f = DOMAIN records \ DOMAIN claims /\ DOMAIN e = DOMAIN f \cup {key}
      /\ key \notin DOMAIN f /\ e[key] = payout /\ \A k \in DOMAIN f : e[k] = f[k]
  <2>1. DOMAIN f = DOMAIN records \ DOMAIN claims /\ DOMAIN e = DOMAIN more \ DOMAIN claims
    BY DEF Fresh
  <2>2. DOMAIN e = DOMAIN f \cup {key} /\ key \notin DOMAIN f
    BY <1>1, <1>2, <2>1
  <2>3. e[key] = payout
    BY <1>1, <2>2 DEF Fresh
  <2>4. ASSUME NEW k \in DOMAIN f PROVE e[k] = f[k]
    BY <1>1, <2>1, <2>2 DEF Fresh
  <2> QED BY <2>1, <2>2, <2>3, <2>4
<1>5. IntMap(f) /\ plan.total_amount = plans[p].total_amount - Total(f)
  BY DEF GrantedFrom
<1> HIDE DEF f, e
<1>6. IntMap(e)
  <2>1. IsFiniteSet(DOMAIN e)
    BY <1>4, <1>5, FS_AddElement DEF IntMap
  <2> QED BY <1>4, <1>5, <2>1 DEF IntMap
<1>7. Total(e) = Total(f) + payout /\ Total(f) \in Int
  <2>1. DOMAIN f \ {key} = DOMAIN e \ {key} /\ \A k \in DOMAIN f \ {key} : e[k] = f[k]
    BY <1>4
  <2>2. /\ Total(f) \in Int /\ Total(e) \in Int
        /\ Total(e) - Stored(e, key, 0) = Total(f) - Stored(f, key, 0)
    BY <1>5, <1>6, <2>1, TotalChanges
  <2>3. Stored(e, key, 0) = payout /\ Stored(f, key, 0) = 0
    BY <1>4 DEF Stored
  <2> QED BY <2>2, <2>3
<1>8. left.total_amount = plans[p].total_amount - Total(e)
      /\ left.total_amount <= plans[p].total_amount
  <2>1. plans[p].total_amount \in Nat /\ plan.total_amount <= plans[p].total_amount
    BY PlanAmounts DEF GrantedFrom
  <2> QED BY <1>5, <1>7, <2>1
<1>9. IsEmergencyActive(p) => \A k \in DOMAIN e : e[k] <= Limit(plans[p])
  BY <1>4 DEF GrantedFrom, f
<1>10. SameTerms(left, plans[p])
  BY DEF GrantedFrom, SameTerms, SameOwner
<1>11. GrantedFrom(p, left, more)
  BY <1>3, <1>6, <1>8, <1>9, <1>10 DEF GrantedFrom, e
<1> QED BY <1>11 DEF more, key

(* The beneficiary that matches an entry. *)
LEMMA MatchFound ==
  ASSUME NEW plan \in Plan, NEW email, NEW code, Matches(plan, email, code) # {}
  PROVE  /\ FirstMatch(plan, email, code) \in 1..Len(plan.beneficiaries)
         /\ plan.beneficiaries[FirstMatch(plan, email, code)].hashed_email = HashString(email)
<1>1. plan.beneficiaries \in Seq(Beneficiary)
  BY DEF Plan
<1>2. Matches(plan, email, code) \subseteq 1..Len(plan.beneficiaries)
  BY <1>1 DEF Matches
<1>3. PICK i \in Matches(plan, email, code) : \A j \in Matches(plan, email, code) : i <= j
  BY <1>2, LeastNat
<1>4. FirstMatch(plan, email, code) \in Matches(plan, email, code)
  BY <1>3 DEF FirstMatch
<1> QED BY <1>2, <1>4 DEF Matches

Backed(plan, p, records) ==
  \A i \in DOMAIN plan.beneficiaries :
    plan.beneficiaries[i].is_claimed =>
      <<p, plan.beneficiaries[i].hashed_email>> \in DOMAIN records

(* A single claim grants from an active plan, marks the claimant, and      *)
(* leaves what is lent before a trigger in place.                          *)
LEMMA SingleGrant ==
  ASSUME TypeOK, TypeOK', NEW p \in Nat, NEW claimer \in Address, NEW email \in Email, NEW code,
         ClaimInheritancePlan(claimer, p, email, code)
  PROVE  /\ p \in DOMAIN plans /\ plans[p].is_active
         /\ \E plan \in Plan :
              /\ plans' = [plans EXCEPT ![p] = plan]
              /\ GrantedFrom(p, plan, claims')
              /\ ~Triggered(p) /\ Covered(plans[p]) => Covered(plan)
              /\ Allocations(plan.beneficiaries) = Allocations(plans[p].beneficiaries)
              /\ Len(plan.beneficiaries) = Len(plans[p].beneficiaries)
              /\ Backed(plans[p], p, claims) => Backed(plan, p, claims')
         /\ ClaimKey(p, email) \in DOMAIN claims' \ DOMAIN claims
         /\ AddPlanToClaimed(plans[p].owner, p)
         /\ UNCHANGED <<token, triggers, indexVars>>
<1> DEFINE old    == plans[p].beneficiaries
           i      == FirstMatch(plans[p], email, code)
           payout == CalculateWaterfallPayout(plans[p], i)
           bens   == [old EXCEPT ![i].is_claimed = TRUE]
           left   == SaturatingSub(plans[p].total_amount, payout)
           plan   == [plans[p] EXCEPT !.beneficiaries = bens, !.total_amount = left]
           record == [beneficiary_index |-> i, payout |-> payout]
<1>1. /\ p \in DOMAIN plans /\ plans[p] \in Plan /\ plans[p].is_active
      /\ UNCHANGED <<token, triggers, indexVars>> /\ AddPlanToClaimed(plans[p].owner, p)
      /\ old \in Seq(Beneficiary)
  BY DEF ClaimInheritancePlan, Claimable, PlanExists, TypeOK, Plan
<1>2. plans' = [plans EXCEPT ![p] = plan]
  BY DEF ClaimInheritancePlan
<1>3. plan \in Plan
  <2> HIDE DEF plan
  <2> QED BY <1>1, <1>2, EditedTyped
<1>4. /\ SameTerms(plan, plans[p]) /\ plan.total_amount = left
      /\ plan.beneficiaries = bens
  <2> HIDE DEF bens, left
  <2> QED BY <1>1 DEF Plan, SameTerms, SameOwner
<1>5. i \in 1..Len(old) /\ old[i].hashed_email = HashString(email) /\ old[i] \in Beneficiary
  BY <1>1, MatchFound DEF ClaimInheritancePlan
<1>6. /\ payout \in Nat /\ payout <= plans[p].total_amount
      /\ plans[p].total_amount \in Nat /\ plans[p].total_loaned \in Nat
  BY <1>1, <1>5, PayoutBound, PlanAmounts
<1>7. /\ claims' = Put(claims, ClaimKey(p, email), record)
      /\ ClaimKey(p, email) \notin DOMAIN claims
      /\ ~Triggered(p) => payout <= Available(plans[p])
      /\ IsEmergencyActive(p) => payout <= Limit(plans[p])
  BY DEF ClaimInheritancePlan, HasClaimed, WithinEmergencyLimit, Limit
<1>8. record.payout = payout
  OBVIOUS
<1>9. /\ Len(bens) = Len(old) /\ DOMAIN bens = 1..Len(old)
      /\ \A k \in 1..Len(old) : /\ bens[k].allocation_bp = old[k].allocation_bp
                                /\ bens[k].hashed_email = old[k].hashed_email
                                /\ k # i => bens[k] = old[k]
  <2> DEFINE new == [old[i] EXCEPT !.is_claimed = TRUE]
  <2>1. bens = [old EXCEPT ![i] = new]
    OBVIOUS
  <2>2. new.allocation_bp = old[i].allocation_bp /\ new.hashed_email = old[i].hashed_email
    BY <1>5 DEF Beneficiary
  <2> HIDE DEF new, bens
  <2> QED BY <1>1, <1>5, <2>1, <2>2
<1> HIDE DEF plan, record, payout, bens
<1>10. left = plans[p].total_amount - payout
  BY <1>6 DEF SaturatingSub
<1> HIDE DEF left
<1>11. GrantedFrom(p, plan, claims')
  BY <1>1, <1>4, <1>6, <1>7, <1>8, <1>10, NoneGranted, OneMoreGrant
<1>12. ~Triggered(p) /\ Covered(plans[p]) => Covered(plan)
  <2>1. plan.total_loaned = plans[p].total_loaned
    BY <1>4 DEF SameTerms
  <2> QED BY <1>4, <1>6, <1>7, <1>10, <2>1 DEF Covered, Available, SaturatingSub
<1>13. Allocations(plan.beneficiaries) = Allocations(old) /\ Len(plan.beneficiaries) = Len(old)
  BY <1>4, <1>9 DEF Allocations
<1>14. DOMAIN claims' = DOMAIN claims \cup {ClaimKey(p, email)}
  BY <1>7 DEF Put
<1>15. Backed(plans[p], p, claims) => Backed(plan, p, claims')
  <2> SUFFICES ASSUME Backed(plans[p], p, claims), NEW k \in 1..Len(old), bens[k].is_claimed
               PROVE  <<p, bens[k].hashed_email>> \in DOMAIN claims'
    BY <1>4, <1>9 DEF Backed
  <2>1. CASE k = i
    BY <1>5, <1>9, <1>14, <2>1 DEF ClaimKey
  <2>2. CASE k # i
    <3>1. DOMAIN old = 1..Len(old) /\ bens[k] = old[k]
      BY <1>1, <1>9, <2>2
    <3> QED BY <1>14, <3>1 DEF Backed
  <2> QED BY <2>1, <2>2
<1> QED BY <1>1, <1>2, <1>3, <1>7, <1>11, <1>12, <1>13, <1>14, <1>15

(* A batch grants from an active plan and leaves its beneficiaries alone;  *)
(* those it pays are not marked.                                           *)
LEMMA BatchGrant ==
  ASSUME TypeOK, TypeOK', NEW p \in Nat, NEW entries \in Seq(EntryRecord), BatchClaim(p, entries)
  PROVE  /\ p \in DOMAIN plans /\ plans[p].is_active
         /\ \E plan \in Plan :
              /\ plans' = [plans EXCEPT ![p] = plan]
              /\ GrantedFrom(p, plan, claims')
              /\ plan.beneficiaries = plans[p].beneficiaries
              /\ Backed(plans[p], p, claims) =>
                   \A key \in DOMAIN claims' \ DOMAIN claims :
                     ~plan.beneficiaries[claims'[key].beneficiary_index].is_claimed
         /\ IF claims' = claims THEN UNCHANGED <<claimed_plans, all_claimed>>
            ELSE AddPlanToClaimed(plans[p].owner, p)
         /\ UNCHANGED <<token, triggers, indexVars>>
<1> DEFINE old == plans[p].beneficiaries
           Unmarked(records) ==
             Backed(plans[p], p, claims) =>
               \A key \in DOMAIN records \ DOMAIN claims :
                 ~old[records[key].beneficiary_index].is_claimed
           S == {b \in Book : /\ GrantedFrom(p, b.plan, b.claims)
                              /\ b.plan.beneficiaries = old /\ Unmarked(b.claims)}
           end == BookAfterClaims(p, entries)
<1>1. /\ p \in DOMAIN plans /\ plans[p] \in Plan /\ plans[p].is_active
      /\ UNCHANGED <<token, triggers, indexVars>> /\ old \in Seq(Beneficiary)
  BY DEF BatchClaim, Claimable, PlanExists, TypeOK, Plan
<1>2. /\ plans' = [plans EXCEPT ![p] = end.plan] /\ claims' = end.claims
      /\ IF claims' = claims THEN UNCHANGED <<claimed_plans, all_claimed>>
         ELSE AddPlanToClaimed(plans[p].owner, p)
  BY DEF BatchClaim
<1>3. KeptByClaims(S, p, entries)
  <2> SUFFICES ASSUME NEW book \in S, NEW n \in 1..Len(entries)
               PROVE  ClaimOrSkip(book, p, entries[n]) \in S
    BY DEF KeptByClaims
  <2> DEFINE entry == entries[n]
  <2>1. entry \in EntryRecord /\ book \in Book
    OBVIOUS
  <2> HIDE DEF entry
  <2>2. ClaimOrSkip(book, p, entry) \in Book
    BY <2>1, ClaimOrSkipTyped
  <2>3. CASE ~CanClaimInBatch(book, p, entry)
    BY <2>3 DEF ClaimOrSkip, entry
  <2>4. CASE CanClaimInBatch(book, p, entry)
    <3> DEFINE i      == FirstMatch(book.plan, entry.email, entry.claim_code)
               payout == BatchPayout(book.plan, i)
               left   == SaturatingSub(book.plan.total_amount, payout)
               plan   == [book.plan EXCEPT !.total_amount = left]
               record == [beneficiary_index |-> i, payout |-> payout]
               key    == ClaimKey(p, entry.email)
               more   == Put(book.claims, key, record)
    <3>1. ClaimOrSkip(book, p, entry) = [plan |-> plan, claims |-> more]
      BY <2>4 DEF ClaimOrSkip
    <3>2. /\ book.plan \in Plan /\ GrantedFrom(p, book.plan, book.claims)
          /\ book.plan.beneficiaries = old /\ Unmarked(book.claims)
      BY <2>1 DEF Book
    <3>3. i \in 1..Len(old) /\ old[i].hashed_email = HashString(entry.email)
      BY <2>4, <3>2, MatchFound DEF CanClaimInBatch
    <3>4. /\ payout \in Nat /\ payout <= book.plan.total_amount
          /\ book.plan.total_amount \in Nat
      <4>1. book.plan.total_amount \in 0..U64Max
        BY <3>2 DEF Plan
      <4>2. i \in 1..Len(book.plan.beneficiaries)
        BY <3>2, <3>3
      <4>3. payout \in Nat /\ payout <= book.plan.total_amount
        BY <3>2, <4>2, BatchPayoutBound
      <4> HIDE DEF payout, i
      <4> QED BY <4>1, <4>3, AmountAssumption
    <3>5. /\ SameTerms(plan, book.plan) /\ plan.total_amount = left
          /\ plan.beneficiaries = old
      <4> HIDE DEF left
      <4> QED BY <3>2 DEF Plan, SameTerms, SameOwner
    <3>6. record.payout = payout /\ record.beneficiary_index = i
      OBVIOUS
    <3>7. key \notin DOMAIN book.claims
      BY <2>4 DEF CanClaimInBatch
    <3>8. IsEmergencyActive(p) => payout <= Limit(plans[p])
      <4> SUFFICES ASSUME IsEmergencyActive(p) PROVE payout <= Limit(plans[p])
        OBVIOUS
      <4>1. payout <= Share(book.plan.total_amount, EMERGENCY_TRANSFER_LIMIT_BP)
        BY <2>4 DEF CanClaimInBatch, WithinEmergencyLimit
      <4>2. /\ plans[p].total_amount \in Nat /\ EMERGENCY_TRANSFER_LIMIT_BP \in Nat
            /\ book.plan.total_amount <= plans[p].total_amount
        BY <1>1, <3>2, PlanAmounts DEF GrantedFrom, EMERGENCY_TRANSFER_LIMIT_BP
      <4>3. /\ Share(book.plan.total_amount, EMERGENCY_TRANSFER_LIMIT_BP)
                 <= Share(plans[p].total_amount, EMERGENCY_TRANSFER_LIMIT_BP)
            /\ Share(book.plan.total_amount, EMERGENCY_TRANSFER_LIMIT_BP) \in Nat
            /\ Share(plans[p].total_amount, EMERGENCY_TRANSFER_LIMIT_BP) \in Nat
        BY <3>4, <4>2, ShareGrows, ShareTyped
      <4> HIDE DEF payout
      <4> QED BY <3>4, <4>1, <4>3 DEF Limit
    <3> HIDE DEF payout, i, plan, record
    <3>9. left = book.plan.total_amount - payout
      BY <3>4 DEF SaturatingSub
    <3> HIDE DEF left
    <3>10. GrantedFrom(p, plan, more)
      <4>1. entry.email \in Email
        BY <2>1 DEF EntryRecord
      <4> QED BY <1>1, <3>2, <3>4, <3>5, <3>6, <3>7, <3>8, <3>9, <4>1, OneMoreGrant
    <3>11. Unmarked(more)
      <4> SUFFICES ASSUME Backed(plans[p], p, claims), NEW k \in DOMAIN more \ DOMAIN claims
                   PROVE  ~old[more[k].beneficiary_index].is_claimed
        OBVIOUS
      <4>1. /\ DOMAIN more = DOMAIN book.claims \cup {key} /\ more[key] = record
            /\ \A m \in DOMAIN book.claims : more[m] = book.claims[m]
        BY <3>7 DEF Put
      <4>2. CASE k \in DOMAIN book.claims
        BY <3>2, <4>1, <4>2
      <4>3. CASE k = key
        <5>1. key \notin DOMAIN claims /\ DOMAIN old = 1..Len(old)
          BY <1>1, <4>3
        <5>2. ~old[i].is_claimed
          BY <3>3, <5>1 DEF Backed, ClaimKey
        <5> QED BY <3>6, <4>1, <4>3, <5>2
      <4> QED BY <4>1, <4>2, <4>3
    <3> HIDE DEF more, Unmarked
    <3>12. ClaimOrSkip(book, p, entry) \in S
      BY <2>2, <3>1, <3>5, <3>10, <3>11
    <3> QED BY <3>12 DEF entry
  <2> QED BY <2>3, <2>4
<1>4. [plan |-> plans[p], claims |-> claims] \in S
  <2>1. claims \in Maps(Nat \X HashedEmail, ClaimRecord)
    BY MapsAreMaps DEF TypeOK
  <2>2. GrantedFrom(p, plans[p], claims)
    BY <1>1, NoneGranted
  <2> QED BY <1>1, <2>1, <2>2 DEF Book
<1>5. end \in S
  <2>1. Len(entries) \in Nat
    OBVIOUS
  <2> HIDE DEF S
  <2> QED BY <1>3, <1>4, <2>1, BatchClaimRule
<1> HIDE DEF end
<1>6. /\ end.plan \in Plan /\ GrantedFrom(p, end.plan, end.claims)
      /\ end.plan.beneficiaries = old /\ Unmarked(end.claims)
  BY <1>5 DEF Book
<1> QED BY <1>1, <1>2, <1>6

-----------------------------------------------------------------------------
(* Every plan keeps what is said of plans one by one. *)

(* What creation, deactivation and transfers do to the plans.              *)
LEMMA ListingPlans ==
  ASSUME TypeOK, Listing
  PROVE  /\ UNCHANGED claimVars
         /\ DOMAIN plans \subseteq DOMAIN plans'
         /\ \A q \in DOMAIN plans :
              /\ plans'[q].beneficiaries = plans[q].beneficiaries
              /\ plans'[q].total_allocation_bp = plans[q].total_allocation_bp
              /\ plans'[q].total_amount = plans[q].total_amount
              /\ plans'[q].total_loaned = plans[q].total_loaned
         /\ \A q \in DOMAIN plans' \ DOMAIN plans :
              /\ AddsUp(plans'[q])
              /\ \A i \in DOMAIN plans'[q].beneficiaries :
                   ~plans'[q].beneficiaries[i].is_claimed
<1>1. ASSUME NEW owner \in Address, NEW amount \in CreateAmount,
             NEW inputs \in Seq(BeneficiaryInput), NEW method, NEW lendable,
             CreateInheritancePlan(owner, amount, method, inputs, lendable)
      PROVE  /\ UNCHANGED claimVars
             /\ DOMAIN plans' = DOMAIN plans \cup {next_plan_id}
             /\ next_plan_id \notin DOMAIN plans
             /\ \A q \in DOMAIN plans : plans'[q] = plans[q]
             /\ AddsUp(plans'[next_plan_id])
             /\ \A i \in DOMAIN plans'[next_plan_id].beneficiaries :
                  ~plans'[next_plan_id].beneficiaries[i].is_claimed
  <2> DEFINE bens == [i \in 1..Len(inputs) |-> NewBeneficiary(inputs[i])]
  <2>1. /\ UNCHANGED claimVars
        /\ DOMAIN plans' = DOMAIN plans \cup {next_plan_id}
        /\ next_plan_id \notin DOMAIN plans
        /\ \A q \in DOMAIN plans : plans'[q] = plans[q]
        /\ plans'[next_plan_id].total_allocation_bp = FULL_ALLOCATION
        /\ plans'[next_plan_id].beneficiaries = bens
    <3> DEFINE plan == plans'[next_plan_id]
    <3>1. /\ UNCHANGED claimVars
          /\ DOMAIN plans' = DOMAIN plans \cup {next_plan_id}
          /\ \A q \in DOMAIN plans : q # next_plan_id => plans'[q] = plans[q]
      BY <1>1 DEF CreateInheritancePlan, Put
    <3>2. next_plan_id \notin DOMAIN plans
      BY DEF TypeOK
    <3>3. /\ plan.total_allocation_bp = FULL_ALLOCATION
          /\ plan.beneficiaries = bens
      BY <1>1 DEF CreateInheritancePlan, Put
    <3> QED BY <3>1, <3>2, <3>3
  <2>2. /\ Len(bens) = Len(inputs) /\ DOMAIN bens = 1..Len(inputs)
        /\ \A i \in 1..Len(inputs) : /\ ~bens[i].is_claimed
                                     /\ bens[i].allocation_bp = inputs[i].allocation_bp
    <3>1. Len(inputs) \in Nat
      OBVIOUS
    <3> QED BY <3>1 DEF NewBeneficiary
  <2> HIDE DEF bens
  <2>3. TotalAllocation(bens) = TotalAllocation(inputs)
    BY <2>2 DEF TotalAllocation, Allocations
  <2>4. TotalAllocation(inputs) = FULL_ALLOCATION
    BY <1>1 DEF CreateInheritancePlan, ValidBeneficiaries
  <2> QED BY <2>1, <2>2, <2>3, <2>4 DEF AddsUp
<1>2. ASSUME NEW p \in PlanId, NEW owner \in Address, DeactivateInheritancePlan(owner, p)
      PROVE  /\ UNCHANGED claimVars /\ DOMAIN plans' = DOMAIN plans
             /\ \A q \in DOMAIN plans :
                  /\ plans'[q].beneficiaries = plans[q].beneficiaries
                  /\ plans'[q].total_allocation_bp = plans[q].total_allocation_bp
                  /\ plans'[q].total_amount = plans[q].total_amount
                  /\ plans'[q].total_loaned = plans[q].total_loaned
  <2> DEFINE plan == [plans[p] EXCEPT !.is_active = FALSE]
  <2>1. plans' = [plans EXCEPT ![p] = plan] /\ UNCHANGED claimVars /\ plans[p] \in Plan
    BY <1>2 DEF DeactivateInheritancePlan, otherThanPlans, OwnedBy, PlanExists, TypeOK
  <2>2. /\ plan.beneficiaries = plans[p].beneficiaries
        /\ plan.total_allocation_bp = plans[p].total_allocation_bp
        /\ plan.total_amount = plans[p].total_amount
        /\ plan.total_loaned = plans[p].total_loaned
    BY <2>1 DEF Plan
  <2> HIDE DEF plan
  <2> QED BY <2>1, <2>2 DEF TypeOK
<1>3. ASSUME NEW p \in PlanId, NEW owner \in Address, NEW new_owner \in Address,
             TransferPlanOwnership(owner, new_owner, p)
      PROVE  /\ UNCHANGED claimVars /\ DOMAIN plans' = DOMAIN plans
             /\ \A q \in DOMAIN plans :
                  /\ plans'[q].beneficiaries = plans[q].beneficiaries
                  /\ plans'[q].total_allocation_bp = plans[q].total_allocation_bp
                  /\ plans'[q].total_amount = plans[q].total_amount
                  /\ plans'[q].total_loaned = plans[q].total_loaned
  <2> DEFINE plan == [plans[p] EXCEPT !.owner = new_owner]
  <2>1. plans' = [plans EXCEPT ![p] = plan] /\ UNCHANGED claimVars /\ plans[p] \in Plan
    BY <1>3 DEF TransferPlanOwnership, otherThanPlans, OwnedBy, PlanExists, TypeOK
  <2>2. /\ plan.beneficiaries = plans[p].beneficiaries
        /\ plan.total_allocation_bp = plans[p].total_allocation_bp
        /\ plan.total_amount = plans[p].total_amount
        /\ plan.total_loaned = plans[p].total_loaned
    BY <2>1 DEF Plan
  <2> HIDE DEF plan
  <2> QED BY <2>1, <2>2 DEF TypeOK
<1>4. CASE \E owner \in Address, amount \in CreateAmount, inputs \in Seq(BeneficiaryInput) :
             \E method, lendable :
               CreateInheritancePlan(owner, amount, method, inputs, lendable)
  <2>1. /\ UNCHANGED claimVars
        /\ DOMAIN plans' = DOMAIN plans \cup {next_plan_id}
        /\ next_plan_id \notin DOMAIN plans
        /\ \A q \in DOMAIN plans : plans'[q] = plans[q]
        /\ AddsUp(plans'[next_plan_id])
        /\ \A i \in DOMAIN plans'[next_plan_id].beneficiaries :
             ~plans'[next_plan_id].beneficiaries[i].is_claimed
    BY <1>1, <1>4
  <2> QED BY <2>1
<1>5. CASE \E p \in PlanId, owner \in Address :
             \/ DeactivateInheritancePlan(owner, p)
             \/ \E new_owner \in Address : TransferPlanOwnership(owner, new_owner, p)
  BY <1>2, <1>3, <1>5
<1> QED BY <1>4, <1>5 DEF Listing

(* What an edit of one plan does to the others.                            *)
LEMMA OnePlanEdited ==
  ASSUME TypeOK, NEW p \in DOMAIN plans, NEW plan, plans' = [plans EXCEPT ![p] = plan]
  PROVE  /\ DOMAIN plans' = DOMAIN plans
         /\ plans'[p] = plan
         /\ \A q \in DOMAIN plans \ {p} : plans'[q] = plans[q]
BY DEF TypeOK

(* The marks and the shares. *)
PlansSound ==
  \A q \in DOMAIN plans : Backed(plans[q], q, claims) /\ AddsUp(plans[q])

(* Every step keeps them. *)
LEMMA SoundPlansKept ==
  ASSUME TypeOK, TypeOK', PlansSound, [Next]_vars
  PROVE  PlansSound'
<1>0. \A key \in DOMAIN claims : key \in DOMAIN claims'
  BY NextFacts DEF StepFacts, ClaimsKept
<1> SUFFICES ASSUME NEW q \in DOMAIN plans'
             PROVE  Backed(plans'[q], q, claims') /\ AddsUp(plans'[q])
  BY DEF PlansSound, Backed, AddsUp
<1>1. CASE Elsewhere
  BY <1>1 DEF Elsewhere, PlansSound, claimVars
<1>2. CASE Edits
  <2> PICK p, plan : Edited(p, plan)
    BY <1>2 DEF Edits
  <2>1. /\ p \in DOMAIN plans /\ plans' = [plans EXCEPT ![p] = plan]
        /\ SoundEdit(plan, plans[p])
    BY DEF Edited
  <2>2. CASE q = p
    <3>1. plans'[q] = plan
      BY <2>1, <2>2, OnePlanEdited
    <3>2. AddsUp(plan)
      BY <2>1 DEF SoundEdit, PlansSound
    <3>3. Backed(plan, p, claims')
      <4> SUFFICES ASSUME NEW i \in DOMAIN plan.beneficiaries,
                          plan.beneficiaries[i].is_claimed
                   PROVE  <<p, plan.beneficiaries[i].hashed_email>> \in DOMAIN claims'
        BY DEF Backed
      <4>1. PICK j \in DOMAIN plans[p].beneficiaries :
               /\ plans[p].beneficiaries[j].is_claimed
               /\ plans[p].beneficiaries[j].hashed_email = plan.beneficiaries[i].hashed_email
        BY <2>1 DEF SoundEdit, KeepsMarks
      <4>2. <<p, plans[p].beneficiaries[j].hashed_email>> \in DOMAIN claims
        BY <2>1, <4>1 DEF PlansSound, Backed
      <4> QED BY <1>0, <4>1, <4>2
    <3> QED BY <2>2, <3>1, <3>2, <3>3
  <2>3. CASE q # p
    <3>1. q \in DOMAIN plans /\ plans'[q] = plans[q]
      BY <2>1, <2>3, OnePlanEdited
    <3> QED BY <1>0, <3>1 DEF PlansSound, Backed
  <2> QED BY <2>2, <2>3
<1>3. CASE Listing
  <2>1. CASE q \in DOMAIN plans
    <3>1. /\ plans'[q].beneficiaries = plans[q].beneficiaries
          /\ plans'[q].total_allocation_bp = plans[q].total_allocation_bp
      BY <1>3, <2>1, ListingPlans
    <3> QED BY <1>0, <2>1, <3>1 DEF PlansSound, Backed, AddsUp
  <2>2. CASE q \notin DOMAIN plans
    BY <1>3, <2>2, ListingPlans DEF Backed
  <2> QED BY <2>1, <2>2
<1>4. CASE Claiming
  <2> PICK p \in PlanId :
        \/ \E claimer \in Address, email \in Email :
             \E code : ClaimInheritancePlan(claimer, p, email, code)
        \/ \E entries \in Seq(EntryRecord) : BatchClaim(p, entries)
    BY <1>4 DEF Claiming
  <2>0. p \in Nat
    BY ArgumentAssumption DEF PlanId
  <2>1. PICK plan : /\ p \in DOMAIN plans /\ plans' = [plans EXCEPT ![p] = plan]
                    /\ Backed(plan, p, claims') /\ AddsUp(plan)
    <3>1. CASE \E claimer \in Address, email \in Email :
                 \E code : ClaimInheritancePlan(claimer, p, email, code)
      <4>1. PICK claimer \in Address, email \in Email :
               \E code : ClaimInheritancePlan(claimer, p, email, code)
        BY <3>1
      <4>2. PICK code : ClaimInheritancePlan(claimer, p, email, code)
        BY <4>1
      <4>3. p \in DOMAIN plans
        BY <2>0, <4>2, SingleGrant
      <4>4. PICK plan \in Plan :
              /\ plans' = [plans EXCEPT ![p] = plan]
              /\ GrantedFrom(p, plan, claims')
              /\ Allocations(plan.beneficiaries) = Allocations(plans[p].beneficiaries)
              /\ Len(plan.beneficiaries) = Len(plans[p].beneficiaries)
              /\ Backed(plans[p], p, claims) => Backed(plan, p, claims')
        BY <2>0, <4>2, SingleGrant
      <4>5. AddsUp(plan)
        BY <4>3, <4>4 DEF PlansSound, AddsUp, TotalAllocation, GrantedFrom, SameTerms
      <4> QED BY <4>3, <4>4, <4>5 DEF PlansSound
    <3>2. CASE \E entries \in Seq(EntryRecord) : BatchClaim(p, entries)
      <4>1. PICK entries \in Seq(EntryRecord) : BatchClaim(p, entries)
        BY <3>2
      <4>2. p \in DOMAIN plans
        BY <2>0, <4>1, BatchGrant
      <4>3. PICK plan \in Plan :
              /\ plans' = [plans EXCEPT ![p] = plan]
              /\ GrantedFrom(p, plan, claims')
              /\ plan.beneficiaries = plans[p].beneficiaries
        BY <2>0, <4>1, BatchGrant
      <4>4. AddsUp(plan)
        BY <4>2, <4>3 DEF PlansSound, AddsUp, GrantedFrom, SameTerms
      <4>5. Backed(plan, p, claims')
        BY <1>0, <4>2, <4>3 DEF PlansSound, Backed
      <4> QED BY <4>2, <4>3, <4>4, <4>5
    <3> QED BY <3>1, <3>2
  <2>2. CASE q = p
    BY <2>1, <2>2, OnePlanEdited
  <2>3. CASE q # p
    <3>1. q \in DOMAIN plans /\ plans'[q] = plans[q]
      BY <2>1, <2>3, OnePlanEdited
    <3> QED BY <1>0, <3>1 DEF PlansSound, Backed
  <2> QED BY <2>2, <2>3
<1> QED BY <1>1, <1>2, <1>3, <1>4, StepKinds

(* Marks are backed and shares add up, always. *)
LEMMA PlansStaySound == Spec => []PlansSound
<1>1. Init => PlansSound
  BY DEF Init, EmptyMap, PlansSound
<1>2. TypeOK /\ TypeOK' /\ PlansSound /\ [Next]_vars => PlansSound'
  BY SoundPlansKept
<1> QED BY <1>1, <1>2, TypesAreKept, PTL DEF Spec

(* A beneficiary who is marked as having claimed has a claim record,       *)
(* through every swap, batch and change of allocations.                    *)
THEOREM MarksAreBacked == Spec => []ClaimedFlagIsBacked
<1>1. PlansSound => ClaimedFlagIsBacked
  BY DEF PlansSound, Backed, ClaimedFlagIsBacked
<1> QED BY <1>1, PlansStaySound, PTL

(* The total of the shares of a plan is their sum. *)
THEOREM SharesAddUp == Spec => []AllocationsAddUp
<1>1. PlansSound => AllocationsAddUp
  BY DEF PlansSound, AddsUp, AllocationsAddUp
<1> QED BY <1>1, PlansStaySound, PTL

-----------------------------------------------------------------------------
(* Loans. *)

(* No grant, nothing off the plan. *)
LEMMA GrantNeeded ==
  ASSUME NEW p \in DOMAIN plans, TypeOK, NEW plan \in Plan, GrantedFrom(p, plan, claims'),
         DOMAIN claims' \ DOMAIN claims = {}
  PROVE  plan.total_amount = plans[p].total_amount
<1>1. Total(Fresh(claims')) = 0
  BY TotalOfNothing DEF Fresh
<1>2. plans[p].total_amount \in Nat
  BY PlanAmounts
<1> QED BY <1>1, <1>2 DEF GrantedFrom

(* A step that leaves an untriggered plan short of what it lent is a batch *)
(* that paid somebody it did not mark.                                     *)
LEMMA StepsCoverLoans ==
  ASSUME TypeOK, TypeOK', PlansSound, [Next]_vars,
         NEW q \in DOMAIN plans, ~Triggered(q), Covered(plans[q]), ~Covered(plans'[q])
  PROVE  \E key \in DOMAIN claims' \ DOMAIN claims :
           /\ key[1] = q
           /\ ~plans'[q].beneficiaries[claims'[key].beneficiary_index].is_claimed
<1>1. CASE Elsewhere
  BY <1>1 DEF Elsewhere
<1>2. CASE Edits
  <2> PICK p, plan : Edited(p, plan)
    BY <1>2 DEF Edits
  <2>1. /\ p \in DOMAIN plans /\ plans' = [plans EXCEPT ![p] = plan]
        /\ ~Triggered(p) /\ Covered(plans[p]) => Covered(plan)
    BY DEF Edited
  <2>2. IF q = p THEN plans'[q] = plan ELSE plans'[q] = plans[q]
    BY <2>1, OnePlanEdited
  <2> QED BY <2>1, <2>2
<1>3. CASE Listing
  BY <1>3, ListingPlans DEF Covered
<1>4. CASE Claiming
  <2> PICK p \in PlanId :
        \/ \E claimer \in Address, email \in Email :
             \E code : ClaimInheritancePlan(claimer, p, email, code)
        \/ \E entries \in Seq(EntryRecord) : BatchClaim(p, entries)
    BY <1>4 DEF Claiming
  <2>0. p \in Nat
    BY ArgumentAssumption DEF PlanId
  <2>1. CASE \E claimer \in Address, email \in Email :
               \E code : ClaimInheritancePlan(claimer, p, email, code)
    <3>1. PICK claimer \in Address, email \in Email :
             \E code : ClaimInheritancePlan(claimer, p, email, code)
      BY <2>1
    <3>2. PICK code : ClaimInheritancePlan(claimer, p, email, code)
      BY <3>1
    <3>3. p \in DOMAIN plans
      BY <2>0, <3>2, SingleGrant
    <3>4. PICK plan \in Plan :
            /\ plans' = [plans EXCEPT ![p] = plan]
            /\ ~Triggered(p) /\ Covered(plans[p]) => Covered(plan)
      BY <2>0, <3>2, SingleGrant
    <3>5. IF q = p THEN plans'[q] = plan ELSE plans'[q] = plans[q]
      BY <3>3, <3>4, OnePlanEdited
    <3> QED BY <3>4, <3>5
  <2>2. CASE \E entries \in Seq(EntryRecord) : BatchClaim(p, entries)
    <3>1. PICK entries \in Seq(EntryRecord) : BatchClaim(p, entries)
      BY <2>2
    <3>2. p \in DOMAIN plans
      BY <2>0, <3>1, BatchGrant
    <3>3. PICK plan \in Plan :
            /\ plans' = [plans EXCEPT ![p] = plan]
            /\ GrantedFrom(p, plan, claims')
            /\ Backed(plans[p], p, claims) =>
                 \A key \in DOMAIN claims' \ DOMAIN claims :
                   ~plan.beneficiaries[claims'[key].beneficiary_index].is_claimed
      BY <2>0, <3>1, BatchGrant
    <3>4. plans'[p] = plan /\ q = p
      BY <3>2, <3>3, OnePlanEdited
    <3>5. plan.total_loaned = plans[p].total_loaned
      BY <3>3 DEF GrantedFrom, SameTerms
    <3>6. plan.total_amount # plans[p].total_amount
      BY <3>4, <3>5 DEF Covered
    <3>7. PICK key \in DOMAIN claims' \ DOMAIN claims : TRUE
      BY <3>2, <3>3, <3>6, GrantNeeded
    <3>8. key[1] = p
      BY <3>3, <3>7 DEF GrantedFrom, OnlyNewClaims
    <3>9. ~plan.beneficiaries[claims'[key].beneficiary_index].is_claimed
      BY <3>2, <3>3, <3>7 DEF PlansSound
    <3> QED BY <3>4, <3>7, <3>8, <3>9
  <2> QED BY <2>1, <2>2
<1> QED BY <1>1, <1>2, <1>3, <1>4, StepKinds

(* Only a batch can make an untriggered plan hold less than it has lent.   *)
THEOREM LoansCoveredBeforeTriggers == Spec => LoansStayCovered
<1>1. TypeOK /\ TypeOK' /\ PlansSound /\ [Next]_vars =>
        \A p \in DOMAIN plans :
          ~Triggered(p) /\ LoansCovered(p) /\ ~LoansCovered(p)' =>
            \E key \in DOMAIN claims' \ DOMAIN claims :
              /\ key[1] = p
              /\ ~plans'[p].beneficiaries[claims'[key].beneficiary_index].is_claimed
  BY StepsCoverLoans DEF LoansCovered, Covered
<1>2. TypeOK /\ TypeOK' /\ PlansSound /\ [Next]_vars =>
        [\A p \in DOMAIN plans :
          ~Triggered(p) /\ LoansCovered(p) /\ ~LoansCovered(p)' =>
            \E key \in DOMAIN claims' \ DOMAIN claims :
              /\ key[1] = p
              /\ ~plans'[p].beneficiaries[claims'[key].beneficiary_index].is_claimed]_vars
  BY <1>1
<1> QED BY <1>2, TypesAreKept, PlansStaySound, PTL DEF Spec, LoansStayCovered

-----------------------------------------------------------------------------
(* Lists without repetition. *)

(* An element is added. *)
LEMMA AppendHolds ==
  ASSUME NEW s \in Seq(Nat), NEW e \in Nat
  PROVE  /\ \A x : InSeq(Append(s, e), x) <=> InSeq(s, x) \/ x = e
         /\ Distinct(s) /\ ~InSeq(s, e) => Distinct(Append(s, e))
<1> DEFINE t == Append(s, e)
<1>1. /\ Len(s) \in Nat /\ DOMAIN s = 1..Len(s) /\ DOMAIN t = 1..(Len(s) + 1)
      /\ t[Len(s) + 1] = e /\ \A i \in 1..Len(s) : t[i] = s[i]
  OBVIOUS
<1> HIDE DEF t
<1>2. ASSUME NEW x PROVE InSeq(t, x) <=> InSeq(s, x) \/ x = e
  <2>1. ASSUME InSeq(t, x) PROVE InSeq(s, x) \/ x = e
    BY <1>1, <2>1 DEF InSeq
  <2>2. ASSUME InSeq(s, x) PROVE InSeq(t, x)
    <3>1. PICK i \in 1..Len(s) : s[i] = x
      BY <1>1, <2>2 DEF InSeq
    <3>2. i \in DOMAIN t /\ t[i] = x
      BY <1>1, <3>1
    <3> QED BY <3>2 DEF InSeq
  <2>3. InSeq(t, e)
    <3>1. Len(s) + 1 \in DOMAIN t
      BY <1>1
    <3> QED BY <1>1, <3>1 DEF InSeq
  <2> QED BY <2>1, <2>2, <2>3
<1>3. ASSUME Distinct(s), ~InSeq(s, e) PROVE Distinct(t)
  BY <1>1, <1>3 DEF Distinct, InSeq
<1> QED BY <1>2, <1>3 DEF t

(* An element is added unless it is there. *)
LEMMA PushNewHolds ==
  ASSUME NEW s \in Seq(Nat), NEW e \in Nat, NEW x
  PROVE  InSeq(PushNew(s, e), x) <=> InSeq(s, x) \/ x = e
BY AppendHolds DEF PushNew

(* The first occurrence of an element is taken out. *)
LEMMA RemoveFirstHolds ==
  ASSUME NEW s \in Seq(Nat), NEW id, Distinct(s)
  PROVE  /\ \A x : InSeq(RemoveFirstId(s, id), x) <=> InSeq(s, x) /\ x # id
         /\ Distinct(RemoveFirstId(s, id))
<1>1. CASE ~InSeq(s, id)
  BY <1>1 DEF RemoveFirstId
<1>2. CASE InSeq(s, id)
  <2> DEFINE n  == Len(s)
             at == CHOOSE i \in DOMAIN s : s[i] = id /\ \A j \in 1..(i - 1) : s[j] # id
             t  == RemoveFirstId(s, id)
             back(k) == IF k < at THEN k ELSE k + 1
             front(i) == IF i < at THEN i ELSE i - 1
  <2>1. PICK i \in DOMAIN s : s[i] = id
    BY <1>2 DEF InSeq
  <2>2. \A j \in 1..(i - 1) : s[j] # id
    <3>1. 1..(i - 1) \subseteq DOMAIN s /\ \A j \in 1..(i - 1) : j # i
      OBVIOUS
    <3> QED BY <2>1, <3>1 DEF Distinct
  <2>3. at \in DOMAIN s /\ s[at] = id
    BY <2>1, <2>2
  <2>4. t = [k \in 1..(Len(s) - 1) |-> IF k < at THEN s[k] ELSE s[k + 1]]
    BY <1>2 DEF RemoveFirstId
  <2>5. n \in Nat /\ DOMAIN s = 1..n /\ at \in 1..n
    BY <2>3
  <2> HIDE DEF at, t
  <2>6. DOMAIN t = 1..(n - 1)
    BY <2>4
  <2>7. ASSUME NEW k \in 1..(n - 1)
        PROVE  back(k) \in 1..n /\ back(k) # at /\ t[k] = s[back(k)] /\ front(back(k)) = k
    BY <2>4, <2>5
  <2>8. ASSUME NEW j \in 1..n, j # at
        PROVE  front(j) \in 1..(n - 1) /\ back(front(j)) = j
    BY <2>5, <2>8
  <2> HIDE DEF n, back, front
  <2>9. ASSUME NEW x PROVE InSeq(t, x) <=> InSeq(s, x) /\ x # id
    <3>1. ASSUME InSeq(t, x) PROVE InSeq(s, x) /\ x # id
      <4>1. PICK k \in 1..(n - 1) : t[k] = x
        BY <2>6, <3>1 DEF InSeq
      <4> QED BY <2>3, <2>5, <2>7, <4>1 DEF InSeq, Distinct
    <3>2. ASSUME InSeq(s, x), x # id PROVE InSeq(t, x)
      <4>1. PICK j \in 1..n : s[j] = x
        BY <2>5, <3>2 DEF InSeq
      <4>2. j # at
        BY <2>3, <3>2, <4>1
      <4>3. front(j) \in 1..(n - 1) /\ t[front(j)] = x
        BY <2>7, <2>8, <4>1, <4>2
      <4> QED BY <2>6, <4>3 DEF InSeq
    <3> QED BY <3>1, <3>2
  <2>10. Distinct(t)
    <3> SUFFICES ASSUME NEW k \in 1..(n - 1), NEW m \in 1..(n - 1), t[k] = t[m] PROVE k = m
      BY <2>6 DEF Distinct
    <3>1. back(k) = back(m)
      BY <2>5, <2>7 DEF Distinct
    <3> QED BY <2>7, <3>1
  <2> QED BY <2>9, <2>10 DEF t
<1> QED BY <1>1, <1>2

-----------------------------------------------------------------------------
(* The lists of plans. *)

OwnersList(a) ==
  /\ \A x : InSeq(user_plans[a], x) <=> x \in DOMAIN plans /\ plans[x].owner = a
  /\ Distinct(user_plans[a])

(* OwnerIndexAgrees by the members of the lists. *)
LEMMA OwnersAgree == OwnerIndexAgrees <=> \A a \in Address : OwnersList(a)
BY DEF OwnerIndexAgrees, OwnersList, OwnedBy, PlanExists, InSeq, Distinct

(* The same of the next state. *)
LEMMA OwnersAgreeNext == OwnerIndexAgrees' <=> \A a \in Address : OwnersList(a)'
BY DEF OwnerIndexAgrees, OwnersList, OwnedBy, PlanExists, InSeq, Distinct

(* Creation, deactivation and transfer keep the lists of owners. *)
LEMMA ListingKeepsOwners ==
  ASSUME TypeOK, Listing, \A a \in Address : OwnersList(a), NEW a \in Address
  PROVE  OwnersList(a)'
<1>0. user_plans \in [Address -> Seq(Nat)] /\ user_plans[a] \in Seq(Nat)
      /\ next_plan_id \in Nat /\ next_plan_id \notin DOMAIN plans
  BY DEF TypeOK
<1>1. ASSUME NEW owner \in Address, NEW amount \in CreateAmount, NEW method, NEW lendable,
             NEW inputs, CreateInheritancePlan(owner, amount, method, inputs, lendable)
      PROVE  OwnersList(a)'
  <2>1. /\ DOMAIN plans' = DOMAIN plans \cup {next_plan_id}
        /\ plans'[next_plan_id].owner = owner
        /\ \A q \in DOMAIN plans : plans'[q] = plans[q]
        /\ user_plans' = [user_plans EXCEPT ![owner] = Append(@, next_plan_id)]
    <3>1. /\ DOMAIN plans' = DOMAIN plans \cup {next_plan_id}
          /\ plans'[next_plan_id].owner = owner
          /\ user_plans' = [user_plans EXCEPT ![owner] = Append(@, next_plan_id)]
          /\ \A q \in DOMAIN plans : q # next_plan_id => plans'[q] = plans[q]
      BY <1>1 DEF CreateInheritancePlan, Put
    <3> QED BY <1>0, <3>1
  <2>2. CASE a = owner
    <3>1. user_plans'[a] = Append(user_plans[a], next_plan_id)
      BY <1>0, <2>1, <2>2
    <3>2. ~InSeq(user_plans[a], next_plan_id) /\ Distinct(user_plans[a])
      BY <1>0 DEF OwnersList
    <3>3. /\ Distinct(user_plans'[a])
          /\ \A x : InSeq(user_plans'[a], x) <=> InSeq(user_plans[a], x) \/ x = next_plan_id
      BY <1>0, <3>1, <3>2, AppendHolds
    <3>4. \A x : InSeq(user_plans[a], x) <=> x \in DOMAIN plans /\ plans[x].owner = a
      BY DEF OwnersList
    <3>5. \A x : InSeq(user_plans'[a], x) <=> x \in DOMAIN plans' /\ plans'[x].owner = a
      BY <1>0, <2>1, <2>2, <3>3, <3>4
    <3> QED BY <3>3, <3>5 DEF OwnersList
  <2>3. CASE a # owner
    <3>1. user_plans'[a] = user_plans[a]
      BY <1>0, <2>1, <2>3
    <3> QED BY <1>0, <2>1, <2>3, <3>1 DEF OwnersList
  <2> QED BY <2>2, <2>3
<1>2. ASSUME NEW p, NEW owner, DeactivateInheritancePlan(owner, p) PROVE OwnersList(a)'
  <2>1. /\ plans' = [plans EXCEPT ![p].is_active = FALSE] /\ plans[p] \in Plan
        /\ p \in DOMAIN plans /\ UNCHANGED user_plans
    BY <1>2 DEF DeactivateInheritancePlan, OwnedBy, PlanExists, TypeOK
  <2>2. DOMAIN plans' = DOMAIN plans /\ \A q \in DOMAIN plans : plans'[q].owner = plans[q].owner
    <3> DEFINE plan == [plans[p] EXCEPT !.is_active = FALSE]
    <3>1. plan.owner = plans[p].owner
      BY <2>1 DEF Plan
    <3>2. plans' = [plans EXCEPT ![p] = plan]
      BY <2>1
    <3> HIDE DEF plan
    <3> QED BY <3>1, <3>2
  <2> QED BY <2>1, <2>2 DEF OwnersList
<1>3. ASSUME NEW p, NEW owner \in Address, NEW new_owner \in Address,
             TransferPlanOwnership(owner, new_owner, p)
      PROVE  OwnersList(a)'
  <2> DEFINE without == [user_plans EXCEPT ![owner] = RemoveFirstId(@, p)]
  <2>1. /\ p \in DOMAIN plans /\ plans[p].owner = owner /\ plans[p] \in Plan
        /\ plans' = [plans EXCEPT ![p].owner = new_owner]
        /\ user_plans' = [without EXCEPT ![new_owner] = Append(@, p)]
    BY <1>3 DEF TransferPlanOwnership, OwnedBy, PlanExists, TypeOK
  <2>2. /\ DOMAIN plans' = DOMAIN plans /\ plans'[p].owner = new_owner /\ p \in Nat
        /\ \A q \in DOMAIN plans : q # p => plans'[q] = plans[q]
    <3> DEFINE plan == [plans[p] EXCEPT !.owner = new_owner]
    <3>1. plan.owner = new_owner
      BY <2>1 DEF Plan
    <3>2. plans' = [plans EXCEPT ![p] = plan]
      BY <2>1
    <3>3. p \in Nat
      BY <2>1 DEF TypeOK
    <3> HIDE DEF plan
    <3> QED BY <2>1, <3>1, <3>2, <3>3, OnePlanEdited
  <2>3. /\ without \in [Address -> Seq(Nat)]
        /\ without[owner] = RemoveFirstId(user_plans[owner], p)
        /\ \A b \in Address : b # owner => without[b] = user_plans[b]
    <3>1. RemoveFirstId(user_plans[owner], p) \in Seq(Nat)
      BY <1>0, RemoveFirstTyped
    <3> QED BY <1>0, <3>1
  <2> HIDE DEF without
  <2>4. /\ Distinct(without[a])
        /\ \A x : InSeq(without[a], x) <=> x \in DOMAIN plans /\ plans[x].owner = a /\ x # p
    <3>1. CASE a = owner
      <4>1. /\ Distinct(RemoveFirstId(user_plans[a], p))
            /\ \A x : InSeq(RemoveFirstId(user_plans[a], p), x)
                        <=> InSeq(user_plans[a], x) /\ x # p
        BY <1>0, RemoveFirstHolds DEF OwnersList
      <4> QED BY <2>3, <3>1, <4>1 DEF OwnersList
    <3>2. CASE a # owner
      BY <2>1, <2>3, <3>2 DEF OwnersList
    <3> QED BY <3>1, <3>2
  <2>5. CASE a = new_owner
    <3>1. user_plans'[a] = Append(without[a], p) /\ without[a] \in Seq(Nat)
      BY <2>1, <2>3, <2>5
    <3>2. /\ Distinct(user_plans'[a])
          /\ \A x : InSeq(user_plans'[a], x) <=> InSeq(without[a], x) \/ x = p
      BY <2>2, <2>4, <3>1, AppendHolds
    <3>3. \A x : InSeq(user_plans'[a], x) <=> x \in DOMAIN plans' /\ plans'[x].owner = a
      BY <2>1, <2>2, <2>4, <2>5, <3>2
    <3> QED BY <3>2, <3>3 DEF OwnersList
  <2>6. CASE a # new_owner
    <3>1. user_plans'[a] = without[a]
      BY <2>1, <2>3, <2>6
    <3>2. \A x : InSeq(user_plans'[a], x) <=> x \in DOMAIN plans' /\ plans'[x].owner = a
      BY <2>2, <2>4, <2>6, <3>1
    <3> QED BY <2>4, <3>1, <3>2 DEF OwnersList
  <2> QED BY <2>5, <2>6
<1> QED BY <1>1, <1>2, <1>3 DEF Listing

(* They keep the list of deactivated plans, too. *)
LEMMA ListingKeepsDeactivated ==
  ASSUME TypeOK, Listing, DeactivatedIndexAgrees
  PROVE  DeactivatedIndexAgrees'
<1>0. deactivated \in Seq(Nat) /\ next_plan_id \notin DOMAIN plans
  BY DEF TypeOK
<1>1. ASSUME NEW owner \in Address, NEW amount \in CreateAmount, NEW method, NEW lendable,
             NEW inputs, CreateInheritancePlan(owner, amount, method, inputs, lendable)
      PROVE  DeactivatedIndexAgrees'
  <2>1. /\ DOMAIN plans' = DOMAIN plans \cup {next_plan_id}
        /\ plans'[next_plan_id].is_active /\ UNCHANGED deactivated
        /\ \A q \in DOMAIN plans : q # next_plan_id => plans'[q] = plans[q]
    BY <1>1 DEF CreateInheritancePlan, Put
  <2>2. ~InSeq(deactivated, next_plan_id)
    BY <1>0 DEF DeactivatedIndexAgrees, PlanExists, InSeq
  <2>3. \A q \in DOMAIN plans' : InSeq(deactivated', q) <=> ~plans'[q].is_active
    BY <1>0, <2>1, <2>2 DEF DeactivatedIndexAgrees
  <2>4. \A i \in DOMAIN deactivated' : deactivated'[i] \in DOMAIN plans'
    BY <2>1 DEF DeactivatedIndexAgrees, PlanExists
  <2> QED BY <2>3, <2>4 DEF DeactivatedIndexAgrees, PlanExists
<1>2. ASSUME NEW p, NEW owner, DeactivateInheritancePlan(owner, p)
      PROVE  DeactivatedIndexAgrees'
  <2>1. /\ plans' = [plans EXCEPT ![p].is_active = FALSE] /\ plans[p] \in Plan
        /\ p \in DOMAIN plans /\ p \in Nat /\ deactivated' = PushNew(deactivated, p)
    BY <1>2 DEF DeactivateInheritancePlan, OwnedBy, PlanExists, TypeOK
  <2>2. /\ DOMAIN plans' = DOMAIN plans /\ ~plans'[p].is_active
        /\ \A q \in DOMAIN plans : q # p => plans'[q] = plans[q]
    BY <2>1 DEF TypeOK, Plan
  <2>3. \A x : InSeq(deactivated', x) <=> InSeq(deactivated, x) \/ x = p
    BY <1>0, <2>1, PushNewHolds
  <2>4. \A q \in DOMAIN plans' : InSeq(deactivated', q) <=> ~plans'[q].is_active
    BY <2>2, <2>3 DEF DeactivatedIndexAgrees
  <2>5. ASSUME NEW i \in DOMAIN deactivated' PROVE deactivated'[i] \in DOMAIN plans'
    <3>1. InSeq(deactivated', deactivated'[i])
      BY DEF InSeq
    <3>2. \A x : InSeq(deactivated, x) => x \in DOMAIN plans
      BY DEF DeactivatedIndexAgrees, PlanExists, InSeq
    <3> QED BY <2>1, <2>2, <2>3, <3>1, <3>2
  <2> QED BY <2>4, <2>5 DEF DeactivatedIndexAgrees, PlanExists
<1>3. ASSUME NEW p, NEW owner \in Address, NEW new_owner \in Address,
             TransferPlanOwnership(owner, new_owner, p)
      PROVE  DeactivatedIndexAgrees'
  <2>1. /\ p \in DOMAIN plans /\ plans[p] \in Plan /\ UNCHANGED deactivated
        /\ plans' = [plans EXCEPT ![p].owner = new_owner]
    BY <1>3 DEF TransferPlanOwnership, OwnedBy, PlanExists, TypeOK
  <2>2. /\ DOMAIN plans' = DOMAIN plans
        /\ \A q \in DOMAIN plans : plans'[q].is_active = plans[q].is_active
    BY <2>1 DEF TypeOK, Plan
  <2> QED BY <2>1, <2>2 DEF DeactivatedIndexAgrees, PlanExists
<1> QED BY <1>1, <1>2, <1>3 DEF Listing

(* Plans that keep their owners and stay active or inactive keep the lists *)
(* of owners and of deactivated plans.                                     *)
LEMMA SameOwnersSameLists ==
  ASSUME OwnerIndexAgrees, DeactivatedIndexAgrees, UNCHANGED indexVars,
         DOMAIN plans' = DOMAIN plans, \A q \in DOMAIN plans : SameOwner(plans'[q], plans[q])
  PROVE  OwnerIndexAgrees' /\ DeactivatedIndexAgrees'
<1>1. UNCHANGED <<user_plans, deactivated>>
  BY DEF indexVars
<1>2. ASSUME NEW a \in Address PROVE OwnersList(a)'
  <2>1. OwnersList(a)
    BY OwnersAgree
  <2> QED BY <1>1, <2>1 DEF OwnersList, SameOwner
<1>3. DeactivatedIndexAgrees'
  BY <1>1 DEF DeactivatedIndexAgrees, PlanExists, SameOwner
<1> QED BY <1>2, <1>3, OwnersAgreeNext

(* New claims of one plan and the plan put on the list of claimed plans.   *)
LEMMA ClaimListed ==
  ASSUME TypeOK, ClaimedIndexAgrees, NEW p \in Nat, OnlyNewClaims(claims, claims', p),
         DOMAIN claims' \ DOMAIN claims # {}, all_claimed' = PushNew(all_claimed, p)
  PROVE  ClaimedIndexAgrees'
<1>1. all_claimed \in Seq(Nat)
  BY DEF TypeOK
<1>2. \A x : InSeq(all_claimed', x) <=> InSeq(all_claimed, x) \/ x = p
  BY <1>1, PushNewHolds
<1>3. ASSUME NEW key \in DOMAIN claims' PROVE InSeq(all_claimed', key[1])
  BY <1>2 DEF ClaimedIndexAgrees, OnlyNewClaims
<1>4. ASSUME NEW i \in DOMAIN all_claimed'
      PROVE  \E key \in DOMAIN claims' : key[1] = all_claimed'[i]
  <2>1. InSeq(all_claimed', all_claimed'[i])
    BY DEF InSeq
  <2>2. CASE InSeq(all_claimed, all_claimed'[i])
    BY <2>2 DEF InSeq, ClaimedIndexAgrees, OnlyNewClaims
  <2>3. CASE all_claimed'[i] = p
    BY <2>3 DEF OnlyNewClaims
  <2> QED BY <1>2, <2>1, <2>2, <2>3
<1> QED BY <1>3, <1>4 DEF ClaimedIndexAgrees

(* Claims keep the list of claimed plans and who owns what.                *)
LEMMA ClaimingKeepsLists ==
  ASSUME TypeOK, TypeOK', Claiming, ClaimedIndexAgrees
  PROVE  /\ ClaimedIndexAgrees' /\ UNCHANGED indexVars /\ DOMAIN plans' = DOMAIN plans
         /\ \A q \in DOMAIN plans : SameOwner(plans'[q], plans[q])
<1> PICK p \in PlanId :
      \/ \E claimer \in Address, email \in Email :
           \E code : ClaimInheritancePlan(claimer, p, email, code)
      \/ \E entries \in Seq(EntryRecord) : BatchClaim(p, entries)
  BY DEF Claiming
<1>0. p \in Nat
  BY ArgumentAssumption DEF PlanId
<1>1. /\ \E plan \in Plan : /\ p \in DOMAIN plans
                            /\ plans' = [plans EXCEPT ![p] = plan]
                            /\ GrantedFrom(p, plan, claims')
      /\ UNCHANGED indexVars
      /\ \/ claims' = claims /\ all_claimed' = all_claimed
         \/ /\ DOMAIN claims' \ DOMAIN claims # {}
            /\ all_claimed' = PushNew(all_claimed, p)
  <2>1. CASE \E claimer \in Address, email \in Email :
               \E code : ClaimInheritancePlan(claimer, p, email, code)
    <3>1. PICK claimer \in Address, email \in Email :
             \E code : ClaimInheritancePlan(claimer, p, email, code)
      BY <2>1
    <3>2. PICK code : ClaimInheritancePlan(claimer, p, email, code)
      BY <3>1
    <3>3. /\ p \in DOMAIN plans /\ UNCHANGED indexVars
          /\ ClaimKey(p, email) \in DOMAIN claims' \ DOMAIN claims
          /\ AddPlanToClaimed(plans[p].owner, p)
      BY <1>0, <3>2, SingleGrant
    <3>4. \E plan \in Plan :
            plans' = [plans EXCEPT ![p] = plan] /\ GrantedFrom(p, plan, claims')
      BY <1>0, <3>2, SingleGrant
    <3>5. all_claimed' = PushNew(all_claimed, p) /\ DOMAIN claims' \ DOMAIN claims # {}
      BY <3>3 DEF AddPlanToClaimed
    <3> QED BY <3>3, <3>4, <3>5
  <2>2. CASE \E entries \in Seq(EntryRecord) : BatchClaim(p, entries)
    <3>1. PICK entries \in Seq(EntryRecord) : BatchClaim(p, entries)
      BY <2>2
    <3>2. /\ p \in DOMAIN plans /\ UNCHANGED indexVars
          /\ IF claims' = claims THEN UNCHANGED <<claimed_plans, all_claimed>>
             ELSE AddPlanToClaimed(plans[p].owner, p)
      BY <1>0, <3>1, BatchGrant
    <3>3. PICK plan \in Plan :
            plans' = [plans EXCEPT ![p] = plan] /\ GrantedFrom(p, plan, claims')
      BY <1>0, <3>1, BatchGrant
    <3>4. CASE claims' = claims
      BY <3>2, <3>3, <3>4
    <3>5. CASE claims' # claims
      <4>1. DOMAIN claims' \ DOMAIN claims # {}
        <5> SUFFICES ASSUME DOMAIN claims' \ DOMAIN claims = {} PROVE FALSE
          OBVIOUS
        <5>1. DOMAIN claims' = DOMAIN claims /\ \A key \in DOMAIN claims : claims'[key] = claims[key]
          BY <3>3 DEF GrantedFrom, OnlyNewClaims
        <5>2. /\ claims = [key \in DOMAIN claims |-> claims[key]]
              /\ claims' = [key \in DOMAIN claims' |-> claims'[key]]
          BY DEF TypeOK, IsMap
        <5> QED BY <3>5, <5>1, <5>2
      <4>2. all_claimed' = PushNew(all_claimed, p)
        BY <3>2, <3>5 DEF AddPlanToClaimed
      <4> QED BY <3>2, <3>3, <4>1, <4>2
    <3> QED BY <3>4, <3>5
  <2> QED BY <2>1, <2>2
<1>2. PICK plan \in Plan : /\ p \in DOMAIN plans
                           /\ plans' = [plans EXCEPT ![p] = plan]
                           /\ GrantedFrom(p, plan, claims')
  BY <1>1
<1>3. ClaimedIndexAgrees'
  <2>1. CASE claims' = claims /\ all_claimed' = all_claimed
    BY <2>1 DEF ClaimedIndexAgrees
  <2>2. CASE DOMAIN claims' \ DOMAIN claims # {} /\ all_claimed' = PushNew(all_claimed, p)
    BY <1>0, <1>2, <2>2, ClaimListed DEF GrantedFrom
  <2> QED BY <1>1, <2>1, <2>2
<1>4. DOMAIN plans' = DOMAIN plans /\ \A q \in DOMAIN plans : SameOwner(plans'[q], plans[q])
  <2>1. SameOwner(plan, plans[p])
    BY <1>2 DEF GrantedFrom, SameTerms
  <2> QED BY <1>2, <2>1, OnePlanEdited DEF SameOwner
<1> QED BY <1>1, <1>3, <1>4

(* The three lists of plans agree with the plans and the claims.           *)
THEOREM IndexesStayInStep == Spec => []IndexesAgree
<1>1. Init => IndexesAgree
  BY DEF Init, EmptyMap, IndexesAgree, OwnerIndexAgrees, DeactivatedIndexAgrees,
         ClaimedIndexAgrees
<1>2. TypeOK /\ TypeOK' /\ IndexesAgree /\ [Next]_vars => IndexesAgree'
  <2> SUFFICES ASSUME TypeOK, TypeOK', IndexesAgree, [Next]_vars PROVE IndexesAgree'
    OBVIOUS
  <2>0. OwnerIndexAgrees /\ DeactivatedIndexAgrees /\ ClaimedIndexAgrees
    BY DEF IndexesAgree
  <2>a. UNCHANGED claimVars => ClaimedIndexAgrees'
    BY <2>0 DEF claimVars, ClaimedIndexAgrees
  <2>1. CASE Elsewhere
    BY <2>0, <2>1, <2>a, SameOwnersSameLists DEF Elsewhere, SameOwner, IndexesAgree
  <2>2. CASE Edits
    <3> PICK p, plan : Edited(p, plan)
      BY <2>2 DEF Edits
    <3>1. /\ p \in DOMAIN plans /\ plans' = [plans EXCEPT ![p] = plan]
          /\ SameOwner(plan, plans[p]) /\ UNCHANGED <<claimVars, indexVars>>
      BY DEF Edited
    <3>2. DOMAIN plans' = DOMAIN plans /\ \A q \in DOMAIN plans : SameOwner(plans'[q], plans[q])
      BY <3>1, OnePlanEdited DEF SameOwner
    <3> QED BY <2>0, <2>a, <3>1, <3>2, SameOwnersSameLists DEF IndexesAgree
  <2>3. CASE Listing
    <3>1. ClaimedIndexAgrees'
      BY <2>3, <2>a, ListingPlans
    <3>2. \A a \in Address : OwnersList(a)
      BY <2>0, OwnersAgree
    <3>3. \A a \in Address : OwnersList(a)'
      BY <2>3, <3>2, ListingKeepsOwners
    <3> QED BY <2>0, <2>3, <3>1, <3>3, OwnersAgreeNext, ListingKeepsDeactivated DEF IndexesAgree
  <2>4. CASE Claiming
    BY <2>0, <2>4, ClaimingKeepsLists, SameOwnersSameLists DEF IndexesAgree
  <2> QED BY <2>1, <2>2, <2>3, <2>4, StepKinds
<1> QED BY <1>1, <1>2, TypesAreKept, PTL DEF Spec
=============================================================================
