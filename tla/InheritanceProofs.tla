-------------------------- MODULE InheritanceProofs --------------------------
(***************************************************************************)
(* The types of the inheritance contract, and what none of its steps does  *)
(* to the plans, the claim records and the trigger records it finds.       *)
(* First what the loops of the contract preserve (a set that every turn of *)
(* a loop keeps to holds the result of the loop), what is known of the sum *)
(* of a list of allocations and what the helpers of the operations return; *)
(* then one lemma per operation and the type theorem; last the facts that  *)
(* every step keeps to, and the properties that follow from them.          *)
(***************************************************************************)
EXTENDS InheritanceContract, IterationLemmas

-----------------------------------------------------------------------------
(* Loops. *)

(* batch_add_beneficiaries *)
KeptByAdds(S, inputs) ==
  \A x \in S : \A i \in 1..Len(inputs) : AddOrSkip(x, inputs[i]) \in S

(* A set kept by every addition holds the plan after the loop of additions. *)
LEMMA BatchAddRule ==
  ASSUME NEW plan, NEW inputs, Len(inputs) \in Nat, NEW S, plan \in S,
         KeptByAdds(S, inputs)
  PROVE  PlanAfterAdds(plan, inputs) \in S
<1> DEFINE n == Len(inputs)
           step == [t \in (1..n) \X S |-> AddOrSkip(t[2], inputs[t[1]])]
           g == Iterate(n, step, plan)
           after == CHOOSE f : f = [k \in 0..n |-> IF k = 0 THEN plan
                                      ELSE AddOrSkip(f[k - 1], inputs[k])]
<1>1. PlanAfterAdds(plan, inputs) = after[n]
  BY DEF PlanAfterAdds
<1>2. \A k \in 1..n : \A x \in S : step[<<k, x>>] = AddOrSkip(x, inputs[k])
  OBVIOUS
<1>3. \A x \in S : \A k \in 1..n : AddOrSkip(x, inputs[k]) \in S
  BY Zenon DEF KeptByAdds
<1>4. n \in Nat
  OBVIOUS
<1>5. step \in [(1..n) \X S -> S]
  <2>1. ASSUME NEW t \in (1..n) \X S PROVE AddOrSkip(t[2], inputs[t[1]]) \in S
    <3>1. t[1] \in 1..n /\ t[2] \in S
      OBVIOUS
    <3> QED BY <1>3, <3>1, Zenon
  <2> QED BY <2>1, Zenon
<1>6. g = Iterate(n, step, plan)
  OBVIOUS
<1> HIDE DEF n, step, g
<1>7. g = [k \in 0..n |-> IF k = 0 THEN plan ELSE step[<<k, g[k - 1]>>]]
  BY <1>4, <1>6, IterateDef
<1>8. \A k \in 0..n : g[k] \in S
  BY <1>4, <1>5, <1>6, IterateIn
<1>9. ASSUME NEW k \in 0..n
      PROVE  g[k] = IF k = 0 THEN plan ELSE AddOrSkip(g[k - 1], inputs[k])
  <2>1. g[k] = IF k = 0 THEN plan ELSE step[<<k, g[k - 1]>>]
    BY <1>7
  <2>2. CASE k # 0
    <3>1. k \in 1..n /\ k - 1 \in 0..n
      BY <1>4, <2>2
    <3>2. g[k - 1] \in S
      BY <1>8, <3>1
    <3> QED BY <1>2, <2>1, <2>2, <3>1, <3>2, Zenon
  <2> QED BY <2>1, <2>2, Zenon
<1>10. g = [k \in 0..n |-> IF k = 0 THEN plan ELSE AddOrSkip(g[k - 1], inputs[k])]
  <2>1. g = [k \in 0..n |-> g[k]]
    BY <1>7
  <2> QED BY <2>1, <1>9, Zenon
<1>11. after = [k \in 0..n |-> IF k = 0 THEN plan ELSE AddOrSkip(after[k - 1], inputs[k])]
  BY <1>10, Zenon
<1> HIDE DEF after
<1>12. ASSUME NEW k \in 0..n
       PROVE  after[k] = IF k = 0 THEN plan ELSE AddOrSkip(after[k - 1], inputs[k])
  BY <1>11, Zenon
<1> DEFINE T == {k \in Nat : k <= n => after[k] \in S}
<1>13. 0 \in T
  <2>1. 0 \in 0..n
    BY <1>4
  <2>2. after[0] = plan
    BY <1>12, <2>1, Zenon
  <2> QED BY <2>2
<1>14. ASSUME NEW k \in Nat, k \in T PROVE k + 1 \in T
  <2> SUFFICES ASSUME k + 1 <= n PROVE after[k + 1] \in S
    OBVIOUS
  <2>1. k + 1 \in 0..n /\ k + 1 \in 1..n /\ (k + 1) - 1 = k /\ k + 1 # 0
    BY <1>4
  <2>2. after[k] \in S
    BY <1>4, <1>14
  <2>3. after[k + 1] = AddOrSkip(after[k], inputs[k + 1])
    BY <1>12, <2>1, Zenon
  <2> QED BY <1>3, <2>1, <2>2, <2>3, Zenon
<1>15. Nat \subseteq T
  <2> HIDE DEF T
  <2> QED BY <1>13, <1>14, SetInduction
<1>16. after[n] \in S
  BY <1>4, <1>15
<1> QED BY <1>1, <1>16

(* A removal by swapping shortens the list by one. *)
LEMMA SwapRemoveDef ==
  ASSUME NEW E, NEW s \in Seq(E), NEW i \in 1..Len(s)
  PROVE  SwapRemove(s, i) \in Seq(E) /\ Len(SwapRemove(s, i)) = Len(s) - 1
<1>1. SwapRemove(s, i) \in [1..(Len(s) - 1) -> E] /\ Len(s) - 1 \in Nat
  BY DEF SwapRemove
<1> QED BY <1>1

(* batch_remove_beneficiaries *)
KeptByRemovals(S) ==
  \A x \in S : \A i \in 1..Len(x.beneficiaries) : WithoutBeneficiary(x, i) \in S

(* A set kept by every removal holds the plan after the loop of removals. *)
LEMMA BatchRemoveRule ==
  ASSUME NEW indices, NEW S \in SUBSET Plan, NEW plan \in S, KeptByRemovals(S)
  PROVE  PlanAfterRemovals(plan, indices) \in S
<1> DEFINE n == Len(plan.beneficiaries)
           turn(x, k) == RemoveOrKeep(x, n + 1 - k, indices)
           step == [t \in (1..n) \X S |-> turn(t[2], t[1])]
           g == Iterate(n, step, plan)
           after == CHOOSE f : f = [k \in 0..n |-> IF k = 0 THEN plan
                                      ELSE RemoveOrKeep(f[k - 1], n + 1 - k, indices)]
           Stage(k) == {x \in S : Len(x.beneficiaries) >= n - k}
           Turns(h) == \A k \in 1..n : h[k - 1] \in S => h[k] = turn(h[k - 1], k)
<1>1. PlanAfterRemovals(plan, indices) = after[n]
  BY DEF PlanAfterRemovals
<1>2. \A k \in 1..n : \A x \in S : step[<<k, x>>] = turn(x, k)
  OBVIOUS
<1>3. n \in Nat
  BY DEF Plan
<1>arithmetic. \A k, m \in Nat : m + 1 - (k + 1) = m - k
  OBVIOUS
<1>4. ASSUME NEW k \in Nat, k + 1 <= n, NEW x \in Stage(k)
      PROVE  turn(x, k + 1) \in Stage(k + 1)
  <2> DEFINE i == n - k
  <2>1. n + 1 - (k + 1) = i
    BY <1>arithmetic, <1>3, Zenon
  <2>2. i \in 1..Len(x.beneficiaries) /\ Len(x.beneficiaries) \in Nat
    BY <1>3, <1>4 DEF Plan
  <2>3. CASE i \in indices
    <3>1. WithoutBeneficiary(x, i) \in S
      BY <2>2, Zenon DEF KeptByRemovals
    <3>2. WithoutBeneficiary(x, i).beneficiaries = SwapRemove(x.beneficiaries, i)
      BY DEF WithoutBeneficiary, Plan
    <3>3. Len(SwapRemove(x.beneficiaries, i)) = Len(x.beneficiaries) - 1
      BY <2>2, SwapRemoveDef DEF Plan
    <3>4. Len(WithoutBeneficiary(x, i).beneficiaries) >= n - (k + 1)
      BY <1>3, <1>4, <2>2, <3>2, <3>3
    <3>5. turn(x, k + 1) = WithoutBeneficiary(x, i)
      BY <2>1, <2>3 DEF RemoveOrKeep
    <3> QED BY <3>1, <3>4, <3>5
  <2>4. CASE i \notin indices
    <3>1. turn(x, k + 1) = x
      BY <2>1, <2>4 DEF RemoveOrKeep
    <3>2. Len(x.beneficiaries) >= n - (k + 1)
      BY <1>3, <1>4, <2>2
    <3> QED BY <3>1, <3>2, <1>4
  <2> QED BY <2>3, <2>4
<1>5. plan \in Stage(0)
  BY <1>3
<1>6. \A k : Stage(k) \subseteq S
  OBVIOUS
<1>7. g = Iterate(n, step, plan)
  OBVIOUS
<1> HIDE DEF n, turn, step, g, Stage
<1>8. ASSUME NEW h, h[0] = plan, Turns(h)
      PROVE  \A k \in 0..n : h[k] \in S
  <2> DEFINE T == {k \in Nat : k <= n => h[k] \in Stage(k)}
  <2>1. 0 \in T
    BY <1>5, <1>8
  <2>2. ASSUME NEW k \in Nat, k \in T PROVE k + 1 \in T
    <3> SUFFICES ASSUME k + 1 <= n PROVE h[k + 1] \in Stage(k + 1)
      OBVIOUS
    <3>1. k + 1 \in 1..n /\ (k + 1) - 1 = k
      BY <1>3
    <3>2. h[k] \in Stage(k)
      BY <1>3, <2>2
    <3>3. h[k + 1] = turn(h[k], k + 1)
      BY <1>6, <1>8, <3>1, <3>2, Zenon
    <3> QED BY <1>4, <3>2, <3>3, Zenon
  <2>3. Nat \subseteq T
    <3> HIDE DEF T
    <3> QED BY <2>1, <2>2, SetInduction
  <2>4. ASSUME NEW k \in 0..n PROVE h[k] \in Stage(k)
    BY <1>3, <2>3
  <2> QED BY <1>6, <2>4, Zenon
<1>9. g = [k \in 0..n |-> IF k = 0 THEN plan ELSE step[<<k, g[k - 1]>>]]
  BY <1>3, <1>7, IterateDef
<1>10. ASSUME NEW k \in 1..n, g[k - 1] \in S PROVE g[k] = turn(g[k - 1], k)
  <2>1. g[k] = step[<<k, g[k - 1]>>]
    BY <1>3, <1>9
  <2> QED BY <1>2, <1>10, <2>1, Zenon
<1>11. \A k \in 0..n : g[k] \in S
  <2>1. g[0] = plan
    BY <1>3, <1>9
  <2>2. Turns(g)
    BY <1>10, Zenon
  <2> HIDE DEF Turns
  <2> QED BY <1>8, <2>1, <2>2
<1>12. ASSUME NEW k \in 0..n
       PROVE  g[k] = IF k = 0 THEN plan ELSE turn(g[k - 1], k)
  <2>1. CASE k = 0
    BY <1>9, <2>1
  <2>2. CASE k # 0
    <3>1. k \in 1..n /\ k - 1 \in 0..n
      BY <1>3, <2>2
    <3>2. g[k - 1] \in S
      BY <1>11, <3>1, Zenon
    <3> QED BY <1>10, <2>2, <3>1, <3>2, Zenon
  <2> QED BY <2>1, <2>2
<1>13. g = [k \in 0..n |-> IF k = 0 THEN plan
                           ELSE RemoveOrKeep(g[k - 1], n + 1 - k, indices)]
  <2>1. g = [k \in 0..n |-> g[k]]
    BY <1>9
  <2> QED BY <2>1, <1>12, Zenon DEF turn
<1>14. after = [k \in 0..n |-> IF k = 0 THEN plan
                               ELSE RemoveOrKeep(after[k - 1], n + 1 - k, indices)]
  BY <1>13, Zenon
<1> HIDE DEF after
<1>15. ASSUME NEW k \in 0..n PROVE after[k] = IF k = 0 THEN plan ELSE turn(after[k - 1], k)
  BY <1>14, Zenon DEF turn
<1>16. after[0] = plan
  <2>1. 0 \in 0..n
    BY <1>3
  <2> QED BY <1>15, <2>1, Zenon
<1>17. Turns(after)
  <2>1. ASSUME NEW k \in 1..n PROVE k \in 0..n /\ k # 0
    OBVIOUS
  <2> QED BY <1>15, <2>1, Zenon
<1>18. after[n] \in S
  <2> HIDE DEF Turns
  <2>1. \A k \in 0..n : after[k] \in S
    BY <1>8, <1>16, <1>17
  <2> QED BY <1>3, <2>1
<1> QED BY <1>1, <1>18

(* batch_claim *)
KeptByClaims(S, p, entries) ==
  \A x \in S : \A i \in 1..Len(entries) : ClaimOrSkip(x, p, entries[i]) \in S

(* A set kept by every claim holds plan and records after the loop of claims. *)
LEMMA BatchClaimRule ==
  ASSUME NEW p, NEW entries, Len(entries) \in Nat, NEW S,
         [plan |-> plans[p], claims |-> claims] \in S, KeptByClaims(S, p, entries)
  PROVE  BookAfterClaims(p, entries) \in S
<1> DEFINE n == Len(entries)
           start == [plan |-> plans[p], claims |-> claims]
           step == [t \in (1..n) \X S |-> ClaimOrSkip(t[2], p, entries[t[1]])]
           g == Iterate(n, step, start)
           after == CHOOSE f : f = [k \in 0..n |-> IF k = 0 THEN start
                                      ELSE ClaimOrSkip(f[k - 1], p, entries[k])]
<1>1. BookAfterClaims(p, entries) = after[n]
  BY DEF BookAfterClaims
<1>2. \A k \in 1..n : \A x \in S : step[<<k, x>>] = ClaimOrSkip(x, p, entries[k])
  OBVIOUS
<1>3. \A x \in S : \A k \in 1..n : ClaimOrSkip(x, p, entries[k]) \in S
  BY Zenon DEF KeptByClaims
<1>4. n \in Nat
  OBVIOUS
<1>5. step \in [(1..n) \X S -> S]
  <2>1. ASSUME NEW t \in (1..n) \X S PROVE ClaimOrSkip(t[2], p, entries[t[1]]) \in S
    <3>1. t[1] \in 1..n /\ t[2] \in S
      OBVIOUS
    <3> QED BY <1>3, <3>1, Zenon
  <2> QED BY <2>1, Zenon
<1>0. start \in S
  OBVIOUS
<1>6. g = Iterate(n, step, start)
  OBVIOUS
<1> HIDE DEF n, start, step, g
<1>7. g = [k \in 0..n |-> IF k = 0 THEN start ELSE step[<<k, g[k - 1]>>]]
  BY <1>4, <1>6, IterateDef
<1>8. \A k \in 0..n : g[k] \in S
  BY <1>0, <1>4, <1>5, <1>6, IterateIn
<1>9. ASSUME NEW k \in 0..n
      PROVE  g[k] = IF k = 0 THEN start ELSE ClaimOrSkip(g[k - 1], p, entries[k])
  <2>1. g[k] = IF k = 0 THEN start ELSE step[<<k, g[k - 1]>>]
    BY <1>7
  <2>2. CASE k # 0
    <3>1. k \in 1..n /\ k - 1 \in 0..n
      BY <1>4, <2>2
    <3>2. g[k - 1] \in S
      BY <1>8, <3>1
    <3> QED BY <1>2, <2>1, <2>2, <3>1, <3>2, Zenon
  <2> QED BY <2>1, <2>2, Zenon
<1>10. g = [k \in 0..n |-> IF k = 0 THEN start ELSE ClaimOrSkip(g[k - 1], p, entries[k])]
  <2>1. g = [k \in 0..n |-> g[k]]
    BY <1>7
  <2> QED BY <2>1, <1>9, Zenon
<1>11. after = [k \in 0..n |-> IF k = 0 THEN start ELSE ClaimOrSkip(after[k - 1], p, entries[k])]
  BY <1>10, Zenon
<1> HIDE DEF after
<1>12. ASSUME NEW k \in 0..n
       PROVE  after[k] = IF k = 0 THEN start ELSE ClaimOrSkip(after[k - 1], p, entries[k])
  BY <1>11, Zenon
<1> DEFINE T == {k \in Nat : k <= n => after[k] \in S}
<1>13. 0 \in T
  <2>1. 0 \in 0..n
    BY <1>4
  <2>2. after[0] = start
    BY <1>12, <2>1, Zenon
  <2> QED BY <1>0, <2>2
<1>14. ASSUME NEW k \in Nat, k \in T PROVE k + 1 \in T
  <2> SUFFICES ASSUME k + 1 <= n PROVE after[k + 1] \in S
    OBVIOUS
  <2>1. k + 1 \in 0..n /\ k + 1 \in 1..n /\ (k + 1) - 1 = k /\ k + 1 # 0
    BY <1>4
  <2>2. after[k] \in S
    BY <1>4, <1>14
  <2>3. after[k + 1] = ClaimOrSkip(after[k], p, entries[k + 1])
    BY <1>12, <2>1, Zenon
  <2> QED BY <1>3, <2>1, <2>2, <2>3, Zenon
<1>15. Nat \subseteq T
  <2> HIDE DEF T
  <2> QED BY <1>13, <1>14, SetInduction
<1>16. after[n] \in S
  BY <1>4, <1>15
<1> QED BY <1>1, <1>16

-----------------------------------------------------------------------------
(* Sums of allocations. *)

(* The function SumUpTo is built from. *)
PartialSums(s, n) ==
  CHOOSE f : f = [i \in 0..n |-> IF i = 0 THEN 0 ELSE f[i - 1] + s[i]]

(* A list of n natural numbers. *)
NatList(s, n) == n \in Nat /\ s \in [1..n -> Nat]

(* The sums of its first 0, 1, ... elements. *)
StepBySum(sum, s, n) ==
  /\ sum[0] = 0
  /\ \A k \in 1..n : sum[k] = sum[k - 1] + s[k]

(* The sums up to 0, 1, ... are defined step by step. *)
LEMMA SumUpToDef ==
  ASSUME NEW n, NEW s, NatList(s, n), NEW sum, sum = PartialSums(s, n)
  PROVE  SumUpTo(s, n) = sum[n] /\ StepBySum(sum, s, n)
<1> USE DEF NatList
<1> DEFINE step == [t \in (1..n) \X Nat |-> t[2] + s[t[1]]]
           g == Iterate(n, step, 0)
<1>1. step \in [(1..n) \X Nat -> Nat]
  OBVIOUS
<1>2. \A i \in 1..n, x \in Nat : step[<<i, x>>] = x + s[i]
  OBVIOUS
<1>3. g = Iterate(n, step, 0)
  OBVIOUS
<1> HIDE DEF g, step
<1>4. g = [i \in 0..n |-> IF i = 0 THEN 0 ELSE step[<<i, g[i - 1]>>]]
  BY <1>3, IterateDef
<1>5. \A k \in 0..n : g[k] \in Nat
  BY <1>1, <1>3, IterateIn
<1>6. ASSUME NEW i \in 0..n PROVE g[i] = IF i = 0 THEN 0 ELSE g[i - 1] + s[i]
  <2>1. CASE i # 0
    <3>1. i \in 1..n /\ i - 1 \in 0..n
      BY <2>1
    <3>2. g[i] = step[<<i, g[i - 1]>>]
      BY <1>4, <2>1
    <3> QED BY <1>2, <1>5, <2>1, <3>1, <3>2
  <2>2. CASE i = 0
    BY <1>4, <2>2
  <2> QED BY <2>1, <2>2
<1>7. g = [i \in 0..n |-> IF i = 0 THEN 0 ELSE g[i - 1] + s[i]]
  <2>1. g = [i \in 0..n |-> g[i]]
    BY <1>4
  <2> QED BY <2>1, <1>6
<1>8. sum = [i \in 0..n |-> IF i = 0 THEN 0 ELSE sum[i - 1] + s[i]]
  BY <1>7 DEF PartialSums
<1>9. SumUpTo(s, n) = sum[n]
  BY DEF SumUpTo, PartialSums
<1>10. sum[0] = 0
  BY <1>8
<1>11. ASSUME NEW k \in 1..n PROVE sum[k] = sum[k - 1] + s[k]
  <2>1. k \in 0..n /\ k # 0
    OBVIOUS
  <2> QED BY <1>8, <2>1
<1> QED BY <1>9, <1>10, <1>11 DEF StepBySum

(* A sum of natural numbers is at least each of them. *)
LEMMA SumBoundsTerms ==
  ASSUME NEW n \in Nat, NEW s \in [1..n -> Nat]
  PROVE  /\ SumUpTo(s, n) \in Nat
         /\ \A i \in 1..n : s[i] <= SumUpTo(s, n)
<1> DEFINE sum == PartialSums(s, n)
<1>1. /\ SumUpTo(s, n) = sum[n]
      /\ sum[0] = 0
      /\ \A k \in 1..n : sum[k] = sum[k - 1] + s[k]
  <2>1. NatList(s, n) /\ sum = PartialSums(s, n)
    BY DEF NatList
  <2> HIDE DEF sum
  <2>2. SumUpTo(s, n) = sum[n] /\ StepBySum(sum, s, n)
    BY <2>1, SumUpToDef
  <2> QED BY <2>2 DEF StepBySum
<1> HIDE DEF sum
<1> DEFINE T == {k \in Nat : k <= n => /\ sum[k] \in Nat
                                      /\ \A i \in 1..k : s[i] <= sum[k]}
<1>2. 0 \in T
  BY <1>1
<1>3. ASSUME NEW k \in Nat, k \in T PROVE k + 1 \in T
  <2> SUFFICES ASSUME k + 1 <= n
               PROVE  sum[k + 1] \in Nat /\ \A i \in 1..(k + 1) : s[i] <= sum[k + 1]
    OBVIOUS
  <2>1. sum[k + 1] = sum[k] + s[k + 1] /\ sum[k] \in Nat /\ s[k + 1] \in Nat
    <3>1. sum[k + 1] = sum[(k + 1) - 1] + s[k + 1]
      BY <1>1
    <3> QED BY <1>3, <3>1
  <2> QED BY <1>3, <2>1
<1>4. Nat \subseteq T
  <2> HIDE DEF T
  <2> QED BY <1>2, <1>3, SetInduction
<1> QED BY <1>1, <1>4

(* A list with one element more has a sum larger by it. *)
LEMMA SumExtended ==
  ASSUME NEW n \in Nat, NEW s \in [1..n -> Nat], NEW t \in [1..(n + 1) -> Nat],
         \A k \in 1..n : t[k] = s[k]
  PROVE  SumUpTo(t, n + 1) = SumUpTo(s, n) + t[n + 1]
<1> DEFINE a == PartialSums(s, n)
           b == PartialSums(t, n + 1)
<1>1. /\ SumUpTo(s, n) = a[n] /\ a[0] = 0
      /\ \A k \in 1..n : a[k] = a[k - 1] + s[k]
  <2>1. NatList(s, n) /\ a = PartialSums(s, n)
    BY DEF NatList
  <2> HIDE DEF a
  <2>2. SumUpTo(s, n) = a[n] /\ StepBySum(a, s, n)
    BY <2>1, SumUpToDef
  <2> QED BY <2>2 DEF StepBySum
<1>2. /\ SumUpTo(t, n + 1) = b[n + 1] /\ b[0] = 0
      /\ \A k \in 1..(n + 1) : b[k] = b[k - 1] + t[k]
  <2>1. n + 1 \in Nat
    OBVIOUS
  <2>2. NatList(t, n + 1) /\ b = PartialSums(t, n + 1)
    BY <2>1 DEF NatList
  <2> HIDE DEF b
  <2>3. SumUpTo(t, n + 1) = b[n + 1] /\ StepBySum(b, t, n + 1)
    BY <2>2, SumUpToDef
  <2> QED BY <2>3 DEF StepBySum
<1> HIDE DEF a, b
<1> DEFINE T == {k \in Nat : k <= n => b[k] = a[k]}
<1>3. 0 \in T
  BY <1>1, <1>2
<1>4. ASSUME NEW k \in Nat, k \in T PROVE k + 1 \in T
  <2> SUFFICES ASSUME k + 1 <= n PROVE b[k + 1] = a[k + 1]
    OBVIOUS
  <2>1. k + 1 \in 1..n /\ k + 1 \in 1..(n + 1) /\ (k + 1) - 1 = k /\ b[k] = a[k]
    BY <1>4
  <2>2. a[k + 1] = a[k] + s[k + 1] /\ b[k + 1] = b[k] + t[k + 1] /\ t[k + 1] = s[k + 1]
    BY <1>1, <1>2, <2>1
  <2> QED BY <2>1, <2>2
<1>5. Nat \subseteq T
  <2> HIDE DEF T
  <2> QED BY <1>3, <1>4, SetInduction
<1>6. b[n] = a[n] /\ b[n + 1] = b[n] + t[n + 1]
  <2>1. n + 1 \in 1..(n + 1) /\ (n + 1) - 1 = n
    OBVIOUS
  <2> QED BY <1>2, <1>5, <2>1
<1> QED BY <1>1, <1>2, <1>6

(* A list whose last element has taken the place of another has a sum      *)
(* smaller by the other.                                                   *)
LEMMA SumSwapped ==
  ASSUME NEW n \in Nat, NEW s \in [1..(n + 1) -> Nat], NEW t \in [1..n -> Nat],
         NEW i \in 1..(n + 1),
         \A k \in 1..n : t[k] = IF k = i THEN s[n + 1] ELSE s[k]
  PROVE  SumUpTo(t, n) = SumUpTo(s, n + 1) - s[i]
<1> DEFINE a == PartialSums(s, n + 1)
           b == PartialSums(t, n)
<1>1. /\ SumUpTo(s, n + 1) = a[n + 1] /\ a[0] = 0
      /\ \A k \in 1..(n + 1) : a[k] = a[k - 1] + s[k]
  <2>1. n + 1 \in Nat
    OBVIOUS
  <2>2. NatList(s, n + 1) /\ a = PartialSums(s, n + 1)
    BY <2>1 DEF NatList
  <2> HIDE DEF a
  <2>3. SumUpTo(s, n + 1) = a[n + 1] /\ StepBySum(a, s, n + 1)
    BY <2>2, SumUpToDef
  <2> QED BY <2>3 DEF StepBySum
<1>2. /\ SumUpTo(t, n) = b[n] /\ b[0] = 0
      /\ \A k \in 1..n : b[k] = b[k - 1] + t[k]
  <2>1. NatList(t, n) /\ b = PartialSums(t, n)
    BY DEF NatList
  <2> HIDE DEF b
  <2>2. SumUpTo(t, n) = b[n] /\ StepBySum(b, t, n)
    BY <2>1, SumUpToDef
  <2> QED BY <2>2 DEF StepBySum
<1> HIDE DEF a, b
<1> DEFINE last == s[n + 1]
           Shifted(k) == IF k < i THEN a[k] ELSE a[k] - s[i] + last
           T == {k \in Nat : k <= n => a[k] \in Int /\ b[k] = Shifted(k)}
<1>3. 0 \in T
  BY <1>1, <1>2
<1>4. ASSUME NEW k \in Nat, k \in T PROVE k + 1 \in T
  <2> SUFFICES ASSUME k + 1 <= n PROVE a[k + 1] \in Int /\ b[k + 1] = Shifted(k + 1)
    OBVIOUS
  <2>1. k + 1 \in 1..(n + 1) /\ k + 1 \in 1..n /\ (k + 1) - 1 = k /\ k <= n
    OBVIOUS
  <2>2. a[k] \in Int /\ b[k] = Shifted(k)
    BY <1>4, <2>1
  <2>3. a[k + 1] = a[k] + s[k + 1] /\ b[k + 1] = b[k] + t[k + 1]
        /\ s[k + 1] \in Nat /\ s[i] \in Nat /\ last \in Nat
    BY <1>1, <1>2, <2>1
  <2>4. t[k + 1] = IF k + 1 = i THEN last ELSE s[k + 1]
    BY <2>1
  <2>5. CASE k + 1 < i
    <3>1. Shifted(k) = a[k] /\ Shifted(k + 1) = a[k + 1] /\ t[k + 1] = s[k + 1]
      BY <2>4, <2>5
    <3> QED BY <2>2, <2>3, <3>1
  <2>6. CASE k + 1 = i
    <3>1. Shifted(k) = a[k] /\ Shifted(k + 1) = a[k + 1] - s[i] + last /\ t[k + 1] = last
          /\ s[k + 1] = s[i]
      BY <2>4, <2>6
    <3> HIDE DEF Shifted
    <3> QED BY <2>2, <2>3, <3>1
  <2>7. CASE k + 1 > i
    <3>1. /\ Shifted(k) = a[k] - s[i] + last /\ Shifted(k + 1) = a[k + 1] - s[i] + last
          /\ t[k + 1] = s[k + 1]
      BY <2>4, <2>7
    <3> HIDE DEF Shifted
    <3> QED BY <2>2, <2>3, <3>1
  <2> QED BY <2>5, <2>6, <2>7
<1>5. Nat \subseteq T
  <2> HIDE DEF T
  <2> QED BY <1>3, <1>4, SetInduction
<1>6. n + 1 \in 1..(n + 1) /\ (n + 1) - 1 = n
  OBVIOUS
<1>7. /\ a[n] \in Int /\ b[n] = Shifted(n) /\ a[n + 1] = a[n] + last
      /\ last \in Nat /\ s[i] \in Nat
  BY <1>1, <1>5, <1>6
<1>8. CASE i = n + 1
  BY <1>1, <1>2, <1>7, <1>8
<1>9. CASE i # n + 1
  <2>1. ~(n < i)
    BY <1>9
  <2> QED BY <1>1, <1>2, <1>7, <2>1
<1> QED BY <1>8, <1>9

-----------------------------------------------------------------------------
(* Storage and tokens. *)

(* Writing a key of a map. *)
LEMMA PutIsMap ==
  ASSUME NEW Key, NEW Value, NEW map, IsMap(map, Key, Value),
         NEW k \in Key, NEW v \in Value
  PROVE  IsMap(Put(map, k, v), Key, Value)
BY DEF IsMap, Put

(* Removing a key of a map. *)
LEMMA DropIsMap ==
  ASSUME NEW Key, NEW Value, NEW map, IsMap(map, Key, Value), NEW k
  PROVE  IsMap(Drop(map, k), Key, Value)
BY DEF IsMap, Drop

(* The set of the functions IsMap describes. *)
Maps(Key, Value) == UNION {[D -> Value] : D \in SUBSET Key}

(* Maps is the set of the maps IsMap describes. *)
LEMMA MapsAreMaps ==
  ASSUME NEW Key, NEW Value, NEW map
  PROVE  IsMap(map, Key, Value) <=> map \in Maps(Key, Value)
BY DEF IsMap, Maps

(* An element added once to a list. *)
LEMMA PushNewTyped ==
  ASSUME NEW E, NEW s \in Seq(E), NEW e \in E
  PROVE  PushNew(s, e) \in Seq(E)
BY DEF PushNew

(* A covered transfer leaves no balance negative. *)
LEMMA TransferTyped ==
  ASSUME NEW A, NEW balances \in [A -> Nat], NEW from \in A, NEW to \in A,
         NEW amount \in Nat, amount <= balances[from]
  PROVE  Transfer(balances, from, to, amount) \in [A -> Nat]
BY DEF Transfer

(* A product of natural numbers is one. *)
LEMMA NatProduct ==
  ASSUME NEW a \in Nat, NEW b \in Nat PROVE a * b \in Nat
OBVIOUS

(* A share of an amount is a natural number. *)
LEMMA ShareTyped ==
  ASSUME NEW amount \in Nat, NEW bp \in Nat
  PROVE  Share(amount, bp) \in Nat
<1>1. amount * bp \in Nat
  BY NatProduct
<1> DEFINE product == amount * bp
<1> HIDE DEF product
<1>2. product \in Nat => product \div FULL_ALLOCATION \in Nat
  BY DEF FULL_ALLOCATION
<1> QED BY <1>1, <1>2 DEF Share, product

(* The creation fee is never more than the amount. *)
LEMMA CreationFeeBound ==
  ASSUME NEW amount \in Nat
  PROVE  CreationFee(amount) \in 0..amount
BY DEF CreationFee, CREATION_FEE_BP, FULL_ALLOCATION

-----------------------------------------------------------------------------
(* Beneficiaries. *)

(* The whole, in basis points, as a number without its digits. *)
LEMMA FullAllocation == FULL_ALLOCATION \in Nat
BY DEF FULL_ALLOCATION

(* An allocation that still fits lies in the range, and so does the sum. *)
LEMMA AllocationSum ==
  ASSUME NEW t \in 0..FULL_ALLOCATION, NEW bp \in Nat, bp # 0,
         t + bp <= FULL_ALLOCATION
  PROVE  bp \in 1..FULL_ALLOCATION /\ t + bp \in 0..FULL_ALLOCATION
BY FullAllocation

(* A total less one of its parts lies in the range. *)
LEMMA AllocationDifference ==
  ASSUME NEW t \in 0..FULL_ALLOCATION, NEW bp \in 1..FULL_ALLOCATION
  PROVE  SaturatingSub(t, bp) \in 0..FULL_ALLOCATION
BY FullAllocation DEF SaturatingSub

(* A beneficiary made of an input whose share is in range. *)
LEMMA NewBeneficiaryTyped ==
  ASSUME NEW input \in BeneficiaryInput, input.allocation_bp \in 1..FULL_ALLOCATION
  PROVE  NewBeneficiary(input) \in Beneficiary
BY DEF BeneficiaryInput, Beneficiary, NewBeneficiary, HashedEmail

(* A plan with one more beneficiary. *)
LEMMA WithBeneficiaryTyped ==
  ASSUME NEW plan \in Plan, NEW input \in BeneficiaryInput,
         CanAddBeneficiary(plan, input)
  PROVE  WithBeneficiary(plan, input) \in Plan
<1>1. plan.total_allocation_bp \in 0..FULL_ALLOCATION /\ input.allocation_bp \in Nat
  BY DEF Plan, BeneficiaryInput
<1>2. /\ input.allocation_bp # 0
      /\ plan.total_allocation_bp + input.allocation_bp <= FULL_ALLOCATION
  BY DEF CanAddBeneficiary
<1>3. /\ input.allocation_bp \in 1..FULL_ALLOCATION
      /\ plan.total_allocation_bp + input.allocation_bp \in 0..FULL_ALLOCATION
  BY <1>1, <1>2, AllocationSum
<1>4. Append(plan.beneficiaries, NewBeneficiary(input)) \in Seq(Beneficiary)
  BY <1>3, NewBeneficiaryTyped DEF Plan
<1> QED BY <1>3, <1>4 DEF WithBeneficiary, Plan

(* A plan with one beneficiary less. *)
LEMMA WithoutBeneficiaryTyped ==
  ASSUME NEW plan \in Plan, NEW i \in 1..Len(plan.beneficiaries)
  PROVE  WithoutBeneficiary(plan, i) \in Plan
<1>1. SwapRemove(plan.beneficiaries, i) \in Seq(Beneficiary)
  BY SwapRemoveDef DEF Plan
<1>2. plan.beneficiaries[i].allocation_bp \in 1..FULL_ALLOCATION
  <2>1. plan.beneficiaries \in Seq(Beneficiary)
    BY DEF Plan
  <2>2. plan.beneficiaries[i] \in Beneficiary
    BY <2>1
  <2> QED BY <2>2 DEF Beneficiary
<1>3. SaturatingSub(plan.total_allocation_bp, plan.beneficiaries[i].allocation_bp)
        \in 0..FULL_ALLOCATION
  <2>1. plan.total_allocation_bp \in 0..FULL_ALLOCATION
    BY DEF Plan
  <2> QED BY <1>2, <2>1, AllocationDifference
<1> QED BY <1>1, <1>3 DEF WithoutBeneficiary, Plan

(* A plan after a batch of additions. *)
LEMMA BatchAddTyped ==
  ASSUME NEW plan \in Plan, NEW inputs \in Seq(BeneficiaryInput)
  PROVE  PlanAfterAdds(plan, inputs) \in Plan
<1>1. KeptByAdds(Plan, inputs)
  <2> SUFFICES ASSUME NEW x \in Plan, NEW i \in 1..Len(inputs)
               PROVE  AddOrSkip(x, inputs[i]) \in Plan
    BY DEF KeptByAdds
  <2>1. inputs[i] \in BeneficiaryInput
    OBVIOUS
  <2> QED BY <2>1, WithBeneficiaryTyped DEF AddOrSkip
<1> QED BY <1>1, BatchAddRule

(* A plan after a batch of removals. *)
LEMMA BatchRemoveTyped ==
  ASSUME NEW plan \in Plan, NEW indices
  PROVE  PlanAfterRemovals(plan, indices) \in Plan
<1>1. KeptByRemovals(Plan)
  BY WithoutBeneficiaryTyped DEF KeptByRemovals
<1> QED BY <1>1, BatchRemoveRule

(* A list of allocations with a given sum has no larger element. *)
LEMMA InputsTyped ==
  ASSUME NEW inputs \in Seq(BeneficiaryInput), ValidBeneficiaries(inputs)
  PROVE  [i \in 1..Len(inputs) |-> NewBeneficiary(inputs[i])] \in Seq(Beneficiary)
<1> DEFINE s == Allocations(inputs)
<1>1. Len(inputs) \in Nat /\ s \in [1..Len(inputs) -> Nat]
  <2>1. ASSUME NEW i \in 1..Len(inputs) PROVE inputs[i].allocation_bp \in Nat
    <3>1. inputs[i] \in BeneficiaryInput
      OBVIOUS
    <3> QED BY <3>1 DEF BeneficiaryInput
  <2> QED BY <2>1 DEF Allocations
<1>2. \A i \in 1..Len(inputs) : s[i] <= FULL_ALLOCATION
  BY <1>1, SumBoundsTerms DEF ValidBeneficiaries, TotalAllocation
<1>3. ASSUME NEW i \in 1..Len(inputs)
      PROVE  NewBeneficiary(inputs[i]) \in Beneficiary
  <2>1. inputs[i] \in BeneficiaryInput /\ s[i] = inputs[i].allocation_bp
    BY DEF Allocations
  <2>2. inputs[i].allocation_bp # 0
    BY DEF ValidBeneficiaries
  <2>3. inputs[i].allocation_bp \in 1..FULL_ALLOCATION
    <3>1. inputs[i].allocation_bp \in Nat
      BY <2>1 DEF BeneficiaryInput
    <3>2. inputs[i].allocation_bp <= FULL_ALLOCATION
      BY <1>2, <2>1
    <3> QED BY <2>2, <3>1, <3>2, FullAllocation
  <2> QED BY <2>1, <2>3, NewBeneficiaryTyped
<1> QED BY <1>1, <1>3

(* A list without the first occurrence of an element. *)
LEMMA RemoveFirstTyped ==
  ASSUME NEW E, NEW s \in Seq(E), NEW id
  PROVE  RemoveFirstId(s, id) \in Seq(E)
<1>1. CASE ~InSeq(s, id)
  BY <1>1 DEF RemoveFirstId
<1>2. CASE InSeq(s, id)
  <2> DEFINE T == {i \in DOMAIN s : s[i] = id}
             at == CHOOSE i \in DOMAIN s : s[i] = id /\ \A j \in 1..(i - 1) : s[j] # id
  <2>1. T \subseteq Nat /\ T # {}
    BY <1>2 DEF InSeq
  <2>2. PICK i \in T : \A m \in T : i <= m
    BY <2>1, LeastNat
  <2>3. i \in DOMAIN s /\ s[i] = id /\ \A j \in 1..(i - 1) : s[j] # id
    BY <2>2
  <2>4. at \in 1..Len(s)
    BY <2>3
  <2> HIDE DEF at
  <2>5. [k \in 1..(Len(s) - 1) |-> IF k < at THEN s[k] ELSE s[k + 1]]
          \in [1..(Len(s) - 1) -> E]
    BY <2>4
  <2>6. Len(s) - 1 \in Nat
    BY <2>4
  <2>7. RemoveFirstId(s, id) = [k \in 1..(Len(s) - 1) |-> IF k < at THEN s[k] ELSE s[k + 1]]
    BY <1>2 DEF RemoveFirstId, at
  <2> QED BY <2>5, <2>6, <2>7
<1> QED BY <1>1, <1>2

-----------------------------------------------------------------------------
(* Claims. *)

(* The beneficiary a claim finds is one of the list. *)
LEMMA FirstMatchTyped ==
  ASSUME NEW plan \in Plan, NEW email, NEW code, Matches(plan, email, code) # {}
  PROVE  FirstMatch(plan, email, code) \in 1..Len(plan.beneficiaries)
<1>1. plan.beneficiaries \in Seq(Beneficiary)
  BY DEF Plan
<1>2. Matches(plan, email, code) \subseteq 1..Len(plan.beneficiaries)
  BY <1>1 DEF Matches
<1>3. PICK i \in Matches(plan, email, code) : \A j \in Matches(plan, email, code) : i <= j
  BY <1>2, LeastNat
<1>4. FirstMatch(plan, email, code) \in Matches(plan, email, code)
  BY <1>3 DEF FirstMatch
<1> QED BY <1>2, <1>4

(* The payout of an entry of a batch. *)
LEMMA BatchPayoutTyped ==
  ASSUME NEW plan \in Plan, NEW i \in 1..Len(plan.beneficiaries)
  PROVE  BatchPayout(plan, i) \in Nat
<1>1. plan.beneficiaries \in Seq(Beneficiary) /\ plan.total_amount \in Nat
  BY AmountAssumption DEF Plan
<1>2. plan.beneficiaries[i] \in Beneficiary
  BY <1>1
<1>3. plan.beneficiaries[i].allocation_bp \in Nat
  BY <1>2 DEF Beneficiary
<1> QED BY <1>1, <1>3, ShareTyped DEF BatchPayout

(* The payout of a single claim. *)
LEMMA PayoutTyped ==
  ASSUME NEW plan \in Plan, NEW i \in 1..Len(plan.beneficiaries)
  PROVE  CalculateWaterfallPayout(plan, i) \in Nat
<1>1. BatchPayout(plan, i) \in Nat /\ plan.total_amount \in Nat
  BY BatchPayoutTyped, AmountAssumption DEF Plan
<1> QED BY <1>1 DEF CalculateWaterfallPayout, Least, BatchPayout

(* The amount of a plan less a payout. *)
LEMMA LessAmountTyped ==
  ASSUME NEW plan \in Plan, NEW amount \in Nat
  PROVE  SaturatingSub(plan.total_amount, amount) \in 0..U64Max
<1>1. plan.total_amount \in 0..U64Max
  BY DEF Plan
<1> QED BY <1>1, AmountAssumption DEF SaturatingSub

(* The pair of a plan and the claim records a batch works on. *)
Book == [plan : Plan, claims : Maps(Nat \X HashedEmail, ClaimRecord)]

EntryRecord == [claimer : Address, email : Email, claim_code : ClaimCode]

(* The key of a claim record. *)
LEMMA ClaimKeyTyped ==
  ASSUME NEW p \in Nat, NEW email \in Email
  PROVE  ClaimKey(p, email) \in Nat \X HashedEmail
BY DEF ClaimKey, HashedEmail

(* The book after one entry of a batch. *)
LEMMA ClaimOrSkipTyped ==
  ASSUME NEW p \in Nat, NEW book \in Book, NEW entry \in EntryRecord
  PROVE  ClaimOrSkip(book, p, entry) \in Book
<1>1. CASE ~CanClaimInBatch(book, p, entry)
  BY <1>1 DEF ClaimOrSkip
<1>2. CASE CanClaimInBatch(book, p, entry)
  <2> DEFINE i      == FirstMatch(book.plan, entry.email, entry.claim_code)
             payout == BatchPayout(book.plan, i)
             plan   == [book.plan EXCEPT !.total_amount = SaturatingSub(@, payout)]
             record == [beneficiary_index |-> i, payout |-> payout]
             key    == ClaimKey(p, entry.email)
  <2>1. book.plan \in Plan /\ book.claims \in Maps(Nat \X HashedEmail, ClaimRecord)
    BY DEF Book
  <2>2. i \in 1..Len(book.plan.beneficiaries)
    BY <1>2, <2>1, FirstMatchTyped DEF CanClaimInBatch
  <2>3. payout \in Nat
    BY <2>1, <2>2, BatchPayoutTyped
  <2>4. SaturatingSub(book.plan.total_amount, payout) \in 0..U64Max
    BY <2>1, <2>3, LessAmountTyped
  <2>5. plan \in Plan
    BY <2>1, <2>4 DEF Plan
  <2>6. record \in ClaimRecord
    BY <2>2, <2>3 DEF ClaimRecord
  <2>7. key \in Nat \X HashedEmail
    BY ClaimKeyTyped DEF EntryRecord
  <2>8. Put(book.claims, key, record) \in Maps(Nat \X HashedEmail, ClaimRecord)
    <3> HIDE DEF key, record
    <3>1. IsMap(book.claims, Nat \X HashedEmail, ClaimRecord)
      BY <2>1, MapsAreMaps
    <3>2. IsMap(Put(book.claims, key, record), Nat \X HashedEmail, ClaimRecord)
      BY <2>6, <2>7, <3>1, PutIsMap
    <3> QED BY <3>2, MapsAreMaps
  <2>9. ClaimOrSkip(book, p, entry) = [plan |-> plan, claims |-> Put(book.claims, key, record)]
    BY <1>2 DEF ClaimOrSkip
  <2> HIDE DEF plan, record, key
  <2> QED BY <2>5, <2>8, <2>9 DEF Book
<1> QED BY <1>1, <1>2

(* The book after a batch of claims. *)
LEMMA BatchClaimTyped ==
  ASSUME TypeOK, NEW p \in DOMAIN plans, NEW entries \in Seq(EntryRecord)
  PROVE  BookAfterClaims(p, entries) \in Book
<1>1. [plan |-> plans[p], claims |-> claims] \in Book
  <2>1. claims \in Maps(Nat \X HashedEmail, ClaimRecord)
    BY MapsAreMaps DEF TypeOK
  <2> QED BY <2>1 DEF TypeOK, Book
<1>2. p \in Nat
  BY DEF TypeOK
<1>3. KeptByClaims(Book, p, entries)
  <2> SUFFICES ASSUME NEW x \in Book, NEW i \in 1..Len(entries)
               PROVE  ClaimOrSkip(x, p, entries[i]) \in Book
    BY DEF KeptByClaims
  <2>1. entries[i] \in EntryRecord
    OBVIOUS
  <2> QED BY <1>2, <2>1, ClaimOrSkipTyped
<1>4. Len(entries) \in Nat
  OBVIOUS
<1> QED BY <1>1, <1>3, <1>4, BatchClaimRule

-----------------------------------------------------------------------------
(* The operations of AdminOperations. *)

(* Steps that write roles, KYC and the pause only. *)
LEMMA AccessTyped ==
  ASSUME TypeOK, UNCHANGED otherThanAccess,
         admin' \in Address \cup {None}, paused' \in BOOLEAN,
         roles' \subseteq Address \X Role, IsMap(kyc', Address, KycStatus)
  PROVE  TypeOK'
BY DEF TypeOK, otherThanAccess, indexVars, claimVars, guardVars

(* Calls on roles, KYC and the pause keep the types. *)
LEMMA AdminTyped == TypeOK /\ AdminNext => TypeOK'
<1> SUFFICES ASSUME TypeOK, AdminNext PROVE TypeOK'
  OBVIOUS
<1> USE DEF TypeOK
<1>1. ASSUME NEW a \in AdminCandidate, InitializeAdmin(a) PROVE TypeOK'
  <2>1. a \in Address
    BY ArgumentAssumption
  <2>2. roles' \subseteq Address \X Role
    BY <1>1, <2>1 DEF InitializeAdmin, Role
  <2> QED BY <1>1, <2>1, <2>2, AccessTyped DEF InitializeAdmin
<1>2. ASSUME NEW caller \in Address, NEW change \in RoleChange,
             AssignRole(caller, change[1], change[2])
      PROVE  TypeOK'
  <2>1. change[1] \in Address /\ change[2] \in Role
    BY ArgumentAssumption
  <2>2. roles' \subseteq Address \X Role
    BY <1>2, <2>1 DEF AssignRole
  <2> QED BY <1>2, <2>2, AccessTyped DEF AssignRole
<1>3. ASSUME NEW caller \in Address, NEW change \in RoleChange,
             RevokeRole(caller, change[1], change[2])
      PROVE  TypeOK'
  BY <1>3, AccessTyped DEF RevokeRole
<1>4. ASSUME NEW caller \in Address, NEW value \in PauseValue, SetPaused(caller, value)
      PROVE  TypeOK'
  BY <1>4, ArgumentAssumption, AccessTyped DEF SetPaused
<1>5. ASSUME NEW user \in KycUser, SubmitKyc(user) PROVE TypeOK'
  <2>1. user \in Address
    BY ArgumentAssumption
  <2>2. KycOf(user) \in KycStatus
    BY DEF KycOf, NewKyc, KycStatus, IsMap
  <2>3. [KycOf(user) EXCEPT !.submitted = TRUE] \in KycStatus
    BY <2>2 DEF KycStatus
  <2>4. IsMap(kyc', Address, KycStatus)
    BY <1>5, <2>1, <2>3, PutIsMap DEF SubmitKyc
  <2> QED BY <1>5, <2>4, AccessTyped DEF SubmitKyc
<1>6. ASSUME NEW caller \in Address, NEW user \in Address, ApproveKyc(caller, user)
      PROVE  TypeOK'
  <2>1. IsMap(kyc', Address, KycStatus)
    BY <1>6 DEF ApproveKyc, CanApprove, IsMap, KycStatus
  <2> QED BY <1>6, <2>1, AccessTyped DEF ApproveKyc
<1>7. ASSUME NEW caller \in Address, NEW user \in KycRejected, RejectKyc(caller, user)
      PROVE  TypeOK'
  <2>1. IsMap(kyc', Address, KycStatus)
    BY <1>7 DEF RejectKyc, IsMap, KycStatus
  <2> QED BY <1>7, <2>1, AccessTyped DEF RejectKyc
<1>8. ASSUME NEW caller \in Address, NEW users \in KycBatch, BatchApproveKyc(caller, users)
      PROVE  TypeOK'
  <2>1. IsMap(kyc', Address, KycStatus)
    <3>1. ASSUME NEW k \in KycStatus PROVE [k EXCEPT !.approved = TRUE] \in KycStatus
      BY DEF KycStatus
    <3>2. ASSUME NEW u \in DOMAIN kyc PROVE kyc'[u] \in KycStatus
      BY <1>8, <3>1 DEF BatchApproveKyc, IsMap
    <3>3. /\ DOMAIN kyc' = DOMAIN kyc /\ DOMAIN kyc \subseteq Address
          /\ kyc' = [u \in DOMAIN kyc' |-> kyc'[u]]
      BY <1>8 DEF BatchApproveKyc, IsMap
    <3> QED BY <3>2, <3>3 DEF IsMap
  <2> QED BY <1>8, <2>1, AccessTyped DEF BatchApproveKyc
<1> QED BY <1>1, <1>2, <1>3, <1>4, <1>5, <1>6, <1>7, <1>8 DEF AdminNext

-----------------------------------------------------------------------------
(* The operations of PlanOperations. *)

(* What most of them do: one plan changes, and perhaps the balances.       *)
LEMMA EditPlan ==
  ASSUME TypeOK, NEW p \in DOMAIN plans, NEW plan \in Plan,
         UNCHANGED <<indexVars, otherThanPlans>>,
         plans' = [plans EXCEPT ![p] = plan],
         token' \in [Address \cup {Contract} -> Nat]
  PROVE  TypeOK'
<1>1. plans' \in [1..(next_plan_id - 1) -> Plan]
  BY DEF TypeOK
<1> QED BY <1>1 DEF TypeOK, otherThanPlans, accessVars, indexVars, claimVars, guardVars

(* A plan with an owner is stored and has its type. *)
LEMMA OwnedTyped ==
  ASSUME TypeOK, NEW p, NEW caller, OwnedBy(p, caller)
  PROVE  p \in DOMAIN plans /\ plans[p] \in Plan /\ p \in Nat
BY DEF TypeOK, OwnedBy, PlanExists

(* Creating a plan keeps the types. *)
LEMMA CreateTyped ==
  ASSUME TypeOK, NEW owner \in Address, NEW amount \in CreateAmount,
         NEW method \in CreateMethod, NEW inputs \in CreateInputs,
         NEW lendable \in LendableValue,
         CreateInheritancePlan(owner, amount, method, inputs, lendable)
  PROVE  TypeOK'
<1> DEFINE fee  == CreationFee(amount)
           net  == amount - fee
           plan == [owner |-> owner, total_amount |-> net, total_loaned |-> 0,
                    distribution_method |-> method,
                    beneficiaries |->
                      [i \in 1..Len(inputs) |-> NewBeneficiary(inputs[i])],
                    total_allocation_bp |-> FULL_ALLOCATION, created_at |-> now,
                    is_active |-> TRUE, is_lendable |-> lendable,
                    waterfall_enabled |-> FALSE]
<1>1. /\ amount \in 0..U64Max /\ U64Max \in Nat /\ method \in DistributionMethod
      /\ inputs \in Seq(BeneficiaryInput) /\ lendable \in BOOLEAN
  BY ArgumentAssumption, AmountAssumption
<1>2. fee \in 0..amount
  BY <1>1, CreationFeeBound
<1>3. net \in 0..U64Max /\ fee \in Nat /\ net \in Nat /\ fee + net = amount
  <2> HIDE DEF fee
  <2> QED BY <1>1, <1>2
<1>4. plan \in Plan
  <2>1. [i \in 1..Len(inputs) |-> NewBeneficiary(inputs[i])] \in Seq(Beneficiary)
    BY <1>1, InputsTyped DEF CreateInheritancePlan
  <2>2. FULL_ALLOCATION \in 0..FULL_ALLOCATION
    BY FullAllocation
  <2>3. now \in Nat
    BY DEF TypeOK
  <2> HIDE DEF net
  <2> QED BY <1>1, <1>3, <2>1, <2>2, <2>3 DEF Plan
<1>5. token' \in [Address \cup {Contract} -> Nat]
  <2> DEFINE paid == Transfer(token, owner, admin, fee)
  <2>1. /\ token \in [Address \cup {Contract} -> Nat]
        /\ admin \in Address /\ token[owner] >= amount
    BY DEF CreateInheritancePlan, TypeOK
  <2> HIDE DEF fee, net
  <2>2. paid \in [Address \cup {Contract} -> Nat]
    <3>1. token[owner] \in Nat /\ fee <= token[owner]
      BY <1>1, <1>3, <2>1
    <3> QED BY <1>3, <2>1, <3>1, TransferTyped
  <2>3. net <= paid[owner]
    BY <1>1, <1>3, <2>1 DEF Transfer
  <2>4. token' = Transfer(paid, owner, Contract, net)
    BY DEF CreateInheritancePlan, fee, net
  <2> HIDE DEF paid
  <2> QED BY <1>3, <2>2, <2>3, <2>4, TransferTyped
<1>6. plans' \in [1..(next_plan_id' - 1) -> Plan] /\ next_plan_id' \in Nat \ {0}
  <2>1. plans' = Put(plans, next_plan_id, plan) /\ next_plan_id' = next_plan_id + 1
    BY DEF CreateInheritancePlan
  <2> HIDE DEF plan
  <2> QED BY <1>4, <2>1 DEF Put, TypeOK
<1>7. user_plans' \in [Address -> Seq(Nat)]
  BY DEF CreateInheritancePlan, TypeOK
<1>8. roles' \subseteq Address \X Role
  BY DEF CreateInheritancePlan, TypeOK, Role
<1>9. UNCHANGED <<now, admin, paused, kyc, deactivated, claimVars, triggers,
                  conditions, guardVars>>
  BY DEF CreateInheritancePlan
<1> QED BY <1>5, <1>6, <1>7, <1>8, <1>9 DEF TypeOK, claimVars, guardVars

(* Deposits and withdrawals keep the types. *)
LEMMA FundsTyped ==
  ASSUME TypeOK, NEW caller \in Address, NEW p, NEW amount \in Nat,
         Deposit(caller, p, amount) \/ Withdraw(caller, p, amount)
  PROVE  TypeOK'
<1>1. p \in DOMAIN plans /\ plans[p] \in Plan
  BY OwnedTyped DEF Deposit, Withdraw
<1>2. plans[p].total_amount \in 0..U64Max /\ plans[p].total_loaned \in Nat
  BY <1>1 DEF Plan
<1>3. CASE Deposit(caller, p, amount)
  <2>1. token' \in [Address \cup {Contract} -> Nat]
    BY <1>3, TransferTyped DEF Deposit, TypeOK
  <2> DEFINE plan == [plans[p] EXCEPT !.total_amount = @ + amount]
  <2>2. plan \in Plan
    <3>1. plans[p].total_amount + amount \in 0..U64Max
      BY <1>2, <1>3, AmountAssumption DEF Deposit
    <3> QED BY <1>1, <3>1 DEF Plan
  <2>3. plans' = [plans EXCEPT ![p] = plan]
    BY <1>3 DEF Deposit
  <2> QED BY <1>1, <1>3, <2>1, <2>2, <2>3, EditPlan DEF Deposit
<1>4. CASE Withdraw(caller, p, amount)
  <2>1. token' \in [Address \cup {Contract} -> Nat]
    BY <1>4, TransferTyped DEF Withdraw, TypeOK
  <2> DEFINE plan == [plans[p] EXCEPT !.total_amount = @ - amount]
  <2>2. plan \in Plan
    <3>1. plans[p].total_amount - amount \in 0..U64Max
      BY <1>2, <1>4, AmountAssumption DEF Withdraw, Available, SaturatingSub
    <3> QED BY <1>1, <3>1 DEF Plan
  <2>3. plans' = [plans EXCEPT ![p] = plan]
    BY <1>4 DEF Withdraw
  <2> QED BY <1>1, <1>4, <2>1, <2>2, <2>3, EditPlan DEF Withdraw
<1> QED BY <1>3, <1>4

(* The loans of the lending contract keep the types. *)
LEMMA LendTyped ==
  ASSUME TypeOK, NEW p, NEW amount \in Nat, ExternalLend(p, amount)
  PROVE  TypeOK'
<1> DEFINE plan == [plans[p] EXCEPT !.total_loaned = @ + amount]
<1>1. p \in DOMAIN plans /\ plan \in Plan
  <2>1. p \in DOMAIN plans /\ plans[p] \in Plan
    BY DEF ExternalLend, PlanExists, TypeOK
  <2> QED BY <2>1 DEF Plan
<1>2. plans' = [plans EXCEPT ![p] = plan]
  BY DEF ExternalLend
<1>3. token' \in [Address \cup {Contract} -> Nat]
  BY DEF ExternalLend, TypeOK
<1> QED BY <1>1, <1>2, <1>3, EditPlan DEF ExternalLend

(* The operations that change the settings of a plan or its beneficiaries. *)
LEMMA SettingsTyped ==
  ASSUME TypeOK, NEW p, NEW caller, OwnedBy(p, caller), NEW plan \in Plan,
         plans' = [plans EXCEPT ![p] = plan],
         UNCHANGED <<token, indexVars, otherThanPlans>>
  PROVE  TypeOK'
<1>1. p \in DOMAIN plans
  BY OwnedTyped
<1>2. token' \in [Address \cup {Contract} -> Nat]
  BY DEF TypeOK
<1> QED BY <1>1, <1>2, EditPlan

(* Setting the flags of a plan keeps the types. *)
LEMMA FlagsTyped ==
  ASSUME TypeOK, NEW p, NEW caller,
         \/ \E lendable \in LendableValue : SetLendable(caller, p, lendable)
         \/ EnableWaterfall(caller, p)
  PROVE  TypeOK'
<1>1. CASE EnableWaterfall(caller, p)
  <2>1. [plans[p] EXCEPT !.waterfall_enabled = TRUE] \in Plan
    BY <1>1, OwnedTyped DEF EnableWaterfall, Plan
  <2> QED BY <1>1, <2>1, SettingsTyped DEF EnableWaterfall
<1>2. ASSUME NEW lendable \in LendableValue, SetLendable(caller, p, lendable)
      PROVE  TypeOK'
  <2>1. lendable \in BOOLEAN
    BY ArgumentAssumption
  <2>2. [plans[p] EXCEPT !.is_lendable = lendable] \in Plan
    BY <1>2, <2>1, OwnedTyped DEF SetLendable, Plan
  <2> QED BY <1>2, <2>2, SettingsTyped DEF SetLendable
<1> QED BY <1>1, <1>2

(* Setting a priority keeps the types. *)
LEMMA PriorityTyped ==
  ASSUME TypeOK, NEW p, NEW caller, NEW i, NEW priority \in Nat,
         SetBeneficiaryPriority(caller, p, i, priority)
  PROVE  TypeOK'
<1> DEFINE old  == plans[p].beneficiaries
           bens == [old EXCEPT ![i].priority = priority]
           plan == [plans[p] EXCEPT !.beneficiaries = bens]
<1>1. p \in DOMAIN plans /\ plans[p] \in Plan /\ old \in Seq(Beneficiary)
  BY OwnedTyped DEF SetBeneficiaryPriority, Plan
<1>2. i \in 1..Len(old) /\ old[i] \in Beneficiary
  BY <1>1 DEF SetBeneficiaryPriority
<1>3. [old[i] EXCEPT !.priority = priority] \in Beneficiary
  BY <1>2 DEF Beneficiary
<1>4. bens \in Seq(Beneficiary)
  BY <1>1, <1>2, <1>3
<1>5. plan \in Plan
  <2> HIDE DEF bens
  <2> QED BY <1>1, <1>4 DEF Plan
<1>6. plans' = [plans EXCEPT ![p] = plan]
  BY DEF SetBeneficiaryPriority
<1> HIDE DEF plan
<1> QED BY <1>5, <1>6, SettingsTyped DEF SetBeneficiaryPriority

(* Adding and removing beneficiaries keeps the types. *)
LEMMA BeneficiariesTyped ==
  ASSUME TypeOK, NEW p, NEW caller,
         \/ \E input \in AddInput : AddBeneficiary(caller, p, input)
         \/ \E i \in RemoveIndex : RemoveBeneficiary(caller, p, i)
         \/ \E inputs \in AddBatch : BatchAddBeneficiaries(caller, p, inputs)
         \/ \E indices \in RemoveBatch : BatchRemoveBeneficiaries(caller, p, indices)
  PROVE  TypeOK'
<1>1. ASSUME NEW input \in AddInput, AddBeneficiary(caller, p, input) PROVE TypeOK'
  <2>1. WithBeneficiary(plans[p], input) \in Plan
    BY <1>1, OwnedTyped, ArgumentAssumption, WithBeneficiaryTyped DEF AddBeneficiary
  <2> QED BY <1>1, <2>1, SettingsTyped DEF AddBeneficiary
<1>2. ASSUME NEW i \in RemoveIndex, RemoveBeneficiary(caller, p, i) PROVE TypeOK'
  <2>1. plans[p] \in Plan
    BY <1>2, OwnedTyped DEF RemoveBeneficiary
  <2>2. i \in 1..Len(plans[p].beneficiaries)
    BY <1>2, <2>1 DEF RemoveBeneficiary, Plan
  <2>3. WithoutBeneficiary(plans[p], i) \in Plan
    BY <2>1, <2>2, WithoutBeneficiaryTyped
  <2> QED BY <1>2, <2>3, SettingsTyped DEF RemoveBeneficiary
<1>3. ASSUME NEW inputs \in AddBatch, BatchAddBeneficiaries(caller, p, inputs)
      PROVE  TypeOK'
  <2>1. PlanAfterAdds(plans[p], inputs) \in Plan
    BY <1>3, OwnedTyped, ArgumentAssumption, BatchAddTyped DEF BatchAddBeneficiaries
  <2> QED BY <1>3, <2>1, SettingsTyped DEF BatchAddBeneficiaries
<1>4. ASSUME NEW indices \in RemoveBatch, BatchRemoveBeneficiaries(caller, p, indices)
      PROVE  TypeOK'
  <2>1. PlanAfterRemovals(plans[p], indices) \in Plan
    BY <1>4, OwnedTyped, BatchRemoveTyped DEF BatchRemoveBeneficiaries
  <2> QED BY <1>4, <2>1, SettingsTyped DEF BatchRemoveBeneficiaries
<1> QED BY <1>1, <1>2, <1>3, <1>4

(* A batch of new allocations keeps the types. *)
LEMMA AllocationsTyped ==
  ASSUME TypeOK, NEW p, NEW caller, NEW new \in NewAllocation,
         BatchUpdateAllocations(caller, p, new)
  PROVE  TypeOK'
<1> DEFINE old  == plans[p].beneficiaries
           bens == [i \in 1..Len(new) |-> [old[i] EXCEPT !.allocation_bp = new[i]]]
           plan == [plans[p] EXCEPT !.beneficiaries = bens,
                                    !.total_allocation_bp = FULL_ALLOCATION]
<1>1. plans[p] \in Plan /\ old \in Seq(Beneficiary)
  BY OwnedTyped DEF BatchUpdateAllocations, Plan
<1>2. /\ new \in Seq(Nat) /\ Len(new) \in Nat /\ Len(new) = Len(old)
      /\ new \in [1..Len(new) -> Nat]
  BY ArgumentAssumption DEF BatchUpdateAllocations
<1>3. \A i \in 1..Len(new) : new[i] <= FULL_ALLOCATION
  BY <1>2, SumBoundsTerms DEF BatchUpdateAllocations
<1>4. ASSUME NEW i \in 1..Len(new)
      PROVE  [old[i] EXCEPT !.allocation_bp = new[i]] \in Beneficiary
  <2>1. old[i] \in Beneficiary
    BY <1>1, <1>2
  <2>2. new[i] # 0 /\ new[i] \in Nat
    BY <1>2 DEF BatchUpdateAllocations
  <2>3. new[i] \in 1..FULL_ALLOCATION
    BY <1>3, <2>2, FullAllocation
  <2> QED BY <2>1, <2>3 DEF Beneficiary
<1>5. bens \in Seq(Beneficiary)
  BY <1>2, <1>4
<1>6. plan \in Plan
  <2>1. FULL_ALLOCATION \in 0..FULL_ALLOCATION
    BY FullAllocation
  <2> HIDE DEF bens
  <2> QED BY <1>1, <1>5, <2>1 DEF Plan
<1>7. plans' = [plans EXCEPT ![p] = plan]
  BY DEF BatchUpdateAllocations
<1> HIDE DEF plan
<1> QED BY <1>6, <1>7, SettingsTyped DEF BatchUpdateAllocations

(* Deactivation and transfer keep the types. *)
LEMMA EndOfPlanTyped ==
  ASSUME TypeOK, NEW p, NEW caller,
         \/ DeactivateInheritancePlan(caller, p)
         \/ \E new_owner \in NewOwner : TransferPlanOwnership(caller, new_owner, p)
  PROVE  TypeOK'
<1>1. CASE DeactivateInheritancePlan(caller, p)
  <2>1. p \in DOMAIN plans /\ p \in Nat /\ plans[p] \in Plan
    BY <1>1, OwnedTyped DEF DeactivateInheritancePlan
  <2>2. [plans[p] EXCEPT !.is_active = FALSE] \in Plan
    BY <2>1 DEF Plan
  <2>3. plans' \in [1..(next_plan_id - 1) -> Plan]
    BY <1>1, <2>2 DEF DeactivateInheritancePlan, TypeOK
  <2>4. deactivated' \in Seq(Nat)
    BY <1>1, <2>1, PushNewTyped DEF DeactivateInheritancePlan, TypeOK
  <2>5. UNCHANGED <<token, user_plans, otherThanPlans>>
    BY <1>1 DEF DeactivateInheritancePlan
  <2> QED BY <2>3, <2>4, <2>5 DEF TypeOK, otherThanPlans, accessVars, claimVars, guardVars
<1>2. ASSUME NEW new_owner \in NewOwner, TransferPlanOwnership(caller, new_owner, p)
      PROVE  TypeOK'
  <2>1. p \in DOMAIN plans /\ p \in Nat /\ plans[p] \in Plan /\ caller = plans[p].owner
    BY <1>2, OwnedTyped DEF TransferPlanOwnership, OwnedBy
  <2>2. new_owner \in Address /\ caller \in Address
    BY <2>1, ArgumentAssumption DEF Plan
  <2>3. [plans[p] EXCEPT !.owner = new_owner] \in Plan
    BY <2>1, <2>2 DEF Plan
  <2>4. plans' \in [1..(next_plan_id - 1) -> Plan]
    BY <1>2, <2>3 DEF TransferPlanOwnership, TypeOK
  <2> DEFINE without == [user_plans EXCEPT ![caller] = RemoveFirstId(@, p)]
  <2>5. without \in [Address -> Seq(Nat)]
    BY <2>2, RemoveFirstTyped DEF TypeOK
  <2>6. user_plans' = [without EXCEPT ![new_owner] = Append(@, p)]
    BY <1>2 DEF TransferPlanOwnership
  <2>7. user_plans' \in [Address -> Seq(Nat)]
    <3> HIDE DEF without
    <3> QED BY <2>1, <2>2, <2>5, <2>6
  <2>8. UNCHANGED <<token, deactivated, otherThanPlans>>
    BY <1>2 DEF TransferPlanOwnership
  <2> QED BY <2>4, <2>7, <2>8 DEF TypeOK, otherThanPlans, accessVars, claimVars, guardVars
<1> QED BY <1>1, <1>2

(* All calls on plans keep the types. *)
LEMMA PlanTyped == TypeOK /\ PlanNext => TypeOK'
<1> SUFFICES ASSUME TypeOK, PlanNext PROVE TypeOK'
  OBVIOUS
<1>1. DepositAmount \subseteq Nat /\ WithdrawAmount \subseteq Nat
      /\ LoanAmount \subseteq Nat /\ PriorityValue \subseteq Nat
  BY ArgumentAssumption
<1> QED
  BY <1>1, CreateTyped, FundsTyped, LendTyped, FlagsTyped, PriorityTyped,
     BeneficiariesTyped, AllocationsTyped, EndOfPlanTyped DEF PlanNext

-----------------------------------------------------------------------------
(* The operations of ClaimOperations. *)

(* The lists of claimed plans after a claim. *)
LEMMA ClaimListsTyped ==
  ASSUME TypeOK, NEW owner \in Address, NEW p \in Nat, AddPlanToClaimed(owner, p)
  PROVE  claimed_plans' \in [Address -> Seq(Nat)] /\ all_claimed' \in Seq(Nat)
BY PushNewTyped DEF TypeOK, AddPlanToClaimed

(* A single claim keeps the types. *)
LEMMA SingleClaimTyped ==
  ASSUME TypeOK, NEW p \in Nat, NEW claimer \in Address, NEW email \in Email, NEW code,
         ClaimInheritancePlan(claimer, p, email, code)
  PROVE  TypeOK'
<1> DEFINE old    == plans[p].beneficiaries
           i      == FirstMatch(plans[p], email, code)
           payout == CalculateWaterfallPayout(plans[p], i)
           bens   == [old EXCEPT ![i].is_claimed = TRUE]
           left   == SaturatingSub(plans[p].total_amount, payout)
           plan   == [plans[p] EXCEPT !.beneficiaries = bens, !.total_amount = left]
           record == [beneficiary_index |-> i, payout |-> payout]
<1>1. p \in DOMAIN plans /\ plans[p] \in Plan
  BY DEF ClaimInheritancePlan, Claimable, PlanExists, TypeOK
<1>2. i \in 1..Len(old) /\ old \in Seq(Beneficiary)
  BY <1>1, FirstMatchTyped DEF ClaimInheritancePlan, Plan
<1>3. payout \in Nat
  BY <1>1, <1>2, PayoutTyped
<1>4. plan \in Plan
  <2>1. left \in 0..U64Max
    BY <1>1, <1>3, LessAmountTyped
  <2>2. bens \in Seq(Beneficiary)
    <3>1. old[i] \in Beneficiary
      BY <1>2
    <3>2. [old[i] EXCEPT !.is_claimed = TRUE] \in Beneficiary
      BY <3>1 DEF Beneficiary
    <3> HIDE DEF i
    <3> QED BY <1>2, <3>2
  <2> HIDE DEF bens, left
  <2> QED BY <1>1, <2>1, <2>2 DEF Plan
<1>5. plans' \in [1..(next_plan_id - 1) -> Plan]
  <2>1. plans' = [plans EXCEPT ![p] = plan]
    BY DEF ClaimInheritancePlan
  <2> HIDE DEF plan
  <2> QED BY <1>4, <2>1 DEF TypeOK
<1>6. IsMap(claims', Nat \X HashedEmail, ClaimRecord)
  <2>1. record \in ClaimRecord
    BY <1>2, <1>3 DEF ClaimRecord
  <2>2. claims' = Put(claims, ClaimKey(p, email), record)
    BY DEF ClaimInheritancePlan
  <2> HIDE DEF record
  <2> QED BY <2>1, <2>2, ClaimKeyTyped, PutIsMap DEF TypeOK
<1>7. claimed_plans' \in [Address -> Seq(Nat)] /\ all_claimed' \in Seq(Nat)
  BY <1>1, ClaimListsTyped DEF ClaimInheritancePlan, Plan
<1>8. roles' \subseteq Address \X Role
  BY DEF ClaimInheritancePlan, TypeOK, Role
<1>9. UNCHANGED <<now, admin, paused, kyc, token, next_plan_id, indexVars,
                  triggers, conditions, guardVars>>
  BY DEF ClaimInheritancePlan
<1> QED BY <1>5, <1>6, <1>7, <1>8, <1>9 DEF TypeOK, indexVars, guardVars

(* Single claims and batches of claims keep the types. *)
LEMMA ClaimsTyped ==
  ASSUME TypeOK, NEW p \in Nat, NEW entries \in Seq(EntryRecord), BatchClaim(p, entries)
  PROVE  TypeOK'
<1>1. p \in DOMAIN plans /\ plans[p] \in Plan
  BY DEF BatchClaim, Claimable, PlanExists, TypeOK
<1>2. BookAfterClaims(p, entries) \in Book
  BY <1>1, BatchClaimTyped
<1>3. plans' \in [1..(next_plan_id - 1) -> Plan]
  BY <1>2 DEF BatchClaim, Book, TypeOK
<1>4. IsMap(claims', Nat \X HashedEmail, ClaimRecord)
  <2>1. claims' \in Maps(Nat \X HashedEmail, ClaimRecord)
    BY <1>2 DEF BatchClaim, Book
  <2> QED BY <2>1, MapsAreMaps
<1>5. claimed_plans' \in [Address -> Seq(Nat)] /\ all_claimed' \in Seq(Nat)
  <2>1. CASE BookAfterClaims(p, entries).claims = claims
    BY <2>1 DEF BatchClaim, TypeOK
  <2>2. CASE BookAfterClaims(p, entries).claims # claims
    BY <1>1, <2>2, ClaimListsTyped DEF BatchClaim, Plan
  <2> QED BY <2>1, <2>2
<1>6. UNCHANGED <<now, accessVars, token, next_plan_id, indexVars, triggers,
                  conditions, guardVars>>
  BY DEF BatchClaim
<1> QED BY <1>3, <1>4, <1>5, <1>6 DEF TypeOK, accessVars, indexVars, guardVars

(* All claims keep the types. *)
LEMMA ClaimTyped == TypeOK /\ ClaimNext => TypeOK'
<1> SUFFICES ASSUME TypeOK, NEW p \in PlanId,
               \/ \E e \in ClaimEntry :
                    ClaimInheritancePlan(e.claimer, p, e.email, e.claim_code)
               \/ \E entries \in ClaimBatch : BatchClaim(p, entries)
             PROVE TypeOK'
  BY DEF ClaimNext
<1>1. p \in Nat
  BY ArgumentAssumption DEF PlanId
<1>2. \A e \in ClaimEntry : e \in EntryRecord
  BY ArgumentAssumption DEF EntryRecord
<1>3. \A list \in ClaimBatch : list \in Seq(EntryRecord)
  BY ArgumentAssumption DEF EntryRecord
<1>4. ASSUME NEW e \in ClaimEntry,
             ClaimInheritancePlan(e.claimer, p, e.email, e.claim_code)
      PROVE  TypeOK'
  <2>1. e.claimer \in Address /\ e.email \in Email
    BY <1>2 DEF EntryRecord
  <2> QED BY <1>1, <1>4, <2>1, SingleClaimTyped
<1>5. ASSUME NEW entries \in ClaimBatch, BatchClaim(p, entries) PROVE TypeOK'
  BY <1>1, <1>3, <1>5, ClaimsTyped
<1> QED BY <1>4, <1>5

-----------------------------------------------------------------------------
(* The operations of TriggerOperations. *)

(* Steps that write plans, triggers and conditions only. *)
LEMMA TriggerStateTyped ==
  ASSUME TypeOK, plans' \in [1..(next_plan_id - 1) -> Plan],
         IsMap(triggers', Nat, TriggerInfo), IsMap(conditions', Nat, TriggerConfig),
         UNCHANGED otherThanTrigger
  PROVE  TypeOK'
BY DEF TypeOK, otherThanTrigger, accessVars, indexVars, claimVars, guardVars

(* Triggering a plan keeps the types. *)
LEMMA TriggerTyped ==
  ASSUME TypeOK, NEW p, NEW by \in Address \cup {None}, PlanExists(p), Trigger(p, by)
  PROVE  TypeOK'
<1>1. p \in DOMAIN plans /\ p \in Nat /\ plans[p] \in Plan
  BY DEF PlanExists, TypeOK
<1>2. [plans[p] EXCEPT !.is_lendable = FALSE] \in Plan
  BY <1>1 DEF Plan
<1>3. plans' \in [1..(next_plan_id - 1) -> Plan]
  BY <1>2 DEF Trigger, TypeOK
<1>4. NewTriggerInfo(p, by) \in TriggerInfo
  BY <1>1 DEF NewTriggerInfo, TriggerInfo, Plan, TypeOK
<1>5. IsMap(triggers', Nat, TriggerInfo)
  BY <1>1, <1>4, PutIsMap DEF Trigger, TypeOK
<1>6. IsMap(conditions', Nat, TriggerConfig)
  BY DEF Trigger, TypeOK
<1> QED BY <1>3, <1>5, <1>6, TriggerStateTyped DEF Trigger

(* The conditions of a plan, stored or new. *)
LEMMA ConfigTyped ==
  ASSUME TypeOK, NEW p
  PROVE  NewTriggerConfig \in TriggerConfig /\ ConfigOf(p) \in TriggerConfig
<1>1. NewTriggerConfig \in TriggerConfig
  BY DEF NewTriggerConfig, TriggerConfig, TypeOK
<1> QED BY <1>1 DEF ConfigOf, TypeOK, IsMap

(* Storing the conditions of a plan keeps the types. *)
LEMMA SaveTyped ==
  ASSUME TypeOK, NEW p \in Nat, NEW config \in TriggerConfig, SaveConfig(p, config)
  PROVE  TypeOK'
<1>1. IsMap(conditions', Nat, TriggerConfig)
  BY PutIsMap DEF SaveConfig, TypeOK
<1>2. plans' \in [1..(next_plan_id - 1) -> Plan] /\ IsMap(triggers', Nat, TriggerInfo)
  BY DEF SaveConfig, TypeOK
<1> QED BY <1>1, <1>2, TriggerStateTyped DEF SaveConfig

(* What the owner of a plan, or its oracle, writes to its conditions.      *)
ConfigStep(caller, p) ==
  \/ \E c \in ConditionSet :
       SetTriggerConditions(caller, p, c.conditions, c.trigger_date,
                            c.inactivity_period, c.oracle)
  \/ \E date \in TriggerDate : AddTimeTrigger(caller, p, date)
  \/ \E period \in InactivityPeriod : AddInactivityTrigger(caller, p, period)
  \/ \E oracle \in Oracle :
       AddOracleTrigger(caller, p, oracle) \/ AddHealthTrigger(caller, p, oracle)
  \/ RecordActivity(caller, p)
  \/ SubmitOracleTrigger(caller, p)
  \/ SubmitHealthTrigger(caller, p)

(* Setting, confirming and refreshing conditions keeps the types. *)
LEMMA ConfigStepTyped ==
  ASSUME TypeOK, NEW p \in Nat, NEW caller, ConfigStep(caller, p)
  PROVE  TypeOK'
<1>1. NewTriggerConfig \in TriggerConfig /\ ConfigOf(p) \in TriggerConfig
  BY ConfigTyped
<1>2. p \in DOMAIN conditions => conditions[p] \in TriggerConfig
  BY DEF TypeOK, IsMap
<1>3. now \in Nat
  BY DEF TypeOK
<1>4. ASSUME NEW c \in ConditionSet,
             SetTriggerConditions(caller, p, c.conditions, c.trigger_date,
                                  c.inactivity_period, c.oracle)
      PROVE  TypeOK'
  <2> DEFINE config == [NewTriggerConfig EXCEPT
               !.conditions = c.conditions, !.trigger_date = c.trigger_date,
               !.inactivity_period = c.inactivity_period, !.oracle_address = c.oracle]
  <2>1. c \in [conditions : SUBSET TriggerCondition, trigger_date : Nat,
               inactivity_period : Nat, oracle : Address \cup {None}]
    BY ArgumentAssumption
  <2>2. config \in TriggerConfig
    BY <1>1, <2>1 DEF TriggerConfig
  <2>3. SaveConfig(p, config)
    BY <1>4 DEF SetTriggerConditions
  <2> QED BY <2>2, <2>3, SaveTyped
<1>5. ASSUME NEW date \in TriggerDate, AddTimeTrigger(caller, p, date) PROVE TypeOK'
  <2> DEFINE config == [ConfigOf(p) EXCEPT
               !.conditions = @ \cup {"Time"}, !.trigger_date = date]
  <2>1. config \in TriggerConfig
    BY <1>1, ArgumentAssumption DEF TriggerConfig, TriggerCondition
  <2>2. SaveConfig(p, config)
    BY <1>5 DEF AddTimeTrigger
  <2> QED BY <2>1, <2>2, SaveTyped
<1>6. ASSUME NEW period \in InactivityPeriod, AddInactivityTrigger(caller, p, period)
      PROVE  TypeOK'
  <2> DEFINE config == [ConfigOf(p) EXCEPT
               !.conditions = @ \cup {"Inactivity"}, !.inactivity_period = period,
               !.last_activity = IF @ = 0 THEN now ELSE @]
  <2>1. config \in TriggerConfig
    BY <1>1, <1>3, ArgumentAssumption DEF TriggerConfig, TriggerCondition
  <2>2. SaveConfig(p, config)
    BY <1>6 DEF AddInactivityTrigger
  <2> QED BY <2>1, <2>2, SaveTyped
<1>7. ASSUME NEW oracle \in Oracle,
             AddOracleTrigger(caller, p, oracle) \/ AddHealthTrigger(caller, p, oracle)
      PROVE  TypeOK'
  <2> DEFINE config(c) == [ConfigOf(p) EXCEPT
               !.conditions = @ \cup {c}, !.oracle_address = oracle]
  <2>1. config("Oracle") \in TriggerConfig /\ config("Health") \in TriggerConfig
    BY <1>1, ArgumentAssumption DEF TriggerConfig, TriggerCondition
  <2>2. SaveConfig(p, config("Oracle")) \/ SaveConfig(p, config("Health"))
    BY <1>7 DEF AddOracleTrigger, AddHealthTrigger
  <2> HIDE DEF config
  <2> QED BY <2>1, <2>2, SaveTyped
<1>8. CASE RecordActivity(caller, p)
  <2>1. [conditions[p] EXCEPT !.last_activity = now] \in TriggerConfig
    BY <1>2, <1>3, <1>8 DEF RecordActivity, TriggerConfig
  <2> QED BY <1>8, <2>1, SaveTyped DEF RecordActivity
<1>9. CASE SubmitOracleTrigger(caller, p)
  <2>1. [conditions[p] EXCEPT !.oracle_triggered = TRUE] \in TriggerConfig
    BY <1>2, <1>9 DEF SubmitOracleTrigger, IsOracle, TriggerConfig
  <2> QED BY <1>9, <2>1, SaveTyped DEF SubmitOracleTrigger
<1>10. CASE SubmitHealthTrigger(caller, p)
  <2>1. [conditions[p] EXCEPT !.health_triggered = TRUE] \in TriggerConfig
    BY <1>2, <1>10 DEF SubmitHealthTrigger, IsOracle, TriggerConfig
  <2> QED BY <1>10, <2>1, SaveTyped DEF SubmitHealthTrigger
<1> QED BY <1>4, <1>5, <1>6, <1>7, <1>8, <1>9, <1>10 DEF ConfigStep

(* Recalls and settlements keep the types. *)
LEMMA RecallTyped ==
  ASSUME TypeOK, NEW p, NEW caller,
         \/ \E amount \in RecallAmount : RecallLoan(caller, p, amount)
         \/ LiquidationFallback(caller, p)
  PROVE  TypeOK'
<1>1. /\ p \in DOMAIN plans /\ plans[p] \in Plan
      /\ p \in DOMAIN triggers /\ triggers[p] \in TriggerInfo
  BY DEF RecallLoan, LiquidationFallback, PlanExists, Triggered, TypeOK, IsMap
<1>2. /\ plans[p].total_loaned \in Nat
      /\ triggers[p].recalled_amount \in Nat /\ triggers[p].settled_amount \in Nat
  BY <1>1 DEF Plan, TriggerInfo
<1>3. ASSUME NEW plan \in Plan, NEW info \in TriggerInfo,
             plans' = [plans EXCEPT ![p] = plan], triggers' = [triggers EXCEPT ![p] = info],
             UNCHANGED <<conditions, otherThanTrigger>>
      PROVE  TypeOK'
  <2>1. plans' \in [1..(next_plan_id - 1) -> Plan]
    BY <1>3 DEF TypeOK
  <2>2. IsMap(triggers', Nat, TriggerInfo)
    BY <1>3 DEF TypeOK, IsMap
  <2>3. IsMap(conditions', Nat, TriggerConfig)
    BY <1>3 DEF TypeOK
  <2> QED BY <1>3, <2>1, <2>2, <2>3, TriggerStateTyped
<1>4. ASSUME NEW amount \in RecallAmount, RecallLoan(caller, p, amount) PROVE TypeOK'
  <2> DEFINE plan == [plans[p] EXCEPT !.total_loaned = @ - amount]
             info == [triggers[p] EXCEPT !.recall_attempted = TRUE,
                                         !.recalled_amount = @ + amount]
  <2>1. amount \in 1..plans[p].total_loaned
    BY <1>4 DEF RecallLoan
  <2>2. plans[p].total_loaned - amount \in Nat /\ triggers[p].recalled_amount + amount \in Nat
    BY <1>2, <2>1
  <2>3. plan \in Plan /\ info \in TriggerInfo
    BY <1>1, <2>2 DEF Plan, TriggerInfo
  <2>4. plans' = [plans EXCEPT ![p] = plan] /\ triggers' = [triggers EXCEPT ![p] = info]
    BY <1>4 DEF RecallLoan
  <2>5. UNCHANGED <<conditions, otherThanTrigger>>
    BY <1>4 DEF RecallLoan
  <2> HIDE DEF plan, info
  <2> QED BY <1>3, <2>3, <2>4, <2>5
<1>5. CASE LiquidationFallback(caller, p)
  <2> DEFINE left == SaturatingSub(plans[p].total_amount, plans[p].total_loaned)
             plan == [plans[p] EXCEPT !.total_amount = left, !.total_loaned = 0]
             info == [triggers[p] EXCEPT
                        !.liquidation_triggered = TRUE,
                        !.settled_amount = @ + plans[p].total_loaned]
  <2>1. left \in 0..U64Max
    BY <1>1, <1>2, LessAmountTyped
  <2>2. plan \in Plan
    <3> HIDE DEF left
    <3> QED BY <1>1, <2>1 DEF Plan
  <2>3. triggers[p].settled_amount + plans[p].total_loaned \in Nat
    BY <1>2
  <2>4. info \in TriggerInfo
    BY <1>1, <2>3 DEF TriggerInfo
  <2>5. plans' = [plans EXCEPT ![p] = plan] /\ triggers' = [triggers EXCEPT ![p] = info]
    BY <1>5 DEF LiquidationFallback
  <2>6. UNCHANGED <<conditions, otherThanTrigger>>
    BY <1>5 DEF LiquidationFallback
  <2> HIDE DEF plan, info
  <2> QED BY <1>3, <2>2, <2>4, <2>5, <2>6
<1> QED BY <1>4, <1>5

(* All calls on triggers keep the types. *)
LEMMA TriggersTyped == TypeOK /\ TriggerNext => TypeOK'
<1> SUFFICES ASSUME TypeOK, NEW p \in PlanId,
               \/ \E caller \in TriggerCaller : TriggerInheritance(caller, p)
               \/ AutoTriggerCheck(p)
               \/ \E caller \in Address : ConfigStep(caller, p)
               \/ \E caller \in Address, amount \in RecallAmount :
                    RecallLoan(caller, p, amount)
               \/ \E caller \in Address : LiquidationFallback(caller, p)
             PROVE TypeOK'
  BY DEF TriggerNext, ConfigStep
<1>1. p \in Nat
  BY ArgumentAssumption DEF PlanId
<1>2. ASSUME NEW caller \in TriggerCaller, TriggerInheritance(caller, p) PROVE TypeOK'
  BY <1>2, TriggerTyped, ArgumentAssumption DEF TriggerInheritance
<1>3. CASE AutoTriggerCheck(p)
  BY <1>3, TriggerTyped DEF AutoTriggerCheck
<1> QED BY <1>1, <1>2, <1>3, ConfigStepTyped, RecallTyped

-----------------------------------------------------------------------------
(* The operations of EmergencyOperations. *)

(* Steps that write roles and the emergency records only. *)
LEMMA GuardsTyped ==
  ASSUME TypeOK, UNCHANGED otherThanGuards, roles' \subseteq Address \X Role,
         IsMap(emergency', Nat, EmergencyRecord),
         IsMap(guardians', Nat, GuardianConfig),
         IsMap(approvals', Nat \X Address, Seq(Address)),
         IsMap(contacts', Nat, Seq(Address))
  PROVE  TypeOK'
BY DEF TypeOK, otherThanGuards, indexVars, claimVars

(* A new record of emergency access. *)
LEMMA AccessRecordTyped ==
  ASSUME TypeOK, NEW p \in Nat, NEW contact \in Address
  PROVE  IsMap(Put(emergency, p, NewEmergencyRecord(contact)), Nat, EmergencyRecord)
<1>1. NewEmergencyRecord(contact) \in EmergencyRecord
  BY DEF NewEmergencyRecord, EmergencyRecord, TypeOK
<1> QED BY <1>1, PutIsMap DEF TypeOK

(* Activating, ending and reading emergency access keeps the types. *)
LEMMA AccessTypes ==
  ASSUME TypeOK, NEW p \in Nat, NEW caller,
         \/ \E contact \in Contact : ActivateEmergencyAccess(caller, p, contact)
         \/ DeactivateEmergencyAccess(caller, p)
         \/ GetEmergencyAccess(p)
  PROVE  TypeOK'
<1>1. ASSUME NEW contact \in Contact, ActivateEmergencyAccess(caller, p, contact)
      PROVE  TypeOK'
  <2>1. IsMap(emergency', Nat, EmergencyRecord)
    BY <1>1, AccessRecordTyped, ArgumentAssumption DEF ActivateEmergencyAccess
  <2>2. UNCHANGED <<roles, guardians, approvals, contacts, otherThanGuards>>
    BY <1>1 DEF ActivateEmergencyAccess
  <2> QED BY <2>1, <2>2, GuardsTyped DEF TypeOK
<1>2. CASE DeactivateEmergencyAccess(caller, p) \/ GetEmergencyAccess(p)
  <2>1. IsMap(emergency', Nat, EmergencyRecord)
    BY <1>2, DropIsMap DEF DeactivateEmergencyAccess, GetEmergencyAccess, TypeOK
  <2>2. UNCHANGED <<roles, guardians, approvals, contacts, otherThanGuards>>
    BY <1>2 DEF DeactivateEmergencyAccess, GetEmergencyAccess
  <2> QED BY <2>1, <2>2, GuardsTyped DEF TypeOK
<1> QED BY <1>1, <1>2

(* Setting the guardians keeps the types. *)
LEMMA GuardiansTyped ==
  ASSUME TypeOK, NEW p \in Nat, NEW caller, NEW list \in GuardianList,
         NEW threshold \in Threshold, SetGuardians(caller, p, list, threshold)
  PROVE  TypeOK'
<1>1. list \in Seq(Address) /\ threshold \in Nat \ {0}
  BY ArgumentAssumption DEF SetGuardians
<1>2. [guardians |-> list, threshold |-> threshold] \in GuardianConfig
  BY <1>1 DEF GuardianConfig
<1>3. IsMap(guardians', Nat, GuardianConfig)
  BY <1>2, PutIsMap DEF SetGuardians, TypeOK
<1>4. roles' \subseteq Address \X Role
  <2>1. \A i \in DOMAIN list : list[i] \in Address
    BY <1>1
  <2> QED BY <2>1 DEF SetGuardians, TypeOK, Role
<1>5. UNCHANGED <<emergency, approvals, contacts, otherThanGuards>>
  BY DEF SetGuardians
<1> QED BY <1>3, <1>4, <1>5, GuardsTyped DEF TypeOK

(* An approval keeps the types, the last one included. *)
LEMMA ApprovalTyped ==
  ASSUME TypeOK, NEW p \in Nat, NEW guardian \in Address, NEW contact \in Contact,
         ApproveEmergencyAccess(guardian, p, contact)
  PROVE  TypeOK'
<1> DEFINE given == Append(ApprovalsFor(p, contact), guardian)
<1>1. contact \in Address /\ <<p, contact>> \in Nat \X Address
  BY ArgumentAssumption
<1>2. ApprovalsFor(p, contact) \in Seq(Address)
  BY DEF ApprovalsFor, TypeOK, IsMap
<1>3. given \in Seq(Address)
  BY <1>2
<1>4. IsMap(approvals', Nat \X Address, Seq(Address))
  <2>1. approvals' = Put(approvals, <<p, contact>>, given)
    BY DEF ApproveEmergencyAccess
  <2> HIDE DEF given
  <2> QED BY <1>1, <1>3, <2>1, PutIsMap DEF TypeOK
<1>5. IsMap(emergency', Nat, EmergencyRecord)
  <2>1. \/ emergency' = Put(emergency, p, NewEmergencyRecord(contact))
        \/ emergency' = emergency
    BY DEF ApproveEmergencyAccess
  <2> QED BY <1>1, <2>1, AccessRecordTyped DEF TypeOK
<1>6. UNCHANGED <<roles, guardians, contacts, otherThanGuards>>
  BY DEF ApproveEmergencyAccess
<1> QED BY <1>4, <1>5, <1>6, GuardsTyped DEF TypeOK

(* Adding and removing emergency contacts keeps the types. *)
LEMMA ContactsTyped ==
  ASSUME TypeOK, NEW p \in Nat, NEW caller, NEW contact \in ListedContact,
         AddEmergencyContact(caller, p, contact) \/ RemoveEmergencyContact(caller, p, contact)
  PROVE  TypeOK'
<1> DEFINE list == ContactsOf(p)
<1>1. contact \in Address
  BY ArgumentAssumption
<1>2. list \in Seq(Address)
  BY DEF ContactsOf, TypeOK, IsMap
<1>3. \E new \in Seq(Address) : contacts' = Put(contacts, p, new)
  <2>1. CASE AddEmergencyContact(caller, p, contact)
    <3>1. Append(list, contact) \in Seq(Address)
      BY <1>1, <1>2
    <3> QED BY <2>1, <3>1 DEF AddEmergencyContact
  <2>2. CASE RemoveEmergencyContact(caller, p, contact)
    <3> DEFINE last == Len(list)
               at   == CHOOSE i \in DOMAIN list : list[i] = contact
               new  == [k \in 1..(last - 1) |-> IF k = at THEN list[last] ELSE list[k]]
    <3>1. contacts' = Put(contacts, p, new)
      BY <2>2 DEF RemoveEmergencyContact
    <3>2. last - 1 \in Nat
      BY <1>2, <2>2 DEF RemoveEmergencyContact, InSeq
    <3>3. new \in [1..(last - 1) -> Address]
      <4> HIDE DEF at
      <4> QED BY <1>2, <3>2
    <3>4. new \in Seq(Address)
      <4> HIDE DEF new
      <4> QED BY <3>2, <3>3
    <3> QED BY <3>1, <3>4
  <2> QED BY <2>1, <2>2
<1>4. IsMap(contacts', Nat, Seq(Address))
  <2>1. PICK new \in Seq(Address) : contacts' = Put(contacts, p, new)
    BY <1>3
  <2>2. IsMap(contacts, Nat, Seq(Address))
    BY DEF TypeOK
  <2>3. IsMap(Put(contacts, p, new), Nat, Seq(Address))
    BY <2>2, PutIsMap
  <2> QED BY <2>1, <2>3, Zenon
<1>5. UNCHANGED <<roles, emergency, guardians, approvals, otherThanGuards>>
  BY DEF AddEmergencyContact, RemoveEmergencyContact
<1> QED BY <1>4, <1>5, GuardsTyped DEF TypeOK

(* All calls on emergency access keep the types. *)
LEMMA EmergencyTyped == TypeOK /\ EmergencyNext => TypeOK'
<1>1. \A p \in PlanId : p \in Nat
  BY ArgumentAssumption DEF PlanId
<1> QED
  BY <1>1, AccessTypes, GuardiansTyped, ApprovalTyped, ContactsTyped DEF EmergencyNext

-----------------------------------------------------------------------------

(* The initial state has its types. *)
LEMMA TypesInit == Init => TypeOK
<1> SUFFICES ASSUME Init PROVE TypeOK
  OBVIOUS
<1>1. token \in [Address \cup {Contract} -> Nat]
  BY AmountAssumption DEF Init
<1>2. plans \in [1..(next_plan_id - 1) -> Plan]
  <2>1. 1..(next_plan_id - 1) = {}
    BY DEF Init
  <2> QED BY <2>1 DEF Init, EmptyMap
<1>3. /\ IsMap(kyc, Address, KycStatus)
      /\ IsMap(claims, Nat \X HashedEmail, ClaimRecord)
      /\ IsMap(triggers, Nat, TriggerInfo)
      /\ IsMap(conditions, Nat, TriggerConfig)
      /\ IsMap(emergency, Nat, EmergencyRecord)
      /\ IsMap(guardians, Nat, GuardianConfig)
      /\ IsMap(approvals, Nat \X Address, Seq(Address))
      /\ IsMap(contacts, Nat, Seq(Address))
  BY DEF Init, IsMap, EmptyMap
<1>4. /\ user_plans \in [Address -> Seq(Nat)] /\ claimed_plans \in [Address -> Seq(Nat)]
      /\ deactivated \in Seq(Nat) /\ all_claimed \in Seq(Nat)
  <2>1. << >> \in Seq(Nat)
    OBVIOUS
  <2> QED BY <2>1, Zenon DEF Init
<1>5. now \in Nat /\ next_plan_id \in Nat \ {0}
  BY DEF Init
<1>6. admin \in Address \cup {None} /\ paused \in BOOLEAN /\ roles \subseteq Address \X Role
  BY Zenon DEF Init
<1> QED BY <1>1, <1>2, <1>3, <1>4, <1>5, <1>6, Zenon DEF TypeOK

(* Every step keeps the types. *)
LEMMA TypesNext == TypeOK /\ [Next]_vars => TypeOK'
<1> SUFFICES ASSUME TypeOK, [Next]_vars PROVE TypeOK'
  OBVIOUS
<1>1. CASE Tick
  BY <1>1, ArgumentAssumption
  DEF Tick, Advance, TypeOK, accessVars, indexVars, claimVars, guardVars
<1>2. CASE UNCHANGED vars
  BY <1>2 DEF TypeOK, vars, accessVars, indexVars, claimVars, guardVars
<1> QED
  BY <1>1, <1>2, AdminTyped, PlanTyped, ClaimTyped, TriggersTyped, EmergencyTyped DEF Next

(* Every storage key holds a value of its type, and every amount stays in  *)
(* its range: no operation, batch or single, makes an amount negative or   *)
(* an allocation larger than the whole.                                    *)
THEOREM TypesAreKept == Spec => []TypeOK
<1>1. Init => TypeOK
  BY TypesInit
<1>2. TypeOK /\ [Next]_vars => TypeOK'
  BY TypesNext
<1> QED BY <1>1, <1>2, PTL DEF Spec

-----------------------------------------------------------------------------
(* The facts every step keeps to. *)

(* A triggered plan keeps its owner; an inactive one stays so and gets no  *)
(* money.                                                                  *)
PlansKept ==
  /\ DOMAIN plans \subseteq DOMAIN plans'
  /\ \A q \in DOMAIN plans :
       /\ Triggered(q) => plans'[q].owner = plans[q].owner
       /\ ~plans[q].is_active =>
            ~plans'[q].is_active /\ plans'[q].total_amount <= plans[q].total_amount

(* A claim record stays as it is; new ones belong to active plans.         *)
ClaimsKept ==
  /\ \A key \in DOMAIN claims : key \in DOMAIN claims' /\ claims'[key] = claims[key]
  /\ \A key \in DOMAIN claims' \ DOMAIN claims :
       PlanExists(key[1]) => plans[key[1]].is_active

(* What was lent when the plan was triggered and has come back since, or   *)
(* is still out.                                                           *)
Accounted(q) ==
  triggers[q].recalled_amount + triggers[q].settled_amount + plans[q].total_loaned

TriggersKept ==
  /\ \A q \in DOMAIN triggers :
       /\ q \in DOMAIN triggers'
       /\ triggers'[q].triggered_at = triggers[q].triggered_at
       /\ triggers'[q].original_loaned = triggers[q].original_loaned
       /\ triggers'[q].recalled_amount >= triggers[q].recalled_amount
       /\ triggers'[q].settled_amount >= triggers[q].settled_amount
       /\ PlanExists(q) => Accounted(q)' >= Accounted(q)
  /\ \A q \in DOMAIN triggers' \ DOMAIN triggers :
       PlanExists(q) /\ triggers'[q].original_loaned <= Accounted(q)'

(* What the plans hold and what claims were granted, as sums.              *)
Amounts == [p \in DOMAIN plans |-> plans[p].total_amount]

Payouts(records) == [key \in DOMAIN records |-> records[key].payout]

Granted(records) == Total(Payouts(records))

FiniteClaims == IsFiniteSet(DOMAIN claims)

(* The tokens in escrow that nothing is promised of.                       *)
Uncommitted == token[Contract] - (Total(Amounts) + Granted(claims))

(* No step takes tokens from the escrow that are promised, or promises     *)
(* tokens that are not in it.                                              *)
EscrowKept ==
  FiniteClaims => FiniteClaims' /\ Uncommitted' \in Int /\ Uncommitted' >= Uncommitted

StepFacts == PlansKept /\ ClaimsKept /\ TriggersKept /\ EscrowKept

(* The amounts of a plan are natural numbers. *)
LEMMA PlanAmounts ==
  ASSUME TypeOK, NEW q \in DOMAIN plans
  PROVE  plans[q].total_amount \in Nat /\ plans[q].total_loaned \in Nat
<1>1. plans[q] \in Plan
  BY DEF TypeOK
<1> QED BY <1>1, AmountAssumption DEF Plan

-----------------------------------------------------------------------------
(* The sums. *)

(* The amounts of the plans add up to a number.                            *)
LEMMA AmountsAddUp ==
  ASSUME TypeOK
  PROVE  /\ IntMap(Amounts) /\ Total(Amounts) \in Int
         /\ DOMAIN Amounts = DOMAIN plans
         /\ \A q \in DOMAIN plans : Amounts[q] = plans[q].total_amount
<1>1. DOMAIN Amounts = DOMAIN plans /\ \A q \in DOMAIN plans : Amounts[q] = plans[q].total_amount
  BY DEF Amounts
<1>2. IsFiniteSet(DOMAIN plans)
  BY FS_Interval DEF TypeOK
<1>3. IntMap(Amounts)
  BY <1>1, <1>2, PlanAmounts DEF IntMap
<1> QED BY <1>1, <1>3, TotalIsInt

(* So do the payouts of finitely many claims.                              *)
LEMMA PayoutsAddUp ==
  ASSUME NEW records \in Maps(Nat \X HashedEmail, ClaimRecord), IsFiniteSet(DOMAIN records)
  PROVE  IntMap(Payouts(records)) /\ Granted(records) \in Int
<1>1. \A key \in DOMAIN records : records[key] \in ClaimRecord
  BY DEF Maps
<1>2. IntMap(Payouts(records))
  BY <1>1 DEF IntMap, Payouts, ClaimRecord
<1> QED BY <1>2, TotalIsInt DEF Granted

(* The claims granted so far add up to a number.                           *)
LEMMA GrantsAddUp ==
  ASSUME TypeOK
  PROVE  /\ claims \in Maps(Nat \X HashedEmail, ClaimRecord)
         /\ FiniteClaims => Granted(claims) \in Int
<1>1. claims \in Maps(Nat \X HashedEmail, ClaimRecord)
  BY MapsAreMaps DEF TypeOK
<1> QED BY <1>1, PayoutsAddUp DEF FiniteClaims

(* A further claim adds its payout.                                        *)
LEMMA GrantAddsUp ==
  ASSUME NEW records \in Maps(Nat \X HashedEmail, ClaimRecord), IsFiniteSet(DOMAIN records),
         NEW key \in Nat \X HashedEmail, key \notin DOMAIN records, NEW record \in ClaimRecord
  PROVE  /\ IsFiniteSet(DOMAIN Put(records, key, record))
         /\ Granted(Put(records, key, record)) = Granted(records) + record.payout
<1> DEFINE more == Put(records, key, record)
<1>1. /\ DOMAIN more = DOMAIN records \cup {key} /\ more[key] = record
      /\ \A k \in DOMAIN records : more[k] = records[k]
  BY DEF Put
<1>2. IsFiniteSet(DOMAIN more)
  BY <1>1, FS_AddElement
<1>3. more \in Maps(Nat \X HashedEmail, ClaimRecord)
  <2>1. more = [k \in DOMAIN more |-> more[k]]
    BY DEF Put
  <2>2. DOMAIN more \subseteq Nat \X HashedEmail /\ \A k \in DOMAIN more : more[k] \in ClaimRecord
    BY <1>1 DEF Maps
  <2> HIDE DEF more
  <2> QED BY <2>1, <2>2, MapsAreMaps DEF IsMap
<1> HIDE DEF more
<1> DEFINE f == Payouts(records)  e == Payouts(more)
<1>4. IntMap(f) /\ IntMap(e) /\ Granted(records) \in Int
  BY <1>2, <1>3, PayoutsAddUp
<1>5. /\ DOMAIN f = DOMAIN records /\ DOMAIN e = DOMAIN records \cup {key}
      /\ e[key] = record.payout /\ \A k \in DOMAIN records : e[k] = f[k]
  BY <1>1 DEF Payouts
<1> HIDE DEF f, e
<1>6. DOMAIN f \ {key} = DOMAIN e \ {key}
  BY <1>5
<1>7. Total(e) \in Int /\ Total(f) \in Int /\ Total(e) - Stored(e, key, 0) = Total(f) - Stored(f, key, 0)
  BY <1>4, <1>5, <1>6, TotalChanges
<1>8. Stored(e, key, 0) = record.payout /\ Stored(f, key, 0) = 0 /\ record.payout \in Nat
  BY <1>5 DEF Stored, ClaimRecord
<1>9. Total(e) = Total(f) + record.payout
  BY <1>7, <1>8
<1> QED BY <1>2, <1>9 DEF Granted, f, e, more

(* A step that changes one plan, and leaves the escrow what it takes off   *)
(* the plan and adds to the claims.                                        *)
LEMMA EscrowEdit ==
  ASSUME TypeOK, NEW p \in DOMAIN plans, NEW plan \in Plan,
         plans' = [plans EXCEPT ![p] = plan],
         FiniteClaims => /\ FiniteClaims'
                         /\ Granted(claims)' \in Int /\ token'[Contract] \in Int
                         /\ token'[Contract] - plan.total_amount - Granted(claims)'
                              >= token[Contract] - plans[p].total_amount - Granted(claims)
  PROVE  EscrowKept
<1> SUFFICES ASSUME FiniteClaims PROVE Uncommitted' \in Int /\ Uncommitted' >= Uncommitted
  BY DEF EscrowKept
<1>1. /\ DOMAIN plans' = DOMAIN plans
      /\ \A q \in DOMAIN plans : plans'[q] = IF q = p THEN plan ELSE plans[q]
  BY DEF TypeOK
<1>2. /\ IntMap(Amounts) /\ DOMAIN Amounts = DOMAIN plans
      /\ Amounts[p] = plans[p].total_amount /\ plans[p].total_amount \in Nat
      /\ \A q \in DOMAIN plans : Amounts[q] = plans[q].total_amount
  BY AmountsAddUp, PlanAmounts
<1>3. /\ DOMAIN Amounts' = DOMAIN Amounts
      /\ \A q \in DOMAIN plans : Amounts'[q] = IF q = p THEN plan.total_amount ELSE Amounts[q]
  BY <1>1, <1>2 DEF Amounts
<1>4. plan.total_amount \in Nat
  BY AmountAssumption DEF Plan
<1>5. IntMap(Amounts')
  BY <1>2, <1>3, <1>4 DEF IntMap
<1>6. /\ Total(Amounts) \in Int /\ Total(Amounts') \in Int
      /\ Total(Amounts') - Stored(Amounts', p, 0) = Total(Amounts) - Stored(Amounts, p, 0)
  <2>1. \A q \in DOMAIN Amounts \ {p} : Amounts'[q] = Amounts[q]
    BY <1>2, <1>3
  <2> QED BY <1>2, <1>3, <1>5, <2>1, TotalChanges
<1>7. Stored(Amounts', p, 0) = plan.total_amount /\ Stored(Amounts, p, 0) = plans[p].total_amount
  BY <1>2, <1>3 DEF Stored
<1>8. Total(Amounts') = Total(Amounts) - plans[p].total_amount + plan.total_amount
  BY <1>2, <1>4, <1>6, <1>7
<1>9. Granted(claims) \in Int /\ token[Contract] \in Int
  BY GrantsAddUp DEF TypeOK
<1>10. Granted(claims') = Granted(claims)'
  BY DEF Granted, Payouts
<1>11. Uncommitted' = token'[Contract] - (Total(Amounts') + Granted(claims'))
  BY DEF Uncommitted, Granted, Payouts
<1> QED BY <1>2, <1>4, <1>6, <1>8, <1>9, <1>10, <1>11 DEF Uncommitted

(* A step that changes the amount of one plan by the tokens it moves.       *)
LEMMA EscrowMoves ==
  ASSUME TypeOK, NEW p \in DOMAIN plans, NEW plan \in Plan,
         plans' = [plans EXCEPT ![p] = plan], UNCHANGED claims,
         token'[Contract] \in Int,
         token'[Contract] - plan.total_amount = token[Contract] - plans[p].total_amount
  PROVE  EscrowKept
<1>1. plan.total_amount \in Nat /\ plans[p].total_amount \in Nat /\ token[Contract] \in Nat
  <2>1. plan.total_amount \in Nat
    BY AmountAssumption DEF Plan
  <2>2. token[Contract] \in Nat
    BY DEF TypeOK
  <2> QED BY <2>1, <2>2, PlanAmounts
<1>2. Granted(claims)' = Granted(claims) /\ FiniteClaims' = FiniteClaims
  BY DEF Granted, Payouts, FiniteClaims
<1>3. FiniteClaims => Granted(claims) \in Int
  BY GrantsAddUp
<1>4. FiniteClaims => /\ FiniteClaims'
                      /\ Granted(claims)' \in Int /\ token'[Contract] \in Int
                      /\ token'[Contract] - plan.total_amount - Granted(claims)'
                           >= token[Contract] - plans[p].total_amount - Granted(claims)
  BY <1>1, <1>2, <1>3
<1> QED BY <1>4, EscrowEdit

(* A step that changes one plan, and moves no token and grants no claim,   *)
(* does not raise its amount.                                              *)
LEMMA EscrowSame ==
  ASSUME TypeOK, NEW p \in DOMAIN plans, NEW plan \in Plan,
         plans' = [plans EXCEPT ![p] = plan], UNCHANGED <<claims, token>>,
         plan.total_amount <= plans[p].total_amount
  PROVE  EscrowKept
<1>1. plan.total_amount \in Nat /\ plans[p].total_amount \in Nat
  BY PlanAmounts, AmountAssumption DEF Plan
<1>2. token[Contract] \in Nat
  BY DEF TypeOK
<1>3. Granted(claims)' = Granted(claims) /\ FiniteClaims' = FiniteClaims
  BY DEF Granted, Payouts, FiniteClaims
<1>4. FiniteClaims => Granted(claims) \in Int
  BY GrantsAddUp
<1>5. FiniteClaims => token[Contract] - plan.total_amount - Granted(claims)
                        >= token[Contract] - plans[p].total_amount - Granted(claims)
  BY <1>1, <1>2, <1>4
<1>6. FiniteClaims => /\ FiniteClaims'
                      /\ Granted(claims)' \in Int /\ token'[Contract] \in Int
                      /\ token'[Contract] - plan.total_amount - Granted(claims)'
                           >= token[Contract] - plans[p].total_amount - Granted(claims)
  BY <1>2, <1>3, <1>4, <1>5
<1> QED BY <1>6, EscrowEdit

-----------------------------------------------------------------------------

(* Steps that leave the plans, the claims, the triggers and the tokens     *)
(* alone.                                                                  *)
LEMMA OtherFacts ==
  ASSUME TypeOK, UNCHANGED <<plans, claims, triggers, token>>
  PROVE  StepFacts
<1>1. PlansKept
  <2>1. \A q \in DOMAIN plans : plans[q].total_amount \in Nat
    BY PlanAmounts
  <2> QED BY <2>1 DEF PlansKept
<1>2. ClaimsKept
  BY DEF ClaimsKept
<1>3. TriggersKept
  <2>1. ASSUME NEW q \in DOMAIN triggers
        PROVE  triggers[q].recalled_amount \in Nat /\ triggers[q].settled_amount \in Nat
    <3>1. triggers[q] \in TriggerInfo
      BY DEF TypeOK, IsMap
    <3> QED BY <3>1 DEF TriggerInfo
  <2>2. ASSUME NEW q \in DOMAIN plans PROVE plans[q].total_loaned \in Nat
    BY PlanAmounts
  <2>3. ASSUME NEW q \in DOMAIN triggers, PlanExists(q) PROVE Accounted(q)' >= Accounted(q)
    BY <2>1, <2>2, <2>3 DEF Accounted, PlanExists
  <2> QED BY <2>1, <2>3 DEF TriggersKept
<1>4. EscrowKept
  <2>1. Uncommitted' = Uncommitted /\ FiniteClaims' = FiniteClaims
    BY DEF Uncommitted, Amounts, Granted, Payouts, FiniteClaims
  <2>2. FiniteClaims => Uncommitted \in Int
    <3>1. FiniteClaims => Granted(claims) \in Int /\ token[Contract] \in Int
      BY GrantsAddUp DEF TypeOK
    <3> QED BY <3>1, AmountsAddUp DEF Uncommitted
  <2> QED BY <2>1, <2>2 DEF EscrowKept
<1> QED BY <1>1, <1>2, <1>3, <1>4 DEF StepFacts

(* Steps that change one plan, and neither its loans nor the claims nor    *)
(* the triggers.                                                           *)
Compatible(q, old, new) ==
  /\ Triggered(q) => new.owner = old.owner
  /\ ~old.is_active => ~new.is_active /\ new.total_amount <= old.total_amount
  /\ new.total_loaned >= old.total_loaned

(* A compatible change of one plan keeps the plans and the trigger records. *)
LEMMA EditKeeps ==
  ASSUME TypeOK, NEW p \in DOMAIN plans, NEW plan \in Plan,
         plans' = [plans EXCEPT ![p] = plan], Compatible(p, plans[p], plan),
         UNCHANGED triggers
  PROVE  PlansKept /\ TriggersKept
<1>1. \A q \in DOMAIN plans : plans'[q] = IF q = p THEN plan ELSE plans[q]
  BY DEF TypeOK
<1>2. \A q \in DOMAIN plans : plans[q].total_amount \in Nat /\ plans[q].total_loaned \in Nat
  BY PlanAmounts
<1>3. plan.total_loaned \in Nat
  BY DEF Plan
<1>4. PlansKept
  BY <1>1, <1>2 DEF PlansKept, Compatible
<1>5. TriggersKept
  <2>1. ASSUME NEW q \in DOMAIN triggers
        PROVE  triggers[q].recalled_amount \in Nat /\ triggers[q].settled_amount \in Nat
    <3>1. triggers[q] \in TriggerInfo
      BY DEF TypeOK, IsMap
    <3> QED BY <3>1 DEF TriggerInfo
  <2>2. ASSUME NEW q \in DOMAIN triggers, PlanExists(q) PROVE Accounted(q)' >= Accounted(q)
    <3>1. plans'[q].total_loaned >= plans[q].total_loaned /\ plans'[q].total_loaned \in Nat
      BY <1>1, <1>2, <1>3, <2>2 DEF Compatible, PlanExists
    <3> QED BY <1>2, <2>1, <2>2, <3>1 DEF Accounted, PlanExists
  <2> QED BY <2>1, <2>2 DEF TriggersKept
<1> QED BY <1>4, <1>5

(* A compatible change of one plan that grants no claim keeps to the facts. *)
LEMMA EditFacts ==
  ASSUME TypeOK, NEW p \in DOMAIN plans, NEW plan \in Plan,
         plans' = [plans EXCEPT ![p] = plan], Compatible(p, plans[p], plan),
         UNCHANGED <<claims, triggers>>, EscrowKept
  PROVE  StepFacts
<1>1. ClaimsKept
  BY DEF ClaimsKept
<1> QED BY <1>1, EditKeeps DEF StepFacts

-----------------------------------------------------------------------------
(* Batches of beneficiaries leave the money, the loans and the owner alone. *)

SameFunds(x, y) ==
  /\ x.owner = y.owner /\ x.is_active = y.is_active
  /\ x.total_amount = y.total_amount /\ x.total_loaned = y.total_loaned

(* A batch of additions leaves the funds of the plan alone. *)
LEMMA BatchAddKeeps ==
  ASSUME NEW plan \in Plan, NEW inputs \in Seq(BeneficiaryInput)
  PROVE  SameFunds(PlanAfterAdds(plan, inputs), plan)
<1> DEFINE S == {x \in Plan : SameFunds(x, plan)}
<1>1. KeptByAdds(S, inputs)
  <2> SUFFICES ASSUME NEW x \in S, NEW i \in 1..Len(inputs)
               PROVE  AddOrSkip(x, inputs[i]) \in S
    BY DEF KeptByAdds
  <2>1. CASE ~CanAddBeneficiary(x, inputs[i])
    BY <2>1 DEF AddOrSkip
  <2>2. CASE CanAddBeneficiary(x, inputs[i])
    <3>1. inputs[i] \in BeneficiaryInput /\ x \in Plan
      OBVIOUS
    <3>2. WithBeneficiary(x, inputs[i]) \in Plan
      BY <2>2, <3>1, WithBeneficiaryTyped
    <3>3. SameFunds(WithBeneficiary(x, inputs[i]), plan)
      BY <3>1 DEF WithBeneficiary, SameFunds, Plan
    <3> QED BY <2>2, <3>2, <3>3 DEF AddOrSkip
  <2> QED BY <2>1, <2>2
<1>2. plan \in S
  BY DEF SameFunds
<1>3. PlanAfterAdds(plan, inputs) \in S
  <2> HIDE DEF S
  <2> QED BY <1>1, <1>2, BatchAddRule
<1> QED BY <1>3

(* A batch of removals leaves the funds of the plan alone. *)
LEMMA BatchRemoveKeeps ==
  ASSUME NEW plan \in Plan, NEW indices
  PROVE  SameFunds(PlanAfterRemovals(plan, indices), plan)
<1> DEFINE S == {x \in Plan : SameFunds(x, plan)}
<1>1. KeptByRemovals(S)
  <2> SUFFICES ASSUME NEW x \in S, NEW i \in 1..Len(x.beneficiaries)
               PROVE  WithoutBeneficiary(x, i) \in S
    BY DEF KeptByRemovals
  <2>1. WithoutBeneficiary(x, i) \in Plan
    BY WithoutBeneficiaryTyped
  <2>2. SameFunds(WithoutBeneficiary(x, i), plan)
    BY DEF WithoutBeneficiary, SameFunds, Plan
  <2> QED BY <2>1, <2>2
<1>2. plan \in S /\ S \in SUBSET Plan
  BY DEF SameFunds
<1>3. PlanAfterRemovals(plan, indices) \in S
  <2> HIDE DEF S
  <2> QED BY <1>1, <1>2, BatchRemoveRule
<1> QED BY <1>3

-----------------------------------------------------------------------------
(* The facts, operation by operation. *)

(* Calls on roles, KYC and the pause write nothing else. *)
LEMMA AdminFrame == AdminNext => UNCHANGED otherThanAccess
BY DEF AdminNext, InitializeAdmin, AssignRole, RevokeRole, SetPaused, SubmitKyc,
       ApproveKyc, RejectKyc, BatchApproveKyc

(* Calls on emergency access write guards and approvals only. *)
LEMMA EmergencyFrame == EmergencyNext => UNCHANGED otherThanGuards
<1> SUFFICES ASSUME EmergencyNext PROVE UNCHANGED otherThanGuards
  OBVIOUS
<1>1. ASSUME NEW p, NEW caller, NEW contact,
             \/ ActivateEmergencyAccess(caller, p, contact)
             \/ ApproveEmergencyAccess(caller, p, contact)
      PROVE  UNCHANGED otherThanGuards
  BY <1>1 DEF ActivateEmergencyAccess, ApproveEmergencyAccess
<1>2. ASSUME NEW p, NEW caller, NEW contact,
             \/ AddEmergencyContact(caller, p, contact)
             \/ RemoveEmergencyContact(caller, p, contact)
      PROVE  UNCHANGED otherThanGuards
  BY <1>2 DEF AddEmergencyContact, RemoveEmergencyContact
<1>3. ASSUME NEW p, NEW caller, DeactivateEmergencyAccess(caller, p) \/ GetEmergencyAccess(p)
      PROVE  UNCHANGED otherThanGuards
  BY <1>3 DEF DeactivateEmergencyAccess, GetEmergencyAccess
<1>4. ASSUME NEW p, NEW caller, NEW list, NEW threshold, SetGuardians(caller, p, list, threshold)
      PROVE  UNCHANGED otherThanGuards
  BY <1>4 DEF SetGuardians
<1> QED BY <1>1, <1>2, <1>3, <1>4 DEF EmergencyNext

(* Calls on roles, KYC and the pause keep to the facts. *)
LEMMA AdminFacts == TypeOK /\ AdminNext => StepFacts
<1> SUFFICES ASSUME TypeOK, AdminNext PROVE StepFacts
  OBVIOUS
<1>1. UNCHANGED otherThanAccess
  BY AdminFrame
<1> QED BY <1>1, OtherFacts DEF otherThanAccess, claimVars

(* Calls on emergency access keep to the facts. *)
LEMMA EmergencyFacts == TypeOK /\ EmergencyNext => StepFacts
<1> SUFFICES ASSUME TypeOK, EmergencyNext PROVE StepFacts
  OBVIOUS
<1>1. UNCHANGED otherThanGuards
  BY EmergencyFrame
<1> QED BY <1>1, OtherFacts DEF otherThanGuards, claimVars

(* A new plan leaves every other plan as it was. *)
LEMMA CreateFacts ==
  ASSUME TypeOK, NEW owner \in Address, NEW amount \in CreateAmount, NEW method,
         NEW inputs, NEW lendable,
         CreateInheritancePlan(owner, amount, method, inputs, lendable)
  PROVE  StepFacts
<1>1. /\ DOMAIN plans \subseteq DOMAIN plans'
      /\ \A q \in DOMAIN plans : plans'[q] = plans[q]
  BY DEF CreateInheritancePlan, Put, TypeOK
<1>2. UNCHANGED <<claims, triggers>>
  BY DEF CreateInheritancePlan, claimVars
<1>3. PlansKept
  BY <1>1, PlanAmounts DEF PlansKept
<1>4. ClaimsKept
  BY <1>2 DEF ClaimsKept
<1>5. TriggersKept
  <2>1. ASSUME NEW q \in DOMAIN triggers
        PROVE  triggers[q].recalled_amount \in Nat /\ triggers[q].settled_amount \in Nat
    <3>1. triggers[q] \in TriggerInfo
      BY DEF TypeOK, IsMap
    <3> QED BY <3>1 DEF TriggerInfo
  <2>2. ASSUME NEW q \in DOMAIN triggers, PlanExists(q) PROVE Accounted(q)' >= Accounted(q)
    <3>1. plans'[q] = plans[q] /\ plans[q].total_loaned \in Nat
      BY <1>1, <2>2, PlanAmounts DEF PlanExists
    <3> QED BY <1>2, <2>1, <3>1 DEF Accounted
  <2> QED BY <1>2, <2>1, <2>2 DEF TriggersKept
<1>6. EscrowKept
  <2> SUFFICES ASSUME FiniteClaims
               PROVE  FiniteClaims' /\ Uncommitted' \in Int /\ Uncommitted' >= Uncommitted
    BY DEF EscrowKept
  <2> DEFINE fee == CreationFee(amount)  net == amount - fee  id == next_plan_id
  <2>1. amount \in Nat /\ fee \in Nat /\ net \in Nat
    <3>1. amount \in Nat
      BY ArgumentAssumption, AmountAssumption
    <3>2. fee \in 0..amount
      BY <3>1, CreationFeeBound
    <3> HIDE DEF fee
    <3> QED BY <3>1, <3>2
  <2>2. id \in Nat /\ id \notin DOMAIN plans
    BY DEF TypeOK
  <2>3. /\ DOMAIN plans' = DOMAIN plans \cup {id}
        /\ plans'[id].total_amount = net
    BY DEF CreateInheritancePlan, Put
  <2>4. token'[Contract] = token[Contract] + net
    <3>1. owner # Contract /\ admin # Contract
          /\ token \in [Address \cup {Contract} -> Nat] /\ admin \in Address
      BY AccountAssumption DEF CreateInheritancePlan, TypeOK
    <3>2. token' = Transfer(Transfer(token, owner, admin, fee), owner, Contract, net)
      BY DEF CreateInheritancePlan
    <3> HIDE DEF fee, net
    <3> QED BY <2>1, <3>1, <3>2 DEF Transfer
  <2> HIDE DEF net, id
  <2>5. /\ IntMap(Amounts) /\ Total(Amounts) \in Int /\ DOMAIN Amounts = DOMAIN plans
        /\ \A q \in DOMAIN plans : Amounts[q] = plans[q].total_amount
    BY AmountsAddUp
  <2>6. /\ DOMAIN Amounts' = DOMAIN plans \cup {id} /\ Amounts'[id] = net
        /\ \A q \in DOMAIN plans : Amounts'[q] = Amounts[q]
    BY <1>1, <2>3, <2>5 DEF Amounts
  <2>7. IntMap(Amounts')
    <3>1. IsFiniteSet(DOMAIN Amounts')
      BY <2>5, <2>6, FS_AddElement DEF IntMap
    <3>2. \A q \in DOMAIN Amounts' : Amounts'[q] \in Int
      BY <2>1, <2>5, <2>6 DEF IntMap
    <3> QED BY <3>1, <3>2 DEF IntMap
  <2>8. /\ Total(Amounts') \in Int
        /\ Total(Amounts') - Stored(Amounts', id, 0) = Total(Amounts) - Stored(Amounts, id, 0)
    <3>1. DOMAIN Amounts \ {id} = DOMAIN Amounts' \ {id}
      BY <2>2, <2>5, <2>6
    <3>2. \A q \in DOMAIN Amounts \ {id} : Amounts'[q] = Amounts[q]
      BY <2>5, <2>6
    <3> QED BY <2>5, <2>7, <3>1, <3>2, TotalChanges
  <2>9. Stored(Amounts', id, 0) = net /\ Stored(Amounts, id, 0) = 0
    BY <2>2, <2>5, <2>6 DEF Stored
  <2>10. Total(Amounts') = Total(Amounts) + net
    BY <2>1, <2>5, <2>8, <2>9
  <2>11. Granted(claims)' = Granted(claims) /\ FiniteClaims' /\ Granted(claims) \in Int
    BY <1>2, GrantsAddUp DEF Granted, Payouts, FiniteClaims
  <2>12. token[Contract] \in Nat /\ Total(Amounts)' = Total(Amounts')
    BY DEF TypeOK
  <2> QED BY <2>1, <2>4, <2>5, <2>10, <2>11, <2>12 DEF Uncommitted
<1> QED BY <1>3, <1>4, <1>5, <1>6 DEF StepFacts

(* Calls on plans write neither claims nor triggers. *)
LEMMA SameClaims == UNCHANGED otherThanPlans => UNCHANGED <<claims, triggers>>
BY DEF otherThanPlans, claimVars

(* Deposits, withdrawals and loans keep to the facts. *)
LEMMA FundsFacts ==
  ASSUME TypeOK, NEW caller \in Address, NEW p, NEW amount \in Nat,
         \/ Deposit(caller, p, amount)
         \/ Withdraw(caller, p, amount)
         \/ ExternalLend(p, amount)
  PROVE  StepFacts
<1>1. p \in DOMAIN plans /\ plans[p] \in Plan /\ UNCHANGED <<claims, triggers>>
  BY SameClaims DEF Deposit, Withdraw, ExternalLend, OwnedBy, PlanExists, TypeOK
<1>2. plans[p].total_amount \in Nat /\ plans[p].total_loaned \in Nat
      /\ plans[p].total_amount \in 0..U64Max
  BY <1>1, PlanAmounts DEF Plan
<1>3. CASE Deposit(caller, p, amount)
  <2> DEFINE plan == [plans[p] EXCEPT !.total_amount = @ + amount]
  <2>1. plans[p].total_amount + amount \in 0..U64Max /\ plans[p].is_active
    BY <1>2, <1>3, AmountAssumption DEF Deposit
  <2>2. plan \in Plan
    BY <1>1, <2>1 DEF Plan
  <2>3. plans' = [plans EXCEPT ![p] = plan]
    BY <1>3 DEF Deposit
  <2>4. Compatible(p, plans[p], plan)
    BY <1>1, <1>2, <2>1 DEF Compatible, Plan
  <2>5. plan.total_amount = plans[p].total_amount + amount
    BY <1>1 DEF Plan
  <2>6. /\ token[Contract] \in Nat /\ token'[Contract] = token[Contract] + amount
    BY <1>3, AccountAssumption DEF Deposit, Transfer, TypeOK
  <2> HIDE DEF plan
  <2>7. /\ token'[Contract] \in Int
        /\ token'[Contract] - plan.total_amount = token[Contract] - plans[p].total_amount
    BY <1>2, <2>5, <2>6
  <2>8. EscrowKept
    BY <1>1, <2>2, <2>3, <2>7, EscrowMoves
  <2> QED BY <1>1, <2>2, <2>3, <2>4, <2>8, EditFacts
<1>4. CASE Withdraw(caller, p, amount)
  <2> DEFINE plan == [plans[p] EXCEPT !.total_amount = @ - amount]
  <2>1. plans[p].total_amount - amount \in 0..U64Max
    BY <1>2, <1>4, AmountAssumption DEF Withdraw, Available, SaturatingSub
  <2>2. plan \in Plan
    BY <1>1, <2>1 DEF Plan
  <2>3. plans' = [plans EXCEPT ![p] = plan]
    BY <1>4 DEF Withdraw
  <2>4. Compatible(p, plans[p], plan)
    BY <1>1, <1>2 DEF Compatible, Plan
  <2>5. plan.total_amount = plans[p].total_amount - amount
    BY <1>1 DEF Plan
  <2>6. /\ token[Contract] \in Nat /\ token'[Contract] = token[Contract] - amount
    BY <1>4, AccountAssumption DEF Withdraw, Transfer, TypeOK
  <2> HIDE DEF plan
  <2>7. /\ token'[Contract] \in Int
        /\ token'[Contract] - plan.total_amount = token[Contract] - plans[p].total_amount
    BY <1>2, <2>5, <2>6
  <2>8. EscrowKept
    BY <1>1, <2>2, <2>3, <2>7, EscrowMoves
  <2> QED BY <1>1, <2>2, <2>3, <2>4, <2>8, EditFacts
<1>5. CASE ExternalLend(p, amount)
  <2> DEFINE plan == [plans[p] EXCEPT !.total_loaned = @ + amount]
  <2>1. plan \in Plan
    BY <1>1, <1>2 DEF Plan
  <2>2. plans' = [plans EXCEPT ![p] = plan]
    BY <1>5 DEF ExternalLend
  <2>3. Compatible(p, plans[p], plan)
    BY <1>1, <1>2 DEF Compatible, Plan
  <2>4. plan.total_amount <= plans[p].total_amount /\ UNCHANGED token
    BY <1>1, <1>2, <1>5 DEF Plan, ExternalLend
  <2> HIDE DEF plan
  <2>5. EscrowKept
    BY <1>1, <2>1, <2>2, <2>4, EscrowSame
  <2> QED BY <1>1, <2>1, <2>2, <2>3, <2>5, EditFacts
<1> QED BY <1>3, <1>4, <1>5

(* A plan that differs from an old one in no money, loan or owner. *)
LEMMA SameFundsCompatible ==
  ASSUME TypeOK, NEW p \in DOMAIN plans, NEW plan \in Plan, SameFunds(plan, plans[p])
  PROVE  Compatible(p, plans[p], plan)
BY PlanAmounts DEF SameFunds, Compatible

(* Calls that leave the funds of their plan alone keep to the facts. *)
LEMMA SettingsFacts ==
  ASSUME TypeOK, NEW p, NEW caller, OwnedBy(p, caller), NEW plan \in Plan,
         SameFunds(plan, plans[p]), plans' = [plans EXCEPT ![p] = plan],
         UNCHANGED <<token, otherThanPlans>>
  PROVE  StepFacts
<1>1. p \in DOMAIN plans /\ UNCHANGED <<claims, triggers, token>>
  BY OwnedTyped, SameClaims
<1>2. plan.total_amount <= plans[p].total_amount
  BY <1>1, PlanAmounts DEF SameFunds
<1>3. EscrowKept
  BY <1>1, <1>2, EscrowSame
<1> QED BY <1>1, <1>3, SameFundsCompatible, EditFacts

(* Setting the flags of a plan keeps to the facts. *)
LEMMA FlagsFacts ==
  ASSUME TypeOK, NEW p, NEW caller,
         \/ \E lendable \in LendableValue : SetLendable(caller, p, lendable)
         \/ EnableWaterfall(caller, p)
  PROVE  StepFacts
<1>1. CASE EnableWaterfall(caller, p)
  <2> DEFINE plan == [plans[p] EXCEPT !.waterfall_enabled = TRUE]
  <2>1. plan \in Plan /\ SameFunds(plan, plans[p])
    BY <1>1, OwnedTyped DEF EnableWaterfall, Plan, SameFunds
  <2>2. plans' = [plans EXCEPT ![p] = plan]
    BY <1>1 DEF EnableWaterfall
  <2> HIDE DEF plan
  <2> QED BY <1>1, <2>1, <2>2, SettingsFacts DEF EnableWaterfall
<1>2. ASSUME NEW lendable \in LendableValue, SetLendable(caller, p, lendable)
      PROVE  StepFacts
  <2> DEFINE plan == [plans[p] EXCEPT !.is_lendable = lendable]
  <2>1. plan \in Plan /\ SameFunds(plan, plans[p])
    BY <1>2, OwnedTyped, ArgumentAssumption DEF SetLendable, Plan, SameFunds
  <2>2. plans' = [plans EXCEPT ![p] = plan]
    BY <1>2 DEF SetLendable
  <2> HIDE DEF plan
  <2> QED BY <1>2, <2>1, <2>2, SettingsFacts DEF SetLendable
<1> QED BY <1>1, <1>2

(* Setting a priority keeps to the facts. *)
LEMMA PriorityFacts ==
  ASSUME TypeOK, NEW p, NEW caller, NEW i, NEW priority \in Nat,
         SetBeneficiaryPriority(caller, p, i, priority)
  PROVE  StepFacts
<1> DEFINE old  == plans[p].beneficiaries
           bens == [old EXCEPT ![i].priority = priority]
           plan == [plans[p] EXCEPT !.beneficiaries = bens]
<1>1. p \in DOMAIN plans /\ plans[p] \in Plan /\ old \in Seq(Beneficiary)
  BY OwnedTyped DEF SetBeneficiaryPriority, Plan
<1>2. i \in 1..Len(old) /\ old[i] \in Beneficiary
  BY <1>1 DEF SetBeneficiaryPriority
<1>3. [old[i] EXCEPT !.priority = priority] \in Beneficiary
  BY <1>2 DEF Beneficiary
<1>4. bens \in Seq(Beneficiary)
  BY <1>1, <1>2, <1>3
<1>5. plan \in Plan /\ SameFunds(plan, plans[p])
  <2> HIDE DEF bens
  <2> QED BY <1>1, <1>4 DEF Plan, SameFunds
<1>6. plans' = [plans EXCEPT ![p] = plan]
  BY DEF SetBeneficiaryPriority
<1> HIDE DEF plan
<1> QED BY <1>5, <1>6, SettingsFacts DEF SetBeneficiaryPriority

(* Adding and removing beneficiaries keeps to the facts. *)
LEMMA BeneficiariesFacts ==
  ASSUME TypeOK, NEW p, NEW caller,
         \/ \E input \in AddInput : AddBeneficiary(caller, p, input)
         \/ \E i \in RemoveIndex : RemoveBeneficiary(caller, p, i)
         \/ \E inputs \in AddBatch : BatchAddBeneficiaries(caller, p, inputs)
         \/ \E indices \in RemoveBatch : BatchRemoveBeneficiaries(caller, p, indices)
  PROVE  StepFacts
<1>1. ASSUME NEW input \in AddInput, AddBeneficiary(caller, p, input) PROVE StepFacts
  <2> DEFINE plan == WithBeneficiary(plans[p], input)
  <2>1. plan \in Plan
    BY <1>1, OwnedTyped, ArgumentAssumption, WithBeneficiaryTyped DEF AddBeneficiary
  <2>2. SameFunds(plan, plans[p])
    BY <1>1, OwnedTyped DEF AddBeneficiary, WithBeneficiary, Plan, SameFunds
  <2>3. plans' = [plans EXCEPT ![p] = plan]
    BY <1>1 DEF AddBeneficiary
  <2> HIDE DEF plan
  <2> QED BY <1>1, <2>1, <2>2, <2>3, SettingsFacts DEF AddBeneficiary
<1>2. ASSUME NEW i \in RemoveIndex, RemoveBeneficiary(caller, p, i) PROVE StepFacts
  <2> DEFINE plan == WithoutBeneficiary(plans[p], i)
  <2>1. plans[p] \in Plan
    BY <1>2, OwnedTyped DEF RemoveBeneficiary
  <2>2. i \in 1..Len(plans[p].beneficiaries)
    BY <1>2, <2>1 DEF RemoveBeneficiary, Plan
  <2>3. plan \in Plan
    BY <2>1, <2>2, WithoutBeneficiaryTyped
  <2>4. SameFunds(plan, plans[p])
    BY <2>1 DEF WithoutBeneficiary, Plan, SameFunds
  <2>5. plans' = [plans EXCEPT ![p] = plan]
    BY <1>2 DEF RemoveBeneficiary
  <2> HIDE DEF plan
  <2> QED BY <1>2, <2>3, <2>4, <2>5, SettingsFacts DEF RemoveBeneficiary
<1>3. ASSUME NEW inputs \in AddBatch, BatchAddBeneficiaries(caller, p, inputs)
      PROVE  StepFacts
  <2> DEFINE plan == PlanAfterAdds(plans[p], inputs)
  <2>1. plan \in Plan /\ SameFunds(plan, plans[p])
    BY <1>3, OwnedTyped, ArgumentAssumption, BatchAddTyped, BatchAddKeeps
    DEF BatchAddBeneficiaries
  <2>2. plans' = [plans EXCEPT ![p] = plan]
    BY <1>3 DEF BatchAddBeneficiaries
  <2> HIDE DEF plan
  <2> QED BY <1>3, <2>1, <2>2, SettingsFacts DEF BatchAddBeneficiaries
<1>4. ASSUME NEW indices \in RemoveBatch, BatchRemoveBeneficiaries(caller, p, indices)
      PROVE  StepFacts
  <2> DEFINE plan == PlanAfterRemovals(plans[p], indices)
  <2>1. plan \in Plan /\ SameFunds(plan, plans[p])
    BY <1>4, OwnedTyped, BatchRemoveTyped, BatchRemoveKeeps DEF BatchRemoveBeneficiaries
  <2>2. plans' = [plans EXCEPT ![p] = plan]
    BY <1>4 DEF BatchRemoveBeneficiaries
  <2> HIDE DEF plan
  <2> QED BY <1>4, <2>1, <2>2, SettingsFacts DEF BatchRemoveBeneficiaries
<1> QED BY <1>1, <1>2, <1>3, <1>4

(* A batch of new allocations keeps to the facts. *)
LEMMA AllocationsFacts ==
  ASSUME TypeOK, NEW p, NEW caller, NEW new \in NewAllocation,
         BatchUpdateAllocations(caller, p, new)
  PROVE  StepFacts
<1> DEFINE old  == plans[p].beneficiaries
           bens == [i \in 1..Len(new) |-> [old[i] EXCEPT !.allocation_bp = new[i]]]
           plan == [plans[p] EXCEPT !.beneficiaries = bens,
                                    !.total_allocation_bp = FULL_ALLOCATION]
<1>1. p \in DOMAIN plans /\ plans[p] \in Plan
  BY OwnedTyped DEF BatchUpdateAllocations
<1>2. SameFunds(plan, plans[p])
  <2> HIDE DEF bens
  <2> QED BY <1>1 DEF Plan, SameFunds
<1>3. plans' = [plans EXCEPT ![p] = plan]
  BY DEF BatchUpdateAllocations
<1>4. plan \in Plan
  <2>1. TypeOK'
    BY AllocationsTyped
  <2> HIDE DEF plan
  <2>2. plans'[p] = plan /\ p \in DOMAIN plans'
    BY <1>1, <1>3 DEF TypeOK
  <2> QED BY <2>1, <2>2 DEF TypeOK
<1> HIDE DEF plan
<1> QED BY <1>2, <1>3, <1>4, SettingsFacts DEF BatchUpdateAllocations

(* Deactivation and transfer keep to the facts. *)
LEMMA EndOfPlanFacts ==
  ASSUME TypeOK, NEW p, NEW caller,
         \/ DeactivateInheritancePlan(caller, p)
         \/ \E new_owner \in NewOwner : TransferPlanOwnership(caller, new_owner, p)
  PROVE  StepFacts
<1>1. /\ p \in DOMAIN plans /\ plans[p] \in Plan /\ UNCHANGED <<claims, triggers, token>>
      /\ plans[p].total_amount \in Nat /\ plans[p].total_loaned \in Nat
  BY OwnedTyped, PlanAmounts, SameClaims DEF DeactivateInheritancePlan, TransferPlanOwnership
<1>2. CASE DeactivateInheritancePlan(caller, p)
  <2> DEFINE plan == [plans[p] EXCEPT !.is_active = FALSE]
  <2>1. plan \in Plan
    BY <1>1 DEF Plan
  <2>2. /\ plan.owner = plans[p].owner /\ plan.is_active = FALSE
        /\ plan.total_amount = plans[p].total_amount
        /\ plan.total_loaned = plans[p].total_loaned
    BY <1>1 DEF Plan
  <2>3. plans' = [plans EXCEPT ![p] = plan]
    BY <1>2 DEF DeactivateInheritancePlan
  <2> HIDE DEF plan
  <2>4. Compatible(p, plans[p], plan)
    BY <1>1, <2>2 DEF Compatible
  <2>5. plan.total_amount <= plans[p].total_amount
    BY <1>1, <2>2
  <2>6. EscrowKept
    BY <1>1, <2>1, <2>3, <2>5, EscrowSame
  <2> QED BY <1>1, <2>1, <2>3, <2>4, <2>6, EditFacts
<1>3. ASSUME NEW new_owner \in NewOwner, TransferPlanOwnership(caller, new_owner, p)
      PROVE  StepFacts
  <2> DEFINE plan == [plans[p] EXCEPT !.owner = new_owner]
  <2>1. plan \in Plan
    BY <1>1, ArgumentAssumption DEF Plan
  <2>2. Compatible(p, plans[p], plan)
    BY <1>1, <1>3 DEF TransferPlanOwnership, Plan, Compatible
  <2>3. plans' = [plans EXCEPT ![p] = plan]
    BY <1>3 DEF TransferPlanOwnership
  <2>4. plan.total_amount <= plans[p].total_amount
    BY <1>1 DEF Plan
  <2> HIDE DEF plan
  <2>5. EscrowKept
    BY <1>1, <2>1, <2>3, <2>4, EscrowSame
  <2> QED BY <1>1, <2>1, <2>2, <2>3, <2>5, EditFacts
<1> QED BY <1>2, <1>3

(* All calls on plans keep to the facts. *)
LEMMA PlanFacts == TypeOK /\ PlanNext => StepFacts
<1> SUFFICES ASSUME TypeOK, PlanNext PROVE StepFacts
  OBVIOUS
<1>1. DepositAmount \subseteq Nat /\ WithdrawAmount \subseteq Nat
      /\ LoanAmount \subseteq Nat /\ PriorityValue \subseteq Nat
  BY ArgumentAssumption
<1>2. ASSUME NEW p \in PlanId, NEW amount \in LoanAmount, ExternalLend(p, amount)
      PROVE  StepFacts
  <2>1. plans[p] \in Plan
    BY <1>2 DEF ExternalLend, PlanExists, TypeOK
  <2>2. plans[p].owner \in Address
    BY <2>1 DEF Plan
  <2> QED BY <1>1, <1>2, <2>2, FundsFacts
<1> QED
  BY <1>1, <1>2, CreateFacts, FundsFacts, FlagsFacts, PriorityFacts,
     BeneficiariesFacts, AllocationsFacts, EndOfPlanFacts DEF PlanNext

-----------------------------------------------------------------------------
(* Claims. *)

(* The claim records new has more than old are all of the plan p.          *)
OnlyNewClaims(old, new, p) ==
  /\ \A key \in DOMAIN old : key \in DOMAIN new /\ new[key] = old[key]
  /\ \A key \in DOMAIN new \ DOMAIN old : key[1] = p

(* A claim under a key not taken yet leaves the others as they were. *)
LEMMA NewClaim ==
  ASSUME NEW old, NEW mid, NEW p, NEW email, NEW record, OnlyNewClaims(old, mid, p),
         ClaimKey(p, email) \notin DOMAIN mid
  PROVE  OnlyNewClaims(old, Put(mid, ClaimKey(p, email), record), p)
<1> DEFINE key == ClaimKey(p, email)
           new == Put(mid, key, record)
<1>1. key[1] = p
  BY DEF ClaimKey
<1> HIDE DEF key
<1>2. DOMAIN new = DOMAIN mid \cup {key}
  BY DEF Put
<1>3. \A k \in DOMAIN mid : k # key => new[k] = mid[k]
  BY DEF Put
<1>4. key \notin DOMAIN mid
  BY DEF key
<1> HIDE DEF new
<1>5. OnlyNewClaims(old, new, p)
  BY <1>1, <1>2, <1>3, <1>4 DEF OnlyNewClaims
<1> QED BY <1>5 DEF new, key

(* What claims are granted is taken off the amount of their plan.          *)
SameSum(plan, records, new, more) ==
  IsFiniteSet(DOMAIN records) =>
    /\ IsFiniteSet(DOMAIN more) /\ Granted(more) \in Int
    /\ new.total_amount + Granted(more) = plan.total_amount + Granted(records)

(* A share is never more than the amount it is a share of.                 *)
LEMMA ShareBound ==
  ASSUME NEW amount \in Nat, NEW bp \in 1..FULL_ALLOCATION
  PROVE  Share(amount, bp) \in Nat /\ Share(amount, bp) <= amount
<1>1. bp \in Nat /\ FULL_ALLOCATION - bp \in Nat /\ FULL_ALLOCATION \in Nat
  BY FullAllocation
<1>2. amount * bp \in Nat /\ amount * (FULL_ALLOCATION - bp) \in Nat
  BY <1>1, NatProduct
<1>3. amount * FULL_ALLOCATION = amount * bp + amount * (FULL_ALLOCATION - bp)
  BY <1>1
<1> DEFINE product == amount * bp
<1>4. product <= amount * FULL_ALLOCATION
  BY <1>2, <1>3 DEF FULL_ALLOCATION
<1> HIDE DEF product
<1>5. product \in Nat
  BY <1>2 DEF product
<1>6. product \div FULL_ALLOCATION \in Nat /\ product \div FULL_ALLOCATION <= amount
  BY <1>4, <1>5 DEF FULL_ALLOCATION
<1> QED BY <1>6 DEF Share, product

(* No entry of a batch is paid more than the plan holds.                   *)
LEMMA BatchPayoutBound ==
  ASSUME NEW plan \in Plan, NEW i \in 1..Len(plan.beneficiaries)
  PROVE  BatchPayout(plan, i) \in Nat /\ BatchPayout(plan, i) <= plan.total_amount
<1>1. plan.beneficiaries \in Seq(Beneficiary) /\ plan.total_amount \in Nat
  BY AmountAssumption DEF Plan
<1>2. plan.beneficiaries[i] \in Beneficiary
  BY <1>1
<1>3. plan.beneficiaries[i].allocation_bp \in 1..FULL_ALLOCATION
  BY <1>2 DEF Beneficiary
<1> QED BY <1>1, <1>3, ShareBound DEF BatchPayout

(* Neither is a single claimant.                                           *)
LEMMA PayoutBound ==
  ASSUME NEW plan \in Plan, NEW i \in 1..Len(plan.beneficiaries)
  PROVE  /\ CalculateWaterfallPayout(plan, i) \in Nat
         /\ CalculateWaterfallPayout(plan, i) <= plan.total_amount
<1>1. BatchPayout(plan, i) \in Nat /\ plan.total_amount \in Nat
  BY BatchPayoutTyped, AmountAssumption DEF Plan
<1> QED BY <1>1 DEF CalculateWaterfallPayout, Least, BatchPayout

(* Taking a payout off a plan and recording it keeps the sum.              *)
LEMMA GrantKeepsSum ==
  ASSUME NEW plan \in Plan, NEW left \in Plan, NEW payout \in Nat,
         payout <= plan.total_amount, left.total_amount = plan.total_amount - payout,
         NEW records \in Maps(Nat \X HashedEmail, ClaimRecord),
         NEW key \in Nat \X HashedEmail, key \notin DOMAIN records,
         NEW record \in ClaimRecord, record.payout = payout
  PROVE  SameSum(plan, records, left, Put(records, key, record))
<1> SUFFICES ASSUME IsFiniteSet(DOMAIN records)
             PROVE  /\ IsFiniteSet(DOMAIN Put(records, key, record))
                    /\ Granted(Put(records, key, record)) \in Int
                    /\ left.total_amount + Granted(Put(records, key, record))
                         = plan.total_amount + Granted(records)
  BY DEF SameSum
<1>1. /\ IsFiniteSet(DOMAIN Put(records, key, record))
      /\ Granted(Put(records, key, record)) = Granted(records) + payout
  BY GrantAddsUp
<1>2. Granted(records) \in Int
  BY PayoutsAddUp
<1>3. plan.total_amount \in Nat
  BY AmountAssumption DEF Plan
<1> QED BY <1>1, <1>2, <1>3

(* Paying claims of an active plan keeps to the facts. *)
LEMMA GrantFacts ==
  ASSUME TypeOK, NEW p \in DOMAIN plans, NEW plan \in Plan, plans[p].is_active,
         plan.owner = plans[p].owner, plan.total_loaned = plans[p].total_loaned,
         plans' = [plans EXCEPT ![p] = plan], OnlyNewClaims(claims, claims', p),
         UNCHANGED <<triggers, token>>,
         SameSum(plans[p], claims, plan, claims')
  PROVE  StepFacts
<1>1. Compatible(p, plans[p], plan)
  BY PlanAmounts DEF Compatible
<1>2. ClaimsKept
  BY DEF ClaimsKept, OnlyNewClaims
<1>3. EscrowKept
  <2>1. plan.total_amount \in Nat /\ plans[p].total_amount \in Nat /\ token[Contract] \in Nat
    <3>1. plans[p].total_amount \in Nat
      BY PlanAmounts
    <3>2. plan.total_amount \in Nat
      BY AmountAssumption DEF Plan
    <3>3. token[Contract] \in Nat
      BY DEF TypeOK
    <3> QED BY <3>1, <3>2, <3>3
  <2>2. FiniteClaims => Granted(claims) \in Int
    BY GrantsAddUp
  <2>3. Granted(claims)' = Granted(claims')
    BY DEF Granted, Payouts
  <2>4. FiniteClaims =>
          /\ FiniteClaims' /\ Granted(claims') \in Int
          /\ plan.total_amount + Granted(claims') = plans[p].total_amount + Granted(claims)
    BY DEF SameSum, FiniteClaims
  <2>5. FiniteClaims => /\ FiniteClaims'
                        /\ Granted(claims)' \in Int /\ token'[Contract] \in Int
                        /\ token'[Contract] - plan.total_amount - Granted(claims)'
                             >= token[Contract] - plans[p].total_amount - Granted(claims)
    BY <2>1, <2>2, <2>3, <2>4
  <2> QED BY <2>5, EscrowEdit
<1> QED BY <1>1, <1>2, <1>3, EditKeeps DEF StepFacts

(* A single claim keeps to the facts. *)
LEMMA SingleClaimFacts ==
  ASSUME TypeOK, NEW p \in Nat, NEW claimer \in Address, NEW email \in Email, NEW code,
         ClaimInheritancePlan(claimer, p, email, code)
  PROVE  StepFacts
<1> DEFINE old    == plans[p].beneficiaries
           i      == FirstMatch(plans[p], email, code)
           payout == CalculateWaterfallPayout(plans[p], i)
           bens   == [old EXCEPT ![i].is_claimed = TRUE]
           left   == SaturatingSub(plans[p].total_amount, payout)
           plan   == [plans[p] EXCEPT !.beneficiaries = bens, !.total_amount = left]
           record == [beneficiary_index |-> i, payout |-> payout]
<1>1. /\ p \in DOMAIN plans /\ plans[p] \in Plan /\ plans[p].is_active
      /\ UNCHANGED <<triggers, token>>
  BY DEF ClaimInheritancePlan, Claimable, PlanExists, TypeOK
<1>2. plans' = [plans EXCEPT ![p] = plan]
  BY DEF ClaimInheritancePlan
<1>3. plan.owner = plans[p].owner /\ plan.total_loaned = plans[p].total_loaned
  <2> HIDE DEF bens, left
  <2> QED BY <1>1 DEF Plan
<1>4. OnlyNewClaims(claims, claims', p)
  <2>1. claims' = Put(claims, ClaimKey(p, email), record)
    BY DEF ClaimInheritancePlan
  <2>2. ClaimKey(p, email) \notin DOMAIN claims
    BY DEF ClaimInheritancePlan, HasClaimed
  <2>3. OnlyNewClaims(claims, claims, p)
    BY DEF OnlyNewClaims
  <2> HIDE DEF record
  <2> QED BY <2>1, <2>2, <2>3, NewClaim
<1>5. plan \in Plan
  <2>1. TypeOK'
    BY SingleClaimTyped
  <2> HIDE DEF plan
  <2>2. plans'[p] = plan /\ p \in DOMAIN plans'
    BY <1>1, <1>2 DEF TypeOK
  <2> QED BY <2>1, <2>2 DEF TypeOK
<1>6. i \in 1..Len(old)
  BY <1>1, FirstMatchTyped DEF ClaimInheritancePlan
<1>7. /\ payout \in Nat /\ payout <= plans[p].total_amount
      /\ plans[p].total_amount \in Nat
  BY <1>1, <1>6, PayoutBound, PlanAmounts
<1>8. plan.total_amount = left
  <2> HIDE DEF bens, left
  <2> QED BY <1>1 DEF Plan
<1>9. left = plans[p].total_amount - payout
  <2> HIDE DEF payout
  <2> QED BY <1>7 DEF SaturatingSub
<1>10. record \in ClaimRecord /\ record.payout = payout
  <2> HIDE DEF payout, i
  <2> QED BY <1>6, <1>7 DEF ClaimRecord
<1>11. claims' = Put(claims, ClaimKey(p, email), record) /\ ClaimKey(p, email) \notin DOMAIN claims
  BY DEF ClaimInheritancePlan, HasClaimed
<1>12. ClaimKey(p, email) \in Nat \X HashedEmail
  BY ClaimKeyTyped
<1> HIDE DEF plan, record, payout, left
<1>13. SameSum(plans[p], claims, plan, claims')
  BY <1>1, <1>5, <1>7, <1>8, <1>9, <1>10, <1>11, <1>12, GrantsAddUp, GrantKeepsSum
<1> QED BY <1>1, <1>2, <1>3, <1>4, <1>5, <1>13, GrantFacts

(* A batch of claims keeps to the facts. *)
LEMMA BatchClaimFacts ==
  ASSUME TypeOK, NEW p \in Nat, NEW entries \in Seq(EntryRecord), BatchClaim(p, entries)
  PROVE  StepFacts
<1> DEFINE SamePlan(x) == /\ x.owner = plans[p].owner
                          /\ x.total_loaned = plans[p].total_loaned
           S == {b \in Book : /\ SamePlan(b.plan) /\ OnlyNewClaims(claims, b.claims, p)
                              /\ SameSum(plans[p], claims, b.plan, b.claims)}
           end == BookAfterClaims(p, entries)
<1>1. /\ p \in DOMAIN plans /\ plans[p] \in Plan /\ plans[p].is_active
      /\ UNCHANGED <<triggers, token>>
  BY DEF BatchClaim, Claimable, PlanExists, TypeOK
<1>2. plans' = [plans EXCEPT ![p] = end.plan] /\ claims' = end.claims
  BY DEF BatchClaim
<1>3. KeptByClaims(S, p, entries)
  <2> SUFFICES ASSUME NEW book \in S, NEW n \in 1..Len(entries)
               PROVE  ClaimOrSkip(book, p, entries[n]) \in S
    BY DEF KeptByClaims
  <2> DEFINE entry == entries[n]
  <2>1. entry \in EntryRecord /\ book \in Book
    OBVIOUS
  <2> HIDE DEF entry
  <2>2. ClaimOrSkip(book, p, entry) \in Book
    BY <2>1, ClaimOrSkipTyped
  <2>3. CASE ~CanClaimInBatch(book, p, entry)
    BY <2>3 DEF ClaimOrSkip, entry
  <2>4. CASE CanClaimInBatch(book, p, entry)
    <3> DEFINE i      == FirstMatch(book.plan, entry.email, entry.claim_code)
               payout == BatchPayout(book.plan, i)
               left   == SaturatingSub(book.plan.total_amount, payout)
               plan   == [book.plan EXCEPT !.total_amount = left]
               record == [beneficiary_index |-> i, payout |-> payout]
               more   == Put(book.claims, ClaimKey(p, entry.email), record)
    <3>1. ClaimOrSkip(book, p, entry) = [plan |-> plan, claims |-> more]
      BY <2>4 DEF ClaimOrSkip
    <3>2. SamePlan(plan)
      <4>1. book.plan \in Plan /\ SamePlan(book.plan)
        BY <2>1 DEF Book
      <4> HIDE DEF left
      <4> QED BY <4>1 DEF Plan
    <3>3. OnlyNewClaims(claims, more, p)
      <4>1. OnlyNewClaims(claims, book.claims, p)
        OBVIOUS
      <4>2. ClaimKey(p, entry.email) \notin DOMAIN book.claims
        BY <2>4 DEF CanClaimInBatch
      <4> HIDE DEF record
      <4> QED BY <4>1, <4>2, NewClaim
    <3>4. SameSum(plans[p], claims, plan, more)
      <4>1. /\ book.plan \in Plan /\ book.claims \in Maps(Nat \X HashedEmail, ClaimRecord)
            /\ SameSum(plans[p], claims, book.plan, book.claims)
        BY <2>1 DEF Book
      <4>2. i \in 1..Len(book.plan.beneficiaries)
        BY <2>4, <4>1, FirstMatchTyped DEF CanClaimInBatch
      <4>3. /\ payout \in Nat /\ payout <= book.plan.total_amount
            /\ book.plan.total_amount \in Nat
        BY <4>1, <4>2, BatchPayoutBound, AmountAssumption DEF Plan
      <4>4. plan \in Plan
        <5>1. left \in 0..U64Max
          BY <4>1, <4>3, LessAmountTyped
        <5> HIDE DEF left
        <5> QED BY <4>1, <5>1 DEF Plan
      <4>5. plan.total_amount = left
        <5> HIDE DEF left
        <5> QED BY <4>1 DEF Plan
      <4>6. left = book.plan.total_amount - payout
        <5> HIDE DEF payout
        <5> QED BY <4>3 DEF SaturatingSub
      <4>7. record \in ClaimRecord /\ record.payout = payout
        <5> HIDE DEF payout, i
        <5> QED BY <4>2, <4>3 DEF ClaimRecord
      <4>8. /\ ClaimKey(p, entry.email) \notin DOMAIN book.claims
            /\ ClaimKey(p, entry.email) \in Nat \X HashedEmail
        BY <2>1, <2>4, ClaimKeyTyped DEF CanClaimInBatch, EntryRecord
      <4> HIDE DEF plan, record, payout, left
      <4>9. SameSum(book.plan, book.claims, plan, more)
        BY <4>1, <4>3, <4>4, <4>5, <4>6, <4>7, <4>8, GrantKeepsSum
      <4> QED BY <4>1, <4>9 DEF SameSum
    <3> HIDE DEF plan, more
    <3>5. ClaimOrSkip(book, p, entry) \in S
      BY <2>2, <3>1, <3>2, <3>3, <3>4
    <3> QED BY <3>5 DEF entry
  <2> QED BY <2>3, <2>4
<1>4. [plan |-> plans[p], claims |-> claims] \in S
  <2>1. claims \in Maps(Nat \X HashedEmail, ClaimRecord)
    BY MapsAreMaps DEF TypeOK
  <2>2. OnlyNewClaims(claims, claims, p)
    BY DEF OnlyNewClaims
  <2>3. SameSum(plans[p], claims, plans[p], claims)
    BY GrantsAddUp DEF SameSum, FiniteClaims
  <2> QED BY <1>1, <2>1, <2>2, <2>3 DEF Book
<1>5. end \in S
  <2>1. Len(entries) \in Nat
    OBVIOUS
  <2> HIDE DEF S
  <2> QED BY <1>3, <1>4, <2>1, BatchClaimRule
<1> HIDE DEF end
<1>6. /\ end.plan \in Plan /\ SamePlan(end.plan) /\ OnlyNewClaims(claims, end.claims, p)
      /\ SameSum(plans[p], claims, end.plan, end.claims)
  BY <1>5 DEF Book
<1> QED BY <1>1, <1>2, <1>6, GrantFacts

(* All claims keep to the facts. *)
LEMMA ClaimFacts == TypeOK /\ ClaimNext => StepFacts
<1> SUFFICES ASSUME TypeOK, NEW p \in PlanId,
               \/ \E e \in ClaimEntry :
                    ClaimInheritancePlan(e.claimer, p, e.email, e.claim_code)
               \/ \E entries \in ClaimBatch : BatchClaim(p, entries)
             PROVE StepFacts
  BY DEF ClaimNext
<1>1. p \in Nat
  BY ArgumentAssumption DEF PlanId
<1>2. \A e \in ClaimEntry : e \in EntryRecord
  BY ArgumentAssumption DEF EntryRecord
<1>3. \A list \in ClaimBatch : list \in Seq(EntryRecord)
  BY ArgumentAssumption DEF EntryRecord
<1>4. ASSUME NEW e \in ClaimEntry,
             ClaimInheritancePlan(e.claimer, p, e.email, e.claim_code)
      PROVE  StepFacts
  <2>1. e.claimer \in Address /\ e.email \in Email
    BY <1>2 DEF EntryRecord
  <2> QED BY <1>1, <1>4, <2>1, SingleClaimFacts
<1>5. ASSUME NEW entries \in ClaimBatch, BatchClaim(p, entries) PROVE StepFacts
  BY <1>1, <1>3, <1>5, BatchClaimFacts
<1> QED BY <1>4, <1>5

-----------------------------------------------------------------------------
(* Triggers. *)

(* A trigger record and its amounts have their types. *)
LEMMA InfoTyped ==
  ASSUME TypeOK, NEW q \in DOMAIN triggers
  PROVE  /\ triggers[q] \in TriggerInfo
         /\ triggers[q].recalled_amount \in Nat /\ triggers[q].settled_amount \in Nat
<1>1. triggers[q] \in TriggerInfo
  BY DEF TypeOK, IsMap
<1> QED BY <1>1 DEF TriggerInfo

(* Triggering a plan keeps to the facts. *)
LEMMA TriggerFacts ==
  ASSUME TypeOK, NEW p, NEW by, PlanExists(p), Trigger(p, by)
  PROVE  StepFacts
<1> DEFINE plan == [plans[p] EXCEPT !.is_lendable = FALSE]
           info == NewTriggerInfo(p, by)
<1>1. /\ p \in DOMAIN plans /\ plans[p] \in Plan /\ plans[p].is_active
      /\ p \notin DOMAIN triggers /\ plans[p].total_loaned \in Nat
  BY PlanAmounts DEF PlanExists, TypeOK, Trigger, Triggered
<1>2. plan \in Plan /\ plan.owner = plans[p].owner /\ plan.is_active
      /\ plan.total_loaned = plans[p].total_loaned
      /\ plan.total_amount = plans[p].total_amount
  BY <1>1 DEF Plan
<1>3. plans' = [plans EXCEPT ![p] = plan] /\ triggers' = Put(triggers, p, info)
  BY DEF Trigger
<1>4. info.original_loaned = plans[p].total_loaned /\ info.recalled_amount = 0
      /\ info.settled_amount = 0
  BY DEF NewTriggerInfo
<1> HIDE DEF plan, info
<1>5. \A q \in DOMAIN plans : plans'[q] = IF q = p THEN plan ELSE plans[q]
  BY <1>3 DEF TypeOK
<1>6. /\ DOMAIN triggers' = DOMAIN triggers \cup {p} /\ triggers'[p] = info
      /\ \A q \in DOMAIN triggers : triggers'[q] = triggers[q]
  BY <1>1, <1>3 DEF Put
<1>7. PlansKept
  <2>1. DOMAIN plans' = DOMAIN plans
    BY <1>3 DEF TypeOK
  <2> QED BY <1>1, <1>2, <1>5, <2>1, PlanAmounts DEF PlansKept
<1>8. ClaimsKept
  BY DEF Trigger, otherThanTrigger, claimVars, ClaimsKept
<1>9. TriggersKept
  <2>1. ASSUME NEW q \in DOMAIN triggers, PlanExists(q) PROVE Accounted(q)' >= Accounted(q)
    <3>1. plans'[q].total_loaned = plans[q].total_loaned
      BY <1>2, <1>5, <2>1 DEF PlanExists
    <3>2. Accounted(q) \in Nat
      BY <2>1, InfoTyped, PlanAmounts DEF Accounted, PlanExists
    <3>3. Accounted(q)' = Accounted(q)
      BY <1>6, <3>1 DEF Accounted
    <3> QED BY <3>2, <3>3
  <2>2. Accounted(p)' = plans[p].total_loaned
    BY <1>1, <1>2, <1>4, <1>5, <1>6 DEF Accounted
  <2>3. triggers'[p].original_loaned <= Accounted(p)'
    BY <1>1, <1>4, <1>6, <2>2
  <2> QED BY <1>1, <1>6, <2>1, <2>3, InfoTyped DEF TriggersKept, PlanExists
<1>10. EscrowKept
  <2>1. plan.total_amount <= plans[p].total_amount /\ UNCHANGED <<claims, token>>
    BY <1>1, <1>2, PlanAmounts DEF Trigger, otherThanTrigger, claimVars
  <2> QED BY <1>1, <1>2, <1>3, <2>1, EscrowSame
<1> QED BY <1>7, <1>8, <1>9, <1>10 DEF StepFacts

(* Changing a triggered plan and accounting for its loans keeps to the facts. *)
LEMMA RecallKeeps ==
  ASSUME TypeOK, NEW p \in DOMAIN plans, p \in DOMAIN triggers,
         NEW plan \in Plan, NEW info \in TriggerInfo,
         plans' = [plans EXCEPT ![p] = plan], triggers' = [triggers EXCEPT ![p] = info],
         UNCHANGED otherThanTrigger,
         plan.owner = plans[p].owner, plan.is_active = plans[p].is_active,
         plan.total_amount <= plans[p].total_amount,
         info.triggered_at = triggers[p].triggered_at,
         info.original_loaned = triggers[p].original_loaned,
         info.recalled_amount >= triggers[p].recalled_amount,
         info.settled_amount >= triggers[p].settled_amount,
         info.recalled_amount + info.settled_amount + plan.total_loaned >= Accounted(p)
  PROVE  StepFacts
<1>1. /\ DOMAIN plans' = DOMAIN plans
      /\ \A q \in DOMAIN plans : plans'[q] = IF q = p THEN plan ELSE plans[q]
  BY DEF TypeOK
<1>2. /\ DOMAIN triggers' = DOMAIN triggers
      /\ \A q \in DOMAIN triggers : triggers'[q] = IF q = p THEN info ELSE triggers[q]
  BY DEF TypeOK, IsMap
<1>3. PlansKept
  BY <1>1, PlanAmounts DEF PlansKept
<1>4. ClaimsKept
  BY DEF ClaimsKept, otherThanTrigger, claimVars
<1>5. TriggersKept
  <2>1. ASSUME NEW q \in DOMAIN triggers, PlanExists(q) PROVE Accounted(q)' >= Accounted(q)
    <3>1. CASE q = p
      BY <1>1, <1>2, <3>1 DEF Accounted
    <3>2. CASE q # p
      <4>1. Accounted(q) \in Nat
        BY <2>1, InfoTyped, PlanAmounts DEF Accounted, PlanExists
      <4>2. Accounted(q)' = Accounted(q)
        BY <1>1, <1>2, <2>1, <3>2 DEF Accounted, PlanExists
      <4> QED BY <4>1, <4>2
    <3> QED BY <3>1, <3>2
  <2> QED BY <1>2, <2>1, InfoTyped DEF TriggersKept
<1>6. EscrowKept
  BY EscrowSame DEF otherThanTrigger, claimVars
<1> QED BY <1>3, <1>4, <1>5, <1>6 DEF StepFacts

(* Recalls and settlements keep to the facts. *)
LEMMA RecallFacts ==
  ASSUME TypeOK, NEW p, NEW caller,
         \/ \E amount \in RecallAmount : RecallLoan(caller, p, amount)
         \/ LiquidationFallback(caller, p)
  PROVE  StepFacts
<1>1. /\ p \in DOMAIN plans /\ p \in DOMAIN triggers /\ plans[p] \in Plan
      /\ plans[p].total_amount \in Nat /\ plans[p].total_loaned \in Nat
      /\ triggers[p] \in TriggerInfo
      /\ triggers[p].recalled_amount \in Nat /\ triggers[p].settled_amount \in Nat
  BY InfoTyped, PlanAmounts DEF RecallLoan, LiquidationFallback, PlanExists, Triggered, TypeOK
<1>2. ASSUME NEW amount \in RecallAmount, RecallLoan(caller, p, amount) PROVE StepFacts
  <2> DEFINE plan == [plans[p] EXCEPT !.total_loaned = @ - amount]
             info == [triggers[p] EXCEPT !.recall_attempted = TRUE,
                                         !.recalled_amount = @ + amount]
  <2>1. amount \in Nat /\ amount <= plans[p].total_loaned
    BY <1>2, ArgumentAssumption DEF RecallLoan
  <2>2. /\ plans[p].total_loaned - amount \in Nat
        /\ triggers[p].recalled_amount + amount \in Nat
    BY <1>1, <2>1
  <2>3. /\ plan \in Plan /\ plan.owner = plans[p].owner
        /\ plan.is_active = plans[p].is_active
        /\ plan.total_amount = plans[p].total_amount
        /\ plan.total_loaned = plans[p].total_loaned - amount
    BY <1>1, <2>2 DEF Plan
  <2>4. /\ info \in TriggerInfo /\ info.triggered_at = triggers[p].triggered_at
        /\ info.original_loaned = triggers[p].original_loaned
        /\ info.recalled_amount = triggers[p].recalled_amount + amount
        /\ info.settled_amount = triggers[p].settled_amount
    BY <1>1, <2>2 DEF TriggerInfo
  <2>5. /\ plans' = [plans EXCEPT ![p] = plan] /\ triggers' = [triggers EXCEPT ![p] = info]
        /\ UNCHANGED otherThanTrigger
    BY <1>2 DEF RecallLoan
  <2> HIDE DEF plan, info
  <2>6. /\ plan.total_amount <= plans[p].total_amount
        /\ info.recalled_amount >= triggers[p].recalled_amount
        /\ info.settled_amount >= triggers[p].settled_amount
        /\ info.recalled_amount + info.settled_amount + plan.total_loaned >= Accounted(p)
    BY <1>1, <2>1, <2>3, <2>4 DEF Accounted
  <2> QED BY <1>1, <2>3, <2>4, <2>5, <2>6, RecallKeeps
<1>3. CASE LiquidationFallback(caller, p)
  <2> DEFINE loaned == plans[p].total_loaned
             left == SaturatingSub(plans[p].total_amount, loaned)
             plan == [plans[p] EXCEPT !.total_amount = left, !.total_loaned = 0]
             info == [triggers[p] EXCEPT !.liquidation_triggered = TRUE,
                                         !.settled_amount = @ + loaned]
  <2>1. left \in 0..U64Max /\ left <= plans[p].total_amount
    BY <1>1, LessAmountTyped DEF SaturatingSub
  <2>2. triggers[p].settled_amount + loaned \in Nat
    BY <1>1
  <2>3. /\ plan \in Plan /\ plan.owner = plans[p].owner
        /\ plan.is_active = plans[p].is_active
        /\ plan.total_amount = left /\ plan.total_loaned = 0
    <3> HIDE DEF left
    <3> QED BY <1>1, <2>1 DEF Plan
  <2>4. /\ info \in TriggerInfo /\ info.triggered_at = triggers[p].triggered_at
        /\ info.original_loaned = triggers[p].original_loaned
        /\ info.recalled_amount = triggers[p].recalled_amount
        /\ info.settled_amount = triggers[p].settled_amount + loaned
    BY <1>1, <2>2 DEF TriggerInfo
  <2>5. /\ plans' = [plans EXCEPT ![p] = plan] /\ triggers' = [triggers EXCEPT ![p] = info]
        /\ UNCHANGED otherThanTrigger
    BY <1>3 DEF LiquidationFallback
  <2> HIDE DEF plan, info
  <2>6. /\ plan.total_amount <= plans[p].total_amount
        /\ info.recalled_amount >= triggers[p].recalled_amount
        /\ info.settled_amount >= triggers[p].settled_amount
        /\ info.recalled_amount + info.settled_amount + plan.total_loaned >= Accounted(p)
    BY <1>1, <2>1, <2>3, <2>4 DEF Accounted
  <2> QED BY <1>1, <2>3, <2>4, <2>5, <2>6, RecallKeeps
<1> QED BY <1>2, <1>3

(* All calls on triggers keep to the facts. *)
LEMMA TriggersFacts == TypeOK /\ TriggerNext => StepFacts
<1> SUFFICES ASSUME TypeOK, NEW p \in PlanId,
               \/ \E caller \in TriggerCaller : TriggerInheritance(caller, p)
               \/ AutoTriggerCheck(p)
               \/ \E caller \in Address : ConfigStep(caller, p)
               \/ \E caller \in Address, amount \in RecallAmount :
                    RecallLoan(caller, p, amount)
               \/ \E caller \in Address : LiquidationFallback(caller, p)
             PROVE StepFacts
  BY DEF TriggerNext, ConfigStep
<1>1. ASSUME NEW caller \in TriggerCaller, TriggerInheritance(caller, p) PROVE StepFacts
  BY <1>1, TriggerFacts DEF TriggerInheritance
<1>2. CASE AutoTriggerCheck(p)
  BY <1>2, TriggerFacts DEF AutoTriggerCheck
<1>3. ASSUME NEW caller \in Address, ConfigStep(caller, p) PROVE StepFacts
  <2>1. UNCHANGED <<plans, triggers, otherThanTrigger>>
    BY <1>3 DEF ConfigStep, SetTriggerConditions, AddTimeTrigger, AddInactivityTrigger,
       AddOracleTrigger, AddHealthTrigger, RecordActivity, SubmitOracleTrigger,
       SubmitHealthTrigger, SaveConfig
  <2> QED BY <2>1, OtherFacts DEF otherThanTrigger, claimVars
<1> QED BY <1>1, <1>2, <1>3, RecallFacts

-----------------------------------------------------------------------------
(* Every step keeps to the facts. *)

(* Every step keeps to the facts. *)
LEMMA NextFacts == TypeOK /\ [Next]_vars => StepFacts
<1> SUFFICES ASSUME TypeOK, [Next]_vars PROVE StepFacts
  OBVIOUS
<1>1. CASE Tick
  BY <1>1, OtherFacts DEF Tick, Advance, claimVars
<1>2. CASE UNCHANGED vars
  BY <1>2, OtherFacts DEF vars, claimVars
<1> QED BY <1>1, <1>2, AdminFacts, PlanFacts, ClaimFacts, TriggersFacts, EmergencyFacts DEF Next

-----------------------------------------------------------------------------
(* The theorems. *)

(* A claim, once granted, is granted for good: its record survives every   *)
(* further claim, batch and change of the beneficiaries.                   *)
THEOREM ClaimsStay == Spec => ClaimsAreFinal
<1>1. TypeOK /\ [Next]_vars =>
        [\A key \in DOMAIN claims : key \in DOMAIN claims' /\ claims'[key] = claims[key]]_vars
  BY NextFacts DEF StepFacts, ClaimsKept
<1> QED BY <1>1, TypesAreKept, PTL DEF Spec, ClaimsAreFinal

(* A plan given up by its owner is never revived, refilled or claimed.     *)
THEOREM DeactivationStays == Spec => DeactivationIsFinal
<1>1. TypeOK /\ TypeOK' /\ [Next]_vars =>
        [\A p \in DOMAIN plans :
           ~plans[p].is_active =>
             /\ ~plans'[p].is_active
             /\ plans'[p].total_amount <= plans[p].total_amount
             /\ \A key \in DOMAIN claims' : key[1] = p => key \in DOMAIN claims]_vars
  BY NextFacts DEF StepFacts, PlansKept, ClaimsKept, PlanExists
<1> QED BY <1>1, TypesAreKept, PTL DEF Spec, DeactivationIsFinal

(* No loan that was out at the trigger drops out of the books: each is     *)
(* recalled, settled, or still counted against the plan.  Inductive        *)
(* together with TypeOK.                                                   *)
THEOREM LoansStayAccounted == Spec => []TriggeredLoansAccounted
<1>1. Init => TriggeredLoansAccounted
  BY DEF Init, EmptyMap, TriggeredLoansAccounted
<1>2. TypeOK /\ TypeOK' /\ TriggeredLoansAccounted /\ [Next]_vars => TriggeredLoansAccounted'
  <2> SUFFICES ASSUME TypeOK, TypeOK', TriggeredLoansAccounted, [Next]_vars,
                      NEW q \in DOMAIN triggers'
               PROVE  PlanExists(q)' /\ triggers'[q].original_loaned <= Accounted(q)'
    BY DEF TriggeredLoansAccounted, Accounted
  <2>1. PlansKept /\ TriggersKept
    BY NextFacts DEF StepFacts
  <2>2. CASE q \in DOMAIN triggers
    <3>1. PlanExists(q) /\ triggers[q].original_loaned <= Accounted(q)
      BY <2>2 DEF TriggeredLoansAccounted, Accounted
    <3>2. Accounted(q)' >= Accounted(q) /\ triggers'[q].original_loaned = triggers[q].original_loaned
      BY <2>1, <2>2, <3>1 DEF TriggersKept
    <3>3. Accounted(q) \in Nat /\ Accounted(q)' \in Nat /\ PlanExists(q)'
      <4>1. Accounted(q) \in Nat
        BY <2>2, <3>1, InfoTyped, PlanAmounts DEF Accounted, PlanExists
      <4>2. PlanExists(q)'
        BY <2>1, <3>1 DEF PlansKept, PlanExists
      <4>3. /\ triggers'[q] \in TriggerInfo /\ plans'[q] \in Plan
        BY <4>2 DEF TypeOK, IsMap, PlanExists
      <4> QED BY <4>1, <4>2, <4>3 DEF TriggerInfo, Plan, Accounted
    <3>4. triggers[q].original_loaned \in Nat
      BY <2>2, InfoTyped DEF TriggerInfo
    <3> QED BY <3>1, <3>2, <3>3, <3>4
  <2>3. CASE q \notin DOMAIN triggers
    BY <2>1, <2>3 DEF TriggersKept, PlansKept, PlanExists
  <2> QED BY <2>2, <2>3
<1> QED BY <1>1, <1>2, TypesAreKept, PTL DEF Spec

(* The escrow covers all plans hold and all claims were granted.           *)
(* Inductive together with TypeOK and the finiteness of the claims.        *)
THEOREM EscrowBacked == Spec => []EscrowBacksPlans
<1> DEFINE Inv == FiniteClaims /\ Uncommitted \in Nat
<1>1. Init => Inv
  <2> SUFFICES ASSUME Init PROVE Inv
    OBVIOUS
  <2>1. DOMAIN plans = {} /\ DOMAIN claims = {} /\ token[Contract] = 0
    BY DEF Init, EmptyMap
  <2>2. FiniteClaims
    BY <2>1, FS_EmptySet DEF FiniteClaims
  <2>3. DOMAIN Amounts = {} /\ DOMAIN Payouts(claims) = {}
    BY <2>1 DEF Amounts, Payouts
  <2>4. Total(Amounts) = 0 /\ Granted(claims) = 0
    BY <2>3, TotalOfNothing DEF Granted
  <2> QED BY <2>1, <2>2, <2>4 DEF Uncommitted
<1>2. TypeOK /\ Inv /\ [Next]_vars => Inv'
  <2> SUFFICES ASSUME TypeOK, Inv, [Next]_vars PROVE Inv'
    OBVIOUS
  <2>1. FiniteClaims' /\ Uncommitted' \in Int /\ Uncommitted' >= Uncommitted
    BY NextFacts DEF StepFacts, EscrowKept
  <2> QED BY <2>1
<1>3. TypeOK /\ Inv => EscrowBacksPlans
  <2> SUFFICES ASSUME TypeOK, Inv PROVE EscrowBacksPlans
    OBVIOUS
  <2>1. Total(Amounts) \in Int /\ Granted(claims) \in Int /\ token[Contract] \in Int
    BY AmountsAddUp, GrantsAddUp DEF TypeOK
  <2>2. Total(Amounts) + Granted(claims) <= token[Contract]
    BY <2>1 DEF Uncommitted
  <2> QED BY <2>2 DEF EscrowBacksPlans, Amounts, Granted, Payouts
<1> QED BY <1>1, <1>2, <1>3, TypesAreKept, PTL DEF Spec

(* A trigger cannot be undone, repeated or passed on with the plan.        *)
THEOREM TriggerStays == Spec => TriggerIsFinal
<1>1. TypeOK /\ TriggeredLoansAccounted /\ [Next]_vars =>
        [\A p \in DOMAIN triggers :
           /\ p \in DOMAIN triggers'
           /\ triggers'[p].triggered_at = triggers[p].triggered_at
           /\ triggers'[p].original_loaned = triggers[p].original_loaned
           /\ triggers'[p].recalled_amount >= triggers[p].recalled_amount
           /\ triggers'[p].settled_amount >= triggers[p].settled_amount
           /\ plans'[p].owner = plans[p].owner]_vars
  BY NextFacts
  DEF StepFacts, PlansKept, TriggersKept, TriggeredLoansAccounted, Triggered, PlanExists
<1> QED BY <1>1, TypesAreKept, LoansStayAccounted, PTL DEF Spec, TriggerIsFinal
=============================================================================
