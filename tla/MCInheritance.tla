--------------------------- MODULE MCInheritance ---------------------------
(***************************************************************************)
(* Small instances of InheritanceContract: the values the configurations   *)
(* give to its constants.                                                  *)
(***************************************************************************)
EXTENDS EstateRefinement

CONSTANTS owner, heir, admin_, ann, bob, cid

(* ann and bob have e-mails of different lengths, cid's is as long as ann's. *)
MCEmailLength == [e \in Email |-> IF e = bob THEN 2 ELSE 1]

MCTokens(n) == [a \in Address |-> IF a = owner THEN n ELSE 0]
Tokens150 == MCTokens(150)
Tokens200 == MCTokens(200)

Ben(email, code, bp, priority) ==
  [email |-> email, claim_code |-> code, allocation_bp |-> bp, priority |-> priority]

Halves  == <<Ben(ann, 1, 5000, 1), Ben(bob, 1, 5000, 2)>>
Whole   == <<Ben(ann, 1, 10000, 1)>>
Uneven  == <<Ben(ann, 1, 9000, 1), Ben(bob, 1, 1000, 2)>>

JustHalves == {Halves}
JustWhole  == {Whole}
JustUneven == {Uneven}

Entry(claimer, email) == [claimer |-> claimer, email |-> email, claim_code |-> 1]

HeirClaims == {Entry(heir, ann), Entry(heir, bob)}
AnnBatches == {<<Entry(heir, ann)>>}
BobBatches == {<<Entry(heir, bob)>>}
OwnerClaims == {Entry(owner, ann)}

(* Each claimer of a batch authorizes it once: they are different accounts. *)
OwnerBatches == {<<Entry(heir, bob), Entry(owner, ann)>>}
OwnerEntries == OwnerClaims \cup {Entry(owner, bob)}
HeirBatches == {<<Entry(heir, ann), Entry(owner, bob)>>, <<Entry(owner, bob), Entry(heir, ann)>>,
                <<Entry(owner, bob), Entry(heir, bob)>>}

MoreInputs == {Ben(ann, 1, 5000, 1), Ben(cid, 2, 3000, 2)}
MoreBatches == {<<Ben(ann, 1, 5000, 1), Ben(bob, 1, 6000, 2), Ben(cid, 2, 4000, 1)>>}
SomeAllocations == {<<10000>>, <<4000, 6000>>, <<2000, 3000, 5000>>, <<5000, 4000>>}
SomeIndexSets == {{1, 2}, {2, 3, 9}}

KycBatches == {{owner, heir}}

GuardianLists == {<<heir, admin_>>, <<admin_>>}

ManualOnly == {[conditions |-> {"Manual"}, trigger_date |-> 0,
                inactivity_period |-> 0, oracle |-> None]}
AdminRole == {<<admin_, "Admin">>, <<heir, "Admin">>}
=============================================================================
