------------------------------ MODULE Storage ------------------------------
(***************************************************************************)
(* What the contracts are written with: a persistent map is a function     *)
(* whose domain is the set of keys present, Put and Drop are storage.set   *)
(* and storage.remove, and a token is a function from accounts to balances.*)
(***************************************************************************)
EXTENDS Integers, Sequences, FiniteSets

Fold == INSTANCE Functions

Put(map, key, value) ==
  [k \in DOMAIN map \cup {key} |-> IF k = key THEN value ELSE map[k]]

Drop(map, key) == [k \in DOMAIN map \ {key} |-> map[k]]

EmptyMap == [k \in {} |-> k]

(* What storage.get(key).unwrap_or(default) returns. *)
Stored(map, key, default) == IF key \in DOMAIN map THEN map[key] ELSE default

IsMap(map, Key, Value) ==
  /\ map = [k \in DOMAIN map |-> map[k]]
  /\ DOMAIN map \subseteq Key
  /\ \A k \in DOMAIN map : map[k] \in Value

InSeq(s, e) == \E i \in DOMAIN s : s[i] = e

PushNew(s, e) == IF InSeq(s, e) THEN s ELSE Append(s, e)

(* A list written anew with the elements that are not gone. *)
Without(s, gone) ==
  LET kept[n \in 0..Len(s)] ==
        IF n = 0 THEN << >>
        ELSE IF s[n] \in gone THEN kept[n - 1] ELSE Append(kept[n - 1], s[n])
  IN  kept[Len(s)]

Least(a, b) == IF a <= b THEN a ELSE b

SaturatingSub(a, b) == IF a >= b THEN a - b ELSE 0

(* The sum of the values of a map, or of the elements of a sequence. *)
Total(map) == Fold!SumFunction(map)

(* A transfer of a token; the caller has checked the balance. *)
Transfer(balances, from, to, amount) ==
  [balances EXCEPT ![from] = @ - amount, ![to] = @ + amount]
=============================================================================
