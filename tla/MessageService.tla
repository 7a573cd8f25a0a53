--------------------------- MODULE MessageService ---------------------------
(***************************************************************************)
(* The backend's encrypted messages: the data keys and their rotation, the *)
(* messages, and the job that delivers those that are due                  *)
(* (backend/src/secure_messages.rs).  What a message says is left out: it  *)
(* can be read with the key of its version.                                *)
(***************************************************************************)
EXTENDS BackendRequests

CONSTANTS
  UnlockDays,      \* how far ahead messages unlock
  MaxKeys,         \* bound: the keys created
  MaxSealed,       \* bound: the messages created
  MaxDeliveries    \* bound: the deliveries of one message

ASSUME MessageServiceAssumption ==
  /\ UnlockDays \subseteq Nat \ {0}
  /\ {MaxKeys, MaxSealed, MaxDeliveries} \subseteq Nat

VARIABLES
  message_keys, \* table message_encryption_keys: the status of each version
  sealed,       \* table legacy_messages
  deliveries    \* table legacy_message_deliveries: the rows of each message

messageServiceVars == <<requests, message_keys, sealed, deliveries>>

ActiveKeys == {k \in DOMAIN message_keys : message_keys[k] = "active"}
NewestActive == CHOOSE k \in ActiveKeys : \A j \in ActiveKeys : j <= k
-----------------------------------------------------------------------------
(* Ensure_active_key: without one a handler makes one, as a rotation does  *)
(* after it has retired the others.                                        *)
EnsureKey(w) ==
  /\ ActiveKeys = {}
  /\ Begin(w, [stage |-> "key_version", retired |-> {}])
  /\ UNCHANGED <<message_keys, sealed, deliveries>>

(* The UPDATE of rotate_active_key sees the keys that are active now..     *)
RotateStart(w) ==
  /\ Begin(w, [stage |-> "rotate", seen |-> ActiveKeys])
  /\ UNCHANGED <<message_keys, sealed, deliveries>>

HeldKeys == UNION {requests[v].retired : v \in {u \in Worker : At(u, "key_version") \/ At(u, "key_insert")}}

(* .. waits for those that another rotation holds, and looks at them again. *)
RotateRetire(w) ==
  /\ At(w, "rotate")
  /\ requests[w].seen \cap HeldKeys = {}
  /\ Continue(w, [stage |-> "key_version", retired |-> requests[w].seen \cap ActiveKeys])
  /\ UNCHANGED <<message_keys, sealed, deliveries>>

KeyVersion(w) ==
  /\ At(w, "key_version")
  /\ Continue(w, [stage |-> "key_insert", retired |-> requests[w].retired, version |-> Len(message_keys) + 1])
  /\ UNCHANGED <<message_keys, sealed, deliveries>>

Retired(keys, retired) == [k \in DOMAIN keys |-> IF k \in retired THEN "retired" ELSE keys[k]]

(* Faulty: the rotation retires the active keys after it has made its own. *)
RetireLast(retired) ==
  message_keys' = Retired(Append(message_keys, "active"),
                          IF retired = {} THEN {} ELSE 1 .. Len(message_keys) + 1)

CreateKey(retired) == message_keys' = Append(Retired(message_keys, retired), "active")

(* A version that has been taken meanwhile fails the UNIQUE constraint.    *)
KeyCommit(w) ==
  /\ At(w, "key_insert")
  /\ requests[w].version = Len(message_keys) + 1
  /\ requests[w].version <= MaxKeys
  /\ CreateKey(requests[w].retired)
  /\ Finish(w)
  /\ UNCHANGED <<sealed, deliveries>>
-----------------------------------------------------------------------------
SealRead(w, days) ==
  /\ ActiveKeys # {}
  /\ Begin(w, [stage |-> "seal", key |-> NewestActive, unlock_at |-> clock + days])
  /\ UNCHANGED <<message_keys, sealed, deliveries>>

SealInsert(w) ==
  /\ At(w, "seal")
  /\ Len(sealed) < MaxSealed
  /\ sealed' = Append(sealed, [status |-> "pending", key |-> requests[w].key, unlock_at |-> requests[w].unlock_at])
  /\ deliveries' = Append(deliveries, 0)
  /\ Finish(w)
  /\ UNCHANGED message_keys

Due == {m \in DOMAIN sealed : sealed[m].status = "pending" /\ sealed[m].unlock_at <= clock}

(* One pass of the job, and of the administrator's request for one.        *)
DueScan(w) ==
  /\ Due # {}
  /\ Begin(w, [stage |-> "deliver", rows |-> Due])
  /\ UNCHANGED <<message_keys, sealed, deliveries>>

NextMessage(w, m) ==
  /\ At(w, "deliver")
  /\ m \in requests[w].rows
  /\ IF requests[w].rows = {m} THEN Finish(w) ELSE Continue(w, [requests[w] EXCEPT !.rows = @ \ {m}])

(* The status is not looked at again.                                      *)
DeliverSingle(w, m) ==
  /\ NextMessage(w, m)
  /\ deliveries[m] < MaxDeliveries
  /\ deliveries' = [deliveries EXCEPT ![m] = @ + 1]
  /\ sealed' = [sealed EXCEPT ![m].status = "delivered"]
  /\ UNCHANGED message_keys

DeliverFails(w, m) ==
  /\ NextMessage(w, m)
  /\ sealed' = [sealed EXCEPT ![m].status = "failed"]
  /\ UNCHANGED <<message_keys, deliveries>>
-----------------------------------------------------------------------------
MessageServiceInit ==
  /\ message_keys = <<>>
  /\ sealed = <<>>
  /\ deliveries = <<>>

KeyNext(w) == EnsureKey(w) \/ RotateStart(w) \/ RotateRetire(w) \/ KeyVersion(w) \/ KeyCommit(w)

SealNext(w) == SealInsert(w) \/ \E days \in UnlockDays : SealRead(w, days)

DeliveryNext(w) ==
  DueScan(w) \/ \E m \in DOMAIN sealed : DeliverSingle(w, m) \/ DeliverFails(w, m)

MessageServiceNext ==
  \/ \E w \in Worker : KeyNext(w) \/ SealNext(w) \/ DeliveryNext(w)
  \/ (\E w \in Worker : RollBack(w)) /\ UNCHANGED <<message_keys, sealed, deliveries>>

MessageServiceSpec ==
  RequestsInit /\ MessageServiceInit /\ clock = 1 /\
  [][(MessageServiceNext /\ UNCHANGED clock) \/
     ((\E d \in Steps : Tick(d)) /\ UNCHANGED messageServiceVars)]_<<clock, messageServiceVars>>
-----------------------------------------------------------------------------
(* The state has its type.                                                 *)
MessageServiceTypeOK ==
  /\ message_keys \in Seq({"active", "retired"})
  /\ sealed \in Seq([status : {"pending", "delivered", "failed"}, key : DOMAIN message_keys, unlock_at : Nat])
  /\ deliveries \in Seq(Nat) /\ Len(deliveries) = Len(sealed)

(* Once there is a key the newest one is active: rotations that run at the *)
(* same time, or stop half-way, leave no moment without a key to seal with.*)
NewestKeyIsActive ==
  message_keys # <<>> => message_keys[Len(message_keys)] = "active"
=============================================================================
