--------------------------- MODULE LegacyMessages ---------------------------
(***************************************************************************)
(* The messages an owner leaves with a plan.  Their hash and key reference *)
(* are one content here, and their date of creation, which nothing reads,  *)
(* is left out.                                                            *)
(*                                                                         *)
(* access_legacy_message changes the storage only if it returns Ok, and it *)
(* returns Ok only to a caller the bytes of whose address hash to the      *)
(* e-mail hash of a beneficiary.  No address does, so it has no action:    *)
(* the unlock by date, which only that call performs, never lasts.         *)
(***************************************************************************)
EXTENDS InheritanceState

CONSTANT Content  \* what a message says

BATCH_MESSAGE_LIMIT == 10

VARIABLES
  next_message_id,  \* DataKey::NextMessageId
  messages,         \* DataKey::LegacyMessage
  vault_messages    \* DataKey::VaultMessages

messageVars == <<next_message_id, messages, vault_messages>>

LegacyMessage ==
  [vault_id : Nat, creator : Address, content : Content,
   unlock_timestamp : Nat, is_unlocked : BOOLEAN, is_finalized : BOOLEAN]

MessageInit ==
  /\ next_message_id = 0
  /\ messages = EmptyMap
  /\ vault_messages = EmptyMap

-----------------------------------------------------------------------------

VaultMessagesIn(lists, p) == IF p \in DOMAIN lists THEN lists[p] ELSE << >>

VaultMessages(p) == VaultMessagesIn(vault_messages, p)

CanCreateMessage(creator, params) ==
  OwnedBy(params.vault_id, creator) /\ params.unlock_timestamp > now

NewMessage(creator, params) ==
  [vault_id |-> params.vault_id, creator |-> creator, content |-> params.content,
   unlock_timestamp |-> params.unlock_timestamp, is_unlocked |-> FALSE,
   is_finalized |-> FALSE]

(* Faulty: the list of the vault is begun anew with each message. *)
WithNewList(box, creator, params) ==
  [messages |-> Put(box.messages, box.next, NewMessage(creator, params)),
   lists    |-> Put(box.lists, params.vault_id, <<box.next>>),
   next     |-> box.next + 1]

(* box holds the messages, the lists of the vaults and the next identifier.*)
WithMessage(box, creator, params) ==
  LET p == params.vault_id
  IN  [messages |-> Put(box.messages, box.next, NewMessage(creator, params)),
       lists    |-> Put(box.lists, p, Append(VaultMessagesIn(box.lists, p), box.next)),
       next     |-> box.next + 1]

Box == [messages |-> messages, lists |-> vault_messages, next |-> next_message_id]

StoreBox(box) ==
  /\ messages' = box.messages
  /\ vault_messages' = box.lists
  /\ next_message_id' = box.next

(* The call asks for nobody's signature: creator is an argument.           *)
CreateLegacyMessage(creator, params) ==
  /\ CanCreateMessage(creator, params)
  /\ StoreBox(WithMessage(Box, creator, params))

(* Messages that cannot be created are counted and skipped. *)
BoxAfterBatch(creator, list) ==
  LET after[k \in 0..Len(list)] ==
        IF k = 0 THEN Box
        ELSE IF CanCreateMessage(creator, list[k])
             THEN WithMessage(after[k - 1], creator, list[k])
             ELSE after[k - 1]
  IN  after[Len(list)]

BatchCreateMessages(creator, list) ==
  /\ Len(list) <= BATCH_MESSAGE_LIMIT
  /\ StoreBox(BoxAfterBatch(creator, list))

IsCreator(id, creator) == id \in DOMAIN messages /\ messages[id].creator = creator

(* The new unlock date may lie in the past, and the vault in the           *)
(* parameters is ignored.                                                  *)
UpdateLegacyMessage(creator, id, params) ==
  /\ IsCreator(id, creator)
  /\ ~messages[id].is_finalized
  /\ ~messages[id].is_unlocked
  /\ messages' = [messages EXCEPT ![id].content = params.content,
                                  ![id].unlock_timestamp = params.unlock_timestamp]
  /\ UNCHANGED <<next_message_id, vault_messages>>

FinalizeLegacyMessage(creator, id) ==
  /\ IsCreator(id, creator)
  /\ ~messages[id].is_finalized
  /\ messages' = [messages EXCEPT ![id].is_finalized = TRUE]
  /\ UNCHANGED <<next_message_id, vault_messages>>

(* Faulty: the next message takes the identifier of the one deleted. *)
DeleteAndReuseId(creator, id) ==
  LET p == messages[id].vault_id
  IN  /\ IsCreator(id, creator)
      /\ ~messages[id].is_finalized
      /\ messages' = Drop(messages, id)
      /\ vault_messages' =
           Put(vault_messages, p, Without(VaultMessages(p), {id}))
      /\ next_message_id' = next_message_id - 1

(* Faulty: a finalized message is deleted like any other. *)
DeleteFinalized(creator, id) ==
  LET p == messages[id].vault_id
  IN  /\ IsCreator(id, creator)
      /\ messages' = Drop(messages, id)
      /\ vault_messages' =
           Put(vault_messages, p, Without(VaultMessages(p), {id}))
      /\ UNCHANGED next_message_id

(* The creator keeps this right when the plan has changed hands. *)
DeleteLegacyMessage(creator, id) ==
  LET p == messages[id].vault_id
  IN  /\ IsCreator(id, creator)
      /\ ~messages[id].is_finalized
      /\ messages' = Drop(messages, id)
      /\ vault_messages' =
           Put(vault_messages, p, Without(VaultMessages(p), {id}))
      /\ UNCHANGED next_message_id

(* Anybody may call it, as often as he likes. *)
UnlockMessagesOnInheritance(p) ==
  /\ Triggered(p)
  /\ messages' = [id \in DOMAIN messages |->
       IF InSeq(VaultMessages(p), id) THEN [messages[id] EXCEPT !.is_unlocked = TRUE]
       ELSE messages[id]]
  /\ UNCHANGED <<next_message_id, vault_messages>>
=============================================================================
