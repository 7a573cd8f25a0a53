----------------------------- MODULE PlanRecords ----------------------------
(***************************************************************************)
(* The inheritance contract with the records it keeps beside the plans:    *)
(* wills, legacy messages and notices.  Their entry points read the plans, *)
(* roles and triggers of InheritanceContract and write only their own      *)
(* storage; the calls of all four are mixed in any order.                  *)
(***************************************************************************)
EXTENDS InheritanceContract, WillRegistry, LegacyMessages, BeneficiaryNotices

CONSTANTS
  MaxVersions,   \* bound: the versions of a will
  MaxMessages,   \* bound: the messages an execution creates
  StoredHash,    \* the hashes stored and linked outside versions
  VersionHash,   \* the hashes of versions
  SignedHash,    \* the hashes signed
  WillList,      \* the wills verified: lists of [hashed_email, allocation_bp]
  Witness,       \* the accounts named as witnesses
  MessageParams, \* [vault_id, content, unlock_timestamp] of messages
  MessageBatch,  \* the lists of messages created at once
  UpdateParams,  \* the parameters of updates
  NoticeIndex,   \* the indices noticed
  AckValue       \* the values of the acknowledgment requirement

ASSUME RecordsAssumption ==
  /\ MaxVersions \in Nat /\ MaxMessages \in Nat
  /\ StoredHash \subseteq WillHash /\ VersionHash \subseteq WillHash
  /\ SignedHash \subseteq WillHash
  /\ \A will \in WillList :
       will \in Seq([hashed_email : Nat, allocation_bp : Nat])
  /\ Witness \subseteq Address
  /\ MessageParams \cup UpdateParams \subseteq
       [vault_id : Nat, content : Content, unlock_timestamp : Nat]
  /\ \A list \in MessageBatch :
       list \in Seq([vault_id : Nat, content : Content, unlock_timestamp : Nat])
  /\ NoticeIndex \subseteq Nat
  /\ AckValue \subseteq BOOLEAN

recordVars == <<willVars, messageVars, noticeVars>>

RecordsInit == Init /\ WillInit /\ MessageInit /\ NoticeInit

WillNext ==
  /\ \E p \in PlanId :
       \/ \E caller \in Address :
            \/ \E hash \in StoredHash :
                 StoreWillHash(caller, p, hash) \/ LinkWillToVault(caller, p, hash)
            \/ /\ Len(VersionsOf(p)) < MaxVersions
               /\ \E hash \in VersionHash : CreateWillVersion(caller, p, hash)
            \/ \E hash \in SignedHash : SignWill(caller, p, hash)
            \/ \E v \in 1..MaxVersions : FinalizeWill(caller, p, v)
            \/ \E witness \in Witness : AddWitness(caller, p, witness)
            \/ SignAsWitness(caller, p)
       \/ \E will \in WillList : VerifyBeneficiaries(p, will)
  /\ UNCHANGED <<messageVars, noticeVars>>

MessageNext ==
  /\ \/ /\ next_message_id < MaxMessages
        /\ \E creator \in Address, params \in MessageParams :
             CreateLegacyMessage(creator, params)
     \/ \E creator \in Address, list \in MessageBatch :
          /\ BoxAfterBatch(creator, list).next <= MaxMessages
          /\ BatchCreateMessages(creator, list)
     \/ \E creator \in Address, id \in DOMAIN messages :
          \/ \E params \in UpdateParams : UpdateLegacyMessage(creator, id, params)
          \/ FinalizeLegacyMessage(creator, id)
          \/ DeleteLegacyMessage(creator, id)
     \/ \E p \in PlanId : UnlockMessagesOnInheritance(p)
  /\ UNCHANGED <<willVars, noticeVars>>

NoticeNext ==
  /\ \E p \in PlanId, caller \in Address :
       \/ \E i \in NoticeIndex :
            NotifyBeneficiary(caller, p, i) \/ AcknowledgeBeneficiaryStatus(p, i)
       \/ \E required \in AckValue : RequireAcknowledgment(caller, p, required)
  /\ UNCHANGED <<willVars, messageVars>>

RecordsNext ==
  \/ Next /\ UNCHANGED recordVars
  \/ (WillNext \/ MessageNext \/ NoticeNext) /\ UNCHANGED vars

RecordsSpec == RecordsInit /\ [][RecordsNext]_<<vars, recordVars>>

-----------------------------------------------------------------------------
(* Type invariant of the records. *)

RecordsTypeOK ==
  /\ IsMap(will_hash, Nat, WillHash)
  /\ IsMap(vault_will, Nat, WillHash)
  /\ IsMap(verification, Nat, BOOLEAN)
  /\ IsMap(will_versions, Nat, Seq(WillVersionInfo))
  /\ IsMap(active_version, Nat, Nat)
  /\ IsMap(will_signature, Nat, WillSignatureProof)
  /\ signature_used \subseteq Nat \X WillHash
  /\ \A f \in will_finalized : f \in Nat \X Nat /\ f[2] \in DOMAIN VersionsOf(f[1])
  /\ IsMap(witnesses, Nat, Seq(Address))
  /\ witness_signature \subseteq Nat \X Address
  /\ next_message_id \in Nat
  /\ IsMap(messages, Nat, LegacyMessage)
  /\ IsMap(vault_messages, Nat, Seq(Nat))
  /\ IsMap(notified_at, Nat \X Nat, Nat)
  /\ IsMap(acknowledged_at, DOMAIN notified_at, Nat)
  /\ IsMap(requires_ack, Nat, BOOLEAN)

-----------------------------------------------------------------------------
(* Wills. *)

(* The will linked to the vault is the active version, the newest one and  *)
(* the only one marked active, whichever of link_will_to_vault and         *)
(* create_will_version came first.                                         *)
ActiveWillIsLinked ==
  \A p \in DOMAIN will_versions :
    /\ p \in DOMAIN active_version
    /\ active_version[p] = Len(will_versions[p])
    /\ \A v \in DOMAIN will_versions[p] :
         will_versions[p][v].is_active <=> v = active_version[p]
    /\ p \in DOMAIN vault_will
    /\ vault_will[p] = will_versions[p][active_version[p]].will_hash

(* Once the active version is finalized the will of the vault is settled:  *)
(* no link, new version or other owner replaces it or its hash.            *)
FinalizedWillStays ==
  [][\A p \in PlanId :
       ActiveIsFinalized(p) =>
         /\ p \in DOMAIN active_version'
         /\ active_version'[p] = active_version[p]
         /\ <<p, active_version[p]>> \in will_finalized'
         /\ will_versions'[p] = will_versions[p]
         /\ vault_will'[p] = vault_will[p]]_<<vars, recordVars>>

-----------------------------------------------------------------------------
(* Messages. *)

(* The list of a vault names its messages, each once and oldest first,     *)
(* however single creations, batches and deletions are mixed.              *)
MessageIndexAgrees ==
  /\ \A p \in DOMAIN vault_messages :
       LET list == vault_messages[p]
       IN  /\ \A i, j \in DOMAIN list : i < j => list[i] < list[j]
           /\ \A i \in DOMAIN list :
                list[i] \in DOMAIN messages /\ messages[list[i]].vault_id = p
  /\ \A id \in DOMAIN messages :
       id < next_message_id /\ InSeq(VaultMessages(messages[id].vault_id), id)

(* A finalized message stays, and what a finalized or unlocked message     *)
(* says never changes: not by an update, a deletion, or its identifier     *)
(* being given to another message.                                         *)
MessagesSettle ==
  [][\A id \in DOMAIN messages :
       LET old == messages[id]
       IN  /\ old.is_finalized => id \in DOMAIN messages'
           /\ id \in DOMAIN messages' =>
                LET new == messages'[id]
                IN  /\ new.vault_id = old.vault_id
                    /\ new.creator = old.creator
                    /\ old.is_finalized => new.is_finalized
                    /\ old.is_unlocked => new.is_unlocked
                    /\ old.is_finalized \/ old.is_unlocked =>
                         /\ new.content = old.content
                         /\ new.unlock_timestamp = old.unlock_timestamp
     ]_<<vars, recordVars>>

(* Messages are unlocked by the trigger of their vault's inheritance only, *)
(* and then all of the vault are: unlock_messages_on_inheritance goes by   *)
(* the list and leaves none behind.                                        *)
UnlockReachesEveryMessage ==
  [][\A id \in DOMAIN messages' :
       messages'[id].is_unlocked /\ ~(id \in DOMAIN messages /\ messages[id].is_unlocked) =>
         /\ Triggered(messages'[id].vault_id)
         /\ \A other \in DOMAIN messages' :
              messages'[other].vault_id = messages'[id].vault_id =>
                messages'[other].is_unlocked]_<<vars, recordVars>>

-----------------------------------------------------------------------------
(* What comments say of the records and the code does not do; each is the  *)
(* property of a run that TLC is expected to refute.                       *)

(* "bind the signature to a specific will version": a finalized version is *)
(* one whose hash the owner has signed (sign_will, finalize_will).         *)
FinalizedVersionIsSigned ==
  \A f \in will_finalized :
    <<f[1], will_versions[f[1]][f[2]].will_hash>> \in signature_used

(* "the beneficiaries in a will document match those stored in the plan":  *)
(* a will found to match names every beneficiary of the plan               *)
(* (verify_beneficiaries).                                                 *)
MatchingWillNamesEveryone ==
  [][\A p \in DOMAIN plans, will \in WillList :
       VerifyBeneficiaries(p, will) /\ verification'[p] =>
         \A j \in DOMAIN plans[p].beneficiaries : \E i \in DOMAIN will :
           /\ will[i].hashed_email = plans[p].beneficiaries[j].hashed_email
           /\ will[i].allocation_bp = plans[p].beneficiaries[j].allocation_bp
     ]_<<vars, recordVars>>
=============================================================================
