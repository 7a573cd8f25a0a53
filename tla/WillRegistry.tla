---------------------------- MODULE WillRegistry ----------------------------
(***************************************************************************)
(* The wills of the plans: hashes of documents, their versions, the        *)
(* owner's signature, the witnesses and the finalization.  The contract    *)
(* also stores the date of each step; nothing depends on them, so a        *)
(* signature or a finalization is only present or absent here.             *)
(***************************************************************************)
EXTENDS InheritanceState

CONSTANT WillHash  \* the hashes of will documents

VARIABLES
  will_hash,         \* DataKey::WillHash
  vault_will,        \* DataKey::VaultWill
  verification,      \* DataKey::BeneficiaryVerification
  will_versions,     \* DataKey::WillVersion; its length is WillVersionCount
  active_version,    \* DataKey::ActiveWillVersion
  will_signature,    \* DataKey::WillSignature
  signature_used,    \* DataKey::SignatureUsed: pairs (plan, hash)
  will_finalized,    \* DataKey::WillFinalized: pairs (plan, version)
  witnesses,         \* DataKey::WillWitnesses
  witness_signature  \* DataKey::WitnessSignature: pairs (plan, witness)

documentVars  == <<will_hash, verification>>
versionVars   == <<vault_will, will_versions, active_version>>
signatureVars == <<will_signature, signature_used>>
witnessVars   == <<witnesses, witness_signature>>

willVars == <<documentVars, versionVars, signatureVars, will_finalized, witnessVars>>

WillVersionInfo == [will_hash : WillHash, is_active : BOOLEAN]

WillSignatureProof == [will_hash : WillHash, signer : Address]

WillInit ==
  /\ will_hash = EmptyMap
  /\ vault_will = EmptyMap
  /\ verification = EmptyMap
  /\ will_versions = EmptyMap
  /\ active_version = EmptyMap
  /\ will_signature = EmptyMap
  /\ signature_used = {}
  /\ will_finalized = {}
  /\ witnesses = EmptyMap
  /\ witness_signature = {}

-----------------------------------------------------------------------------
(* Documents and versions. *)

StoreWillHash(owner, p, hash) ==
  /\ OwnedBy(p, owner)
  /\ p \notin DOMAIN will_hash
  /\ will_hash' = Put(will_hash, p, hash)
  /\ UNCHANGED <<verification, versionVars, signatureVars, will_finalized, witnessVars>>

(* Faulty: a linked will is linked again. *)
LinkWillAgain(owner, p, hash) ==
  /\ OwnedBy(p, owner)
  /\ vault_will' = Put(vault_will, p, hash)
  /\ UNCHANGED <<documentVars, will_versions, active_version, signatureVars,
                 will_finalized, witnessVars>>

LinkWillToVault(owner, p, hash) ==
  /\ OwnedBy(p, owner)
  /\ p \notin DOMAIN vault_will
  /\ vault_will' = Put(vault_will, p, hash)
  /\ UNCHANGED <<documentVars, will_versions, active_version, signatureVars,
                 will_finalized, witnessVars>>

(* Each entry of the will is found among the beneficiaries; two entries    *)
(* may find the same one.                                                  *)
WillMatchesPlan(plan, will) ==
  /\ Len(will) = Len(plan.beneficiaries)
  /\ \A i \in DOMAIN will : \E j \in DOMAIN plan.beneficiaries :
       /\ plan.beneficiaries[j].hashed_email = will[i].hashed_email
       /\ plan.beneficiaries[j].allocation_bp = will[i].allocation_bp

(* Anybody may call it; the last answer is kept. *)
VerifyBeneficiaries(p, will) ==
  /\ PlanExists(p)
  /\ verification' = Put(verification, p, WillMatchesPlan(plans[p], will))
  /\ UNCHANGED <<will_hash, versionVars, signatureVars, will_finalized, witnessVars>>

VersionsOf(p) == IF p \in DOMAIN will_versions THEN will_versions[p] ELSE << >>

IsActiveVersion(p, v) == p \in DOMAIN active_version /\ active_version[p] = v

IsFinalized(p, v) == <<p, v>> \in will_finalized

ActiveIsFinalized(p) ==
  p \in DOMAIN active_version /\ IsFinalized(p, active_version[p])

VersionsWithNew(p, hash) ==
  LET old == VersionsOf(p)
  IN  [v \in 1..(Len(old) + 1) |->
         IF v = Len(old) + 1 THEN [will_hash |-> hash, is_active |-> TRUE]
         ELSE IF IsActiveVersion(p, v) THEN [old[v] EXCEPT !.is_active = FALSE]
         ELSE old[v]]

(* Faulty: a finalized will gets a successor. *)
CreateVersionAnyway(owner, p, hash) ==
  /\ OwnedBy(p, owner)
  /\ will_versions' = Put(will_versions, p, VersionsWithNew(p, hash))
  /\ active_version' = Put(active_version, p, Len(VersionsOf(p)) + 1)
  /\ vault_will' = Put(vault_will, p, hash)
  /\ UNCHANGED <<documentVars, signatureVars, will_finalized, witnessVars>>

(* Only the finalization of the active version stands in the way.          *)
CreateWillVersion(owner, p, hash) ==
  /\ OwnedBy(p, owner)
  /\ ~ActiveIsFinalized(p)
  /\ will_versions' = Put(will_versions, p, VersionsWithNew(p, hash))
  /\ active_version' = Put(active_version, p, Len(VersionsOf(p)) + 1)
  /\ vault_will' = Put(vault_will, p, hash)
  /\ UNCHANGED <<documentVars, signatureVars, will_finalized, witnessVars>>

-----------------------------------------------------------------------------
(* Signatures and finalization. *)

(* The hash signed need not be that of any version, and the signature      *)
(* takes the place of an earlier one.                                      *)
SignWill(owner, p, hash) ==
  /\ OwnedBy(p, owner)
  /\ <<p, hash>> \notin signature_used
  /\ signature_used' = signature_used \cup {<<p, hash>>}
  /\ will_signature' = Put(will_signature, p, [will_hash |-> hash, signer |-> owner])
  /\ UNCHANGED <<documentVars, versionVars, will_finalized, witnessVars>>

WitnessesOf(p) == IF p \in DOMAIN witnesses THEN witnesses[p] ELSE << >>

AllWitnessesSigned(p) ==
  \A i \in DOMAIN WitnessesOf(p) : <<p, WitnessesOf(p)[i]>> \in witness_signature

(* Faulty: the version is not looked up. *)
FinalizeUnknown(owner, p, v) ==
  /\ OwnedBy(p, owner)
  /\ ~IsFinalized(p, v)
  /\ p \in DOMAIN will_signature
  /\ AllWitnessesSigned(p)
  /\ will_finalized' = will_finalized \cup {<<p, v>>}
  /\ UNCHANGED <<documentVars, versionVars, signatureVars, witnessVars>>

(* Any version, active or not, is finalized by any signature of the vault. *)
FinalizeWill(owner, p, v) ==
  /\ OwnedBy(p, owner)
  /\ v \in DOMAIN VersionsOf(p)
  /\ ~IsFinalized(p, v)
  /\ p \in DOMAIN will_signature
  /\ AllWitnessesSigned(p)
  /\ will_finalized' = will_finalized \cup {<<p, v>>}
  /\ UNCHANGED <<documentVars, versionVars, signatureVars, witnessVars>>

(* Witnesses may be added when the will is finalized already. *)
AddWitness(owner, p, witness) ==
  /\ OwnedBy(p, owner)
  /\ ~InSeq(WitnessesOf(p), witness)
  /\ witnesses' = Put(witnesses, p, Append(WitnessesOf(p), witness))
  /\ UNCHANGED <<documentVars, versionVars, signatureVars, will_finalized,
                 witness_signature>>

SignAsWitness(witness, p) ==
  /\ PlanExists(p)
  /\ InSeq(WitnessesOf(p), witness)
  /\ <<p, witness>> \notin witness_signature
  /\ witness_signature' = witness_signature \cup {<<p, witness>>}
  /\ UNCHANGED <<documentVars, versionVars, signatureVars, will_finalized, witnesses>>
=============================================================================
