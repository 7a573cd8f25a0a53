---------------------------- MODULE WillService ----------------------------
(***************************************************************************)
(* The will documents of one plan: versions, signatures, witnesses, and    *)
(* the contingent beneficiaries who step in (backend/src/will_pdf.rs,      *)
(* will_version.rs, will_signature.rs, witness.rs,                         *)
(* contingent_beneficiary.rs).  Rows are found by their place in the       *)
(* sequence; no statement of one plan reads the rows of another.           *)
(***************************************************************************)
EXTENDS BackendRequests

CONSTANTS
  MaxDocuments,    \* bound: the documents generated
  MaxChallenges,   \* bound: the signing challenges
  MaxWitnesses,    \* bound: the witnesses invited
  MaxContingents   \* bound: the contingent beneficiaries added

ASSUME WillServiceAssumption ==
  {MaxDocuments, MaxChallenges, MaxWitnesses, MaxContingents} \subseteq Nat

VARIABLES
  will_documents,   \* table will_documents
  challenges,       \* table will_signing_challenges
  will_signatures,  \* table will_signatures: the challenge of each
  witnesses,        \* table will_witnesses
  contingents,      \* table plan_beneficiaries: the type of each row added as contingent
  promotions        \* tables contingent_promotions and _activation_events: the rows of each

willRows == <<will_documents, challenges, will_signatures, witnesses>>
contingentRows == <<contingents, promotions>>
willServiceVars == <<requests, willRows, contingentRows>>

Versions == {will_documents[d].version : d \in DOMAIN will_documents}

Newest(versions) == CHOOSE v \in versions : \A u \in versions : u <= v
-----------------------------------------------------------------------------
GenerateRead(w) ==
  /\ Begin(w, [stage |-> "generate", version |-> Newest(Versions \cup {0}) + 1])
  /\ UNCHANGED <<willRows, contingentRows>>

(* Nothing keeps two documents from getting one version.                   *)
GenerateInsert(w) ==
  /\ At(w, "generate")
  /\ Len(will_documents) < MaxDocuments
  /\ will_documents' = Append(will_documents, [version |-> requests[w].version, status |-> "draft"])
  /\ Finish(w)
  /\ UNCHANGED <<challenges, will_signatures, witnesses, contingentRows>>

FinalizeCheck(w, d) ==
  /\ will_documents[d].status = "draft"
  /\ Begin(w, [stage |-> "finalize", version |-> will_documents[d].version])
  /\ UNCHANGED <<willRows, contingentRows>>

FinalizeWrite(w) ==
  /\ At(w, "finalize")
  /\ will_documents' = [d \in DOMAIN will_documents |->
       IF will_documents[d].version # requests[w].version THEN will_documents[d]
       ELSE [will_documents[d] EXCEPT !.status = "finalized"]]
  /\ Finish(w)
  /\ UNCHANGED <<challenges, will_signatures, witnesses, contingentRows>>
-----------------------------------------------------------------------------
(* A challenge is good for ten minutes: until the clock moves.             *)
create_challenge(d) ==
  /\ d \in DOMAIN will_documents
  /\ Len(challenges) < MaxChallenges
  /\ challenges' = Append(challenges, [document |-> d, expires_at |-> clock, used |-> FALSE])
  /\ UNCHANGED <<requests, will_documents, will_signatures, witnesses, contingentRows>>

(* Faulty: the challenge is read without FOR UPDATE.                       *)
ChallengeNeverHeld(c) == FALSE

ChallengeHeld(c) == \E w \in Worker : At(w, "verify") /\ requests[w].challenge = c

(* The wallet and its signature over the message are right.                *)
VerifyLock(w, c) ==
  /\ ~ChallengeHeld(c)
  /\ ~challenges[c].used
  /\ challenges[c].expires_at >= clock
  /\ Begin(w, [stage |-> "verify", challenge |-> c])
  /\ UNCHANGED <<willRows, contingentRows>>

VerifyStore(w) ==
  /\ At(w, "verify")
  /\ challenges' = [challenges EXCEPT ![requests[w].challenge].used = TRUE]
  /\ will_signatures' = Append(will_signatures, requests[w].challenge)
  /\ Finish(w)
  /\ UNCHANGED <<will_documents, witnesses, contingentRows>>
-----------------------------------------------------------------------------
invite_witness(d) ==
  /\ d \in DOMAIN will_documents
  /\ Len(witnesses) < MaxWitnesses
  /\ witnesses' = Append(witnesses, [document |-> d, status |-> "pending", signed |-> FALSE])
  /\ UNCHANGED <<requests, will_documents, challenges, will_signatures, contingentRows>>

(* By the invited wallet, with a signature over the document's hash; the   *)
(* row is locked from the first read to the commit.                        *)
sign_as_witness(i) ==
  /\ witnesses[i].status = "pending"
  /\ witnesses' = [witnesses EXCEPT ![i].status = "signed", ![i].signed = TRUE]
  /\ UNCHANGED <<requests, will_documents, challenges, will_signatures, contingentRows>>

DeclineCheck(w, i) ==
  /\ witnesses[i].status = "pending"
  /\ Begin(w, [stage |-> "decline", witness |-> i])
  /\ UNCHANGED <<willRows, contingentRows>>

(* Neither this statement nor the transaction looks at the status again.   *)
DeclineWrite(w) ==
  /\ At(w, "decline")
  /\ witnesses' = [witnesses EXCEPT ![requests[w].witness].status = "declined"]
  /\ Finish(w)
  /\ UNCHANGED <<will_documents, challenges, will_signatures, contingentRows>>
-----------------------------------------------------------------------------
add_contingent_beneficiary ==
  /\ Len(contingents) < MaxContingents
  /\ contingents' = Append(contingents, "contingent")
  /\ promotions' = Append(promotions, 0)
  /\ UNCHANGED <<requests, willRows>>

RemoveCheck(w, b) ==
  /\ contingents[b] = "contingent"
  /\ Begin(w, [stage |-> "remove", row |-> b])
  /\ UNCHANGED <<willRows, contingentRows>>

(* The rows that record a promotion go with the beneficiary.               *)
RemoveDelete(w) ==
  /\ At(w, "remove")
  /\ contingents' = [contingents EXCEPT ![requests[w].row] = "removed"]
  /\ promotions' = [promotions EXCEPT ![requests[w].row] = 0]
  /\ Finish(w)
  /\ UNCHANGED willRows

PromoteCheck(w, b) ==
  /\ contingents[b] = "contingent"
  /\ Begin(w, [stage |-> "promote", row |-> b])
  /\ UNCHANGED <<willRows, contingentRows>>

(* The UPDATE returns no row when it has been deleted, and the promotion   *)
(* fails; a second promotion of the same row goes through.                 *)
PromoteWrite(w) ==
  /\ At(w, "promote")
  /\ contingents[requests[w].row] # "removed"
  /\ contingents' = [contingents EXCEPT ![requests[w].row] = "primary"]
  /\ promotions' = [promotions EXCEPT ![requests[w].row] = @ + 1]
  /\ Finish(w)
  /\ UNCHANGED willRows
-----------------------------------------------------------------------------
WillServiceInit ==
  /\ will_documents = <<>>
  /\ challenges = <<>>
  /\ will_signatures = <<>>
  /\ witnesses = <<>>
  /\ contingents = <<>>
  /\ promotions = <<>>

DocumentNext ==
  \/ \E w \in Worker :
       \/ GenerateRead(w) \/ GenerateInsert(w) \/ FinalizeWrite(w)
       \/ \E d \in DOMAIN will_documents : FinalizeCheck(w, d)
       \/ \E c \in DOMAIN challenges : VerifyLock(w, c)
       \/ VerifyStore(w)
  \/ \E d \in DOMAIN will_documents : create_challenge(d)

PeopleNext ==
  \/ \E d \in DOMAIN will_documents : invite_witness(d)
  \/ \E i \in DOMAIN witnesses : sign_as_witness(i)
  \/ add_contingent_beneficiary
  \/ \E w \in Worker :
       \/ \E i \in DOMAIN witnesses : DeclineCheck(w, i)
       \/ \E b \in DOMAIN contingents : RemoveCheck(w, b) \/ PromoteCheck(w, b)
       \/ DeclineWrite(w) \/ RemoveDelete(w) \/ PromoteWrite(w)

WillServiceNext ==
  \/ DocumentNext \/ PeopleNext
  \/ (\E w \in Worker : RollBack(w)) /\ UNCHANGED <<willRows, contingentRows>>

WillServiceSpec ==
  RequestsInit /\ WillServiceInit /\ clock = 1 /\
  [][(WillServiceNext /\ UNCHANGED clock) \/
     ((\E d \in Steps : Tick(d)) /\ UNCHANGED willServiceVars)]_<<clock, willServiceVars>>
-----------------------------------------------------------------------------
(* The state has its type.                                                 *)
WillServiceTypeOK ==
  /\ will_documents \in Seq([version : Nat \ {0}, status : {"draft", "finalized"}])
  /\ challenges \in Seq([document : DOMAIN will_documents, expires_at : Nat, used : BOOLEAN])
  /\ will_signatures \in Seq(DOMAIN challenges)
  /\ witnesses \in Seq([document : DOMAIN will_documents,
                        status : {"pending", "signed", "declined"}, signed : BOOLEAN])
  /\ contingents \in Seq({"contingent", "primary", "removed"})
  /\ promotions \in Seq(Nat) /\ Len(promotions) = Len(contingents)

(* A challenge binds one signature, however many requests submit it at the *)
(* same time: the row is locked before its flag is read.                   *)
ChallengeUsedOnce ==
  \A i, j \in DOMAIN will_signatures : will_signatures[i] = will_signatures[j] => i = j
=============================================================================
