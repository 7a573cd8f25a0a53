------------------------- MODULE EmergencyOperations ------------------------
(***************************************************************************)
(* Emergency access to a plan: granted by the owner to a trusted contact,  *)
(* or by a quorum of the guardians the owner named; it lapses after seven  *)
(* days, and for its first day limits what a call may move.                *)
(***************************************************************************)
EXTENDS InheritanceState

otherThanGuards ==
  <<now, admin, paused, kyc, token, next_plan_id, plans, indexVars, claimVars,
    triggers, conditions>>

NewEmergencyRecord(contact) ==
  [trusted_contact |-> contact, activated_at |-> now]

(* Faulty: an access in force is overwritten. *)
ReplaceEmergencyAccess(owner, p, contact) ==
  /\ OwnedBy(p, owner)
  /\ emergency' = Put(emergency, p, NewEmergencyRecord(contact))
  /\ UNCHANGED <<roles, guardians, approvals, contacts, otherThanGuards>>

(* An expired record still counts as one here. *)
ActivateEmergencyAccess(owner, p, contact) ==
  /\ OwnedBy(p, owner)
  /\ p \notin DOMAIN emergency
  /\ emergency' = Put(emergency, p, NewEmergencyRecord(contact))
  /\ UNCHANGED <<roles, guardians, approvals, contacts, otherThanGuards>>

DeactivateEmergencyAccess(owner, p) ==
  /\ OwnedBy(p, owner)
  /\ p \in DOMAIN emergency
  /\ emergency' = Drop(emergency, p)
  /\ UNCHANGED <<roles, guardians, approvals, contacts, otherThanGuards>>

(* A call of get_emergency_access drops an expired record.  Where another  *)
(* entry point meets one it fails, and takes the removal back with it.     *)
GetEmergencyAccess(p) ==
  /\ p \in DOMAIN emergency
  /\ EmergencyExpired(p)
  /\ emergency' = Drop(emergency, p)
  /\ UNCHANGED <<roles, guardians, approvals, contacts, otherThanGuards>>

(* The list may name a guardian twice; approvals given earlier stay.       *)
SetGuardians(owner, p, list, threshold) ==
  /\ OwnedBy(p, owner)
  /\ threshold \in 1..Len(list)
  /\ guardians' = Put(guardians, p, [guardians |-> list, threshold |-> threshold])
  /\ roles' = roles \cup {<<list[i], "Guardian">> : i \in DOMAIN list}
  /\ UNCHANGED <<emergency, approvals, contacts, otherThanGuards>>

ApprovalsFor(p, contact) ==
  IF <<p, contact>> \in DOMAIN approvals THEN approvals[<<p, contact>>] ELSE << >>

(* Faulty: a guardian may approve twice. *)
ApproveAgain(guardian, p, contact) ==
  LET given == Append(ApprovalsFor(p, contact), guardian)
  IN  /\ HasRole(guardian, "Guardian")
      /\ PlanExists(p)
      /\ p \notin DOMAIN emergency
      /\ p \in DOMAIN guardians
      /\ InSeq(guardians[p].guardians, guardian)
      /\ approvals' = Put(approvals, <<p, contact>>, given)
      /\ emergency' = IF Len(given) >= guardians[p].threshold
                      THEN Put(emergency, p, NewEmergencyRecord(contact))
                      ELSE emergency
      /\ UNCHANGED <<roles, guardians, contacts, otherThanGuards>>

ApproveEmergencyAccess(guardian, p, contact) ==
  LET given == Append(ApprovalsFor(p, contact), guardian)
  IN  /\ HasRole(guardian, "Guardian")
      /\ PlanExists(p)
      /\ p \notin DOMAIN emergency
      /\ p \in DOMAIN guardians
      /\ InSeq(guardians[p].guardians, guardian)
      /\ ~InSeq(ApprovalsFor(p, contact), guardian)
      /\ approvals' = Put(approvals, <<p, contact>>, given)
      /\ emergency' = IF Len(given) >= guardians[p].threshold
                      THEN Put(emergency, p, NewEmergencyRecord(contact))
                      ELSE emergency
      /\ UNCHANGED <<roles, guardians, contacts, otherThanGuards>>

-----------------------------------------------------------------------------

ContactsOf(p) == IF p \in DOMAIN contacts THEN contacts[p] ELSE << >>

AddEmergencyContact(owner, p, contact) ==
  /\ OwnedBy(p, owner)
  /\ ~InSeq(ContactsOf(p), contact)
  /\ Len(ContactsOf(p)) < MAX_CONTACTS
  /\ contacts' = Put(contacts, p, Append(ContactsOf(p), contact))
  /\ UNCHANGED <<roles, emergency, guardians, approvals, otherThanGuards>>

(* The last contact takes the place of the one removed. *)
RemoveEmergencyContact(owner, p, contact) ==
  /\ OwnedBy(p, owner)
  /\ InSeq(ContactsOf(p), contact)
  /\ LET list == ContactsOf(p)
         last == Len(list)
         at   == CHOOSE i \in DOMAIN list : list[i] = contact
     IN  contacts' = Put(contacts, p,
           [k \in 1..(last - 1) |-> IF k = at THEN list[last] ELSE list[k]])
  /\ UNCHANGED <<roles, emergency, guardians, approvals, otherThanGuards>>
=============================================================================
