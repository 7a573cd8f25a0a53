-------------------------- MODULE AdminOperations ---------------------------
(***************************************************************************)
(* Who may do what: the admin, the roles of the access-control crate, the  *)
(* pause switch, and the KYC status of users.                              *)
(***************************************************************************)
EXTENDS InheritanceState

otherThanAccess ==
  <<now, token, next_plan_id, plans, indexVars, claimVars, triggers, conditions,
    guardVars>>

(* Faulty: the admin may be set when nobody holds the role. *)
InitializeAdminAgain(a) ==
  /\ \A b \in Address : ~HasRole(b, "Admin")
  /\ admin' = a
  /\ roles' = roles \cup {<<a, "Admin">>}
  /\ UNCHANGED <<paused, kyc, otherThanAccess>>

InitializeAdmin(a) ==
  /\ admin = None
  /\ admin' = a
  /\ roles' = roles \cup {<<a, "Admin">>}
  /\ UNCHANGED <<paused, kyc, otherThanAccess>>

(* require_admin looks at the role, never at DataKey::Admin. *)
AssignRole(caller, a, role) ==
  /\ HasRole(caller, "Admin")
  /\ roles' = roles \cup {<<a, role>>}
  /\ UNCHANGED <<admin, paused, kyc, otherThanAccess>>

RevokeRole(caller, a, role) ==
  /\ HasRole(caller, "Admin")
  /\ roles' = roles \ {<<a, role>>}
  /\ UNCHANGED <<admin, paused, kyc, otherThanAccess>>

SetPaused(caller, value) ==
  /\ HasRole(caller, "Admin")
  /\ paused' = value
  /\ UNCHANGED <<admin, roles, kyc, otherThanAccess>>

-----------------------------------------------------------------------------

NewKyc == [submitted |-> FALSE, approved |-> FALSE, rejected |-> FALSE]

KycOf(user) == IF user \in DOMAIN kyc THEN kyc[user] ELSE NewKyc

SubmitKyc(user) ==
  /\ ~KycOf(user).approved
  /\ kyc' = Put(kyc, user, [KycOf(user) EXCEPT !.submitted = TRUE])
  /\ UNCHANGED <<admin, paused, roles, otherThanAccess>>

CanApprove(user) ==
  user \in DOMAIN kyc /\ kyc[user].submitted /\ ~kyc[user].approved

ApproveKyc(caller, user) ==
  /\ HasRole(caller, "Admin")
  /\ CanApprove(user)
  /\ kyc' = [kyc EXCEPT ![user].approved = TRUE]
  /\ UNCHANGED <<admin, paused, roles, otherThanAccess>>

(* A rejection leaves an earlier approval in place. *)
RejectKyc(caller, user) ==
  /\ HasRole(caller, "Admin")
  /\ user \in DOMAIN kyc
  /\ kyc[user].submitted
  /\ ~kyc[user].rejected
  /\ kyc' = [kyc EXCEPT ![user].rejected = TRUE]
  /\ UNCHANGED <<admin, paused, roles, otherThanAccess>>

(* Users that cannot be approved are counted as failures and skipped; the  *)
(* order of the batch makes no difference.                                 *)
BatchApproveKyc(caller, users) ==
  /\ HasRole(caller, "Admin")
  /\ Cardinality(users) <= BATCH_LIMIT
  /\ kyc' = [u \in DOMAIN kyc |->
               IF u \in users /\ CanApprove(u)
               THEN [kyc[u] EXCEPT !.approved = TRUE] ELSE kyc[u]]
  /\ UNCHANGED <<admin, paused, roles, otherThanAccess>>
=============================================================================
