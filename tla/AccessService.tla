--------------------------- MODULE AccessService ---------------------------
(***************************************************************************)
(* Emergency contacts, the access a user grants them and the sessions they *)
(* open (backend/src/service.rs), and the access an administrator grants   *)
(* to a plan with the hourly job that watches it                           *)
(* (backend/src/emergency_access.rs, emergency_access_jobs.rs).            *)
(***************************************************************************)
EXTENDS BackendRequests

CONSTANTS
  GrantDays,    \* how long a user's grant lasts
  AdminDays,    \* how long an administrator's access lasts, Absent for ever
  MaxContacts,  \* bound: the contacts created
  MaxGrants,    \* bound: the grants of either kind
  MaxSessions   \* bound: the sessions started

ASSUME AccessServiceAssumption ==
  /\ GrantDays \subseteq Nat \ {0}
  /\ AdminDays \subseteq (Nat \ {0}) \cup {Absent}
  /\ {MaxContacts, MaxGrants, MaxSessions} \subseteq Nat

VARIABLES
  contacts,        \* table emergency_contacts: whether each row is still there
  grants,          \* table emergency_access_grants
  access_sessions, \* table emergency_access_sessions
  risk_alerts,     \* table emergency_access_risk_alerts
  admin_access,    \* table emergency_access
  expiry_notices   \* the notices of an expiry the job has sent for each

grantRows == <<contacts, grants, access_sessions, risk_alerts>>
adminRows == <<admin_access, expiry_notices>>
accessServiceVars == <<requests, grantRows, adminRows>>

GrantRow == [contact : Nat, expires_at : Nat, is_active : BOOLEAN, created_at : Nat, revoked_at : Nat \cup {Absent}]
AlertRow ==
  [grant : Nat,
   type : {"high_frequency_grants", "high_privilege_long_lived_access", "rapid_grant_revoke"}]
SessionRow == [grant : Nat, requested_at : Nat, open : BOOLEAN]
-----------------------------------------------------------------------------
create_contact ==
  /\ Len(contacts) < MaxContacts
  /\ contacts' = Append(contacts, TRUE)
  /\ UNCHANGED <<requests, grants, access_sessions, risk_alerts, adminRows>>

(* The sessions and alerts of the contact are deleted with the row, the    *)
(* grants stay.                                                            *)
delete_contact(c) ==
  /\ contacts[c]
  /\ contacts' = [contacts EXCEPT ![c] = FALSE]
  /\ access_sessions' = [s \in DOMAIN access_sessions |->
       [access_sessions[s] EXCEPT !.open = @ /\ grants[access_sessions[s].grant].contact # c]]
  /\ risk_alerts' = Without(risk_alerts,
       {risk_alerts[a] : a \in {b \in DOMAIN risk_alerts : grants[risk_alerts[b].grant].contact = c}})
  /\ UNCHANGED <<requests, grants, adminRows>>

(* Evaluate_grant_risk: the fourth grant within the hour, and a privileged *)
(* one that lasts a week or more.                                          *)
GrantAlerts(days, privileged) ==
  LET recent == {g \in DOMAIN grants : grants[g].created_at = clock} IN
  (IF Cardinality(recent) >= 3 THEN <<[grant |-> Len(grants) + 1, type |-> "high_frequency_grants"]>> ELSE <<>>)
  \o (IF privileged /\ days >= 7 THEN <<[grant |-> Len(grants) + 1, type |-> "high_privilege_long_lived_access"]>> ELSE <<>>)

grant_access(c, days, privileged) ==
  /\ contacts[c]
  /\ Len(grants) < MaxGrants
  /\ grants' = Append(grants, [contact |-> c, expires_at |-> clock + days, is_active |-> TRUE,
                               created_at |-> clock, revoked_at |-> Absent])
  /\ risk_alerts' = risk_alerts \o GrantAlerts(days, privileged)
  /\ UNCHANGED <<requests, contacts, access_sessions, adminRows>>

RevokeCheck(w, g) ==
  /\ grants[g].is_active
  /\ Begin(w, [stage |-> "revoke", grant |-> g])
  /\ UNCHANGED <<grantRows, adminRows>>

(* Evaluate_revoke_risk and end_sessions_for_grant are in the transaction. *)
RevokeCommit(w) ==
  /\ At(w, "revoke")
  /\ LET g == requests[w].grant IN
     /\ grants' = [grants EXCEPT ![g].is_active = FALSE, ![g].revoked_at = clock]
     /\ risk_alerts' = IF grants[g].created_at = clock
                       THEN Append(risk_alerts, [grant |-> g, type |-> "rapid_grant_revoke"]) ELSE risk_alerts
     /\ access_sessions' = [s \in DOMAIN access_sessions |->
          [access_sessions[s] EXCEPT !.open = @ /\ access_sessions[s].grant # g]]
  /\ Finish(w)
  /\ UNCHANGED <<contacts, adminRows>>

(* Faulty: only the expiry is checked.                                     *)
Unexpired(g) == grants[g].expires_at > clock

InForce(g) == grants[g].is_active /\ grants[g].expires_at > clock

StartSessionCheck(w, g) ==
  /\ InForce(g)
  /\ Begin(w, [stage |-> "start_session", grant |-> g, at |-> clock])
  /\ UNCHANGED <<grantRows, adminRows>>

(* A deleted contact fails the foreign key.                                *)
StartSessionInsert(w) ==
  /\ At(w, "start_session")
  /\ Len(access_sessions) < MaxSessions
  /\ contacts[grants[requests[w].grant].contact]
  /\ access_sessions' = Append(access_sessions,
       [grant |-> requests[w].grant, requested_at |-> requests[w].at, open |-> TRUE])
  /\ Finish(w)
  /\ UNCHANGED <<contacts, grants, risk_alerts, adminRows>>

end_session(s) ==
  /\ access_sessions[s].open
  /\ access_sessions' = [access_sessions EXCEPT ![s].open = FALSE]
  /\ UNCHANGED <<requests, contacts, grants, risk_alerts, adminRows>>
-----------------------------------------------------------------------------
admin_grant_access(days) ==
  /\ Len(admin_access) < MaxGrants
  /\ admin_access' = Append(admin_access,
       [status |-> "active", expires_at |-> IF days = Absent THEN Absent ELSE clock + days])
  /\ expiry_notices' = Append(expiry_notices, 0)
  /\ UNCHANGED <<requests, grantRows>>

AdminRevokeCheck(w, a) ==
  /\ admin_access[a].status # "revoked"
  /\ Begin(w, [stage |-> "admin_revoke", access |-> a])
  /\ UNCHANGED <<grantRows, adminRows>>

AdminRevokeWrite(w) ==
  /\ At(w, "admin_revoke")
  /\ admin_access' = [admin_access EXCEPT ![requests[w].access].status = "revoked"]
  /\ Finish(w)
  /\ UNCHANGED <<grantRows, expiry_notices>>

Expired(access) == access.status = "active" /\ access.expires_at # Absent /\ access.expires_at <= clock

mark_expired_access ==
  /\ admin_access' = [a \in DOMAIN admin_access |->
       IF Expired(admin_access[a]) THEN [admin_access[a] EXCEPT !.status = "expired"] ELSE admin_access[a]]
  /\ UNCHANGED <<requests, grantRows, expiry_notices>>

(* Within 24 hours of its expiry, however often it has been notified.      *)
ExpiringSoon ==
  {a \in DOMAIN admin_access :
     /\ admin_access[a].status = "active"
     /\ admin_access[a].expires_at # Absent
     /\ admin_access[a].expires_at > clock /\ admin_access[a].expires_at <= clock + 1}

check_expiring_access ==
  /\ \A a \in ExpiringSoon : expiry_notices[a] < MaxGrants
  /\ expiry_notices' = [a \in DOMAIN expiry_notices |->
       IF a \in ExpiringSoon THEN expiry_notices[a] + 1 ELSE expiry_notices[a]]
  /\ UNCHANGED <<requests, grantRows, admin_access>>
-----------------------------------------------------------------------------
AccessServiceInit ==
  /\ contacts = <<>>
  /\ grants = <<>>
  /\ access_sessions = <<>>
  /\ risk_alerts = <<>>
  /\ admin_access = <<>>
  /\ expiry_notices = <<>>

GrantNext ==
  \/ create_contact
  \/ \E c \in DOMAIN contacts :
       \/ delete_contact(c)
       \/ \E days \in GrantDays, privileged \in BOOLEAN : grant_access(c, days, privileged)
  \/ \E w \in Worker :
       \/ \E g \in DOMAIN grants : RevokeCheck(w, g) \/ StartSessionCheck(w, g)
       \/ RevokeCommit(w) \/ StartSessionInsert(w)
  \/ \E s \in DOMAIN access_sessions : end_session(s)

AdminAccessNext ==
  \/ \E days \in AdminDays : admin_grant_access(days)
  \/ \E w \in Worker :
       \/ \E a \in DOMAIN admin_access : AdminRevokeCheck(w, a)
       \/ AdminRevokeWrite(w)
  \/ mark_expired_access \/ check_expiring_access

AccessServiceNext ==
  \/ GrantNext \/ AdminAccessNext
  \/ (\E w \in Worker : RollBack(w)) /\ UNCHANGED <<grantRows, adminRows>>

AccessServiceSpec ==
  RequestsInit /\ AccessServiceInit /\ clock = 1 /\
  [][(AccessServiceNext /\ UNCHANGED clock) \/
     ((\E d \in Steps : Tick(d)) /\ UNCHANGED accessServiceVars)]_<<clock, accessServiceVars>>
-----------------------------------------------------------------------------
(* The state has its type.                                                 *)
AccessServiceTypeOK ==
  /\ contacts \in Seq(BOOLEAN)
  /\ grants \in Seq(GrantRow)
  /\ access_sessions \in Seq(SessionRow)
  /\ risk_alerts \in Seq(AlertRow)
  /\ admin_access \in Seq([status : {"active", "expired", "revoked"}, expires_at : Nat \cup {Absent}])
  /\ expiry_notices \in Seq(Nat)

(* A session that is open on a grant that is not in force was requested    *)
(* while it was: a revocation and a deleted contact end every other one.   *)
OpenSessionsWereGranted ==
  \A s \in DOMAIN access_sessions :
    LET grant == grants[access_sessions[s].grant] IN
    access_sessions[s].open =>
      /\ contacts[grant.contact]
      /\ access_sessions[s].requested_at < grant.expires_at
      /\ grant.is_active \/ access_sessions[s].requested_at <= grant.revoked_at
=============================================================================
