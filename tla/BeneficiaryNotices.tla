------------------------- MODULE BeneficiaryNotices -------------------------
(***************************************************************************)
(* Notices to beneficiaries and their acknowledgments.  Both are kept by   *)
(* the index of the beneficiary and stay with the index when beneficiaries *)
(* are removed or move.                                                    *)
(***************************************************************************)
EXTENDS InheritanceState

VARIABLES
  notified_at,      \* DataKey::BeneficiaryNotifiedAt
  acknowledged_at,  \* DataKey::BeneficiaryAcknowledgedAt
  requires_ack      \* DataKey::RequiresAcknowledgment

noticeVars == <<notified_at, acknowledged_at, requires_ack>>

NoticeInit ==
  /\ notified_at = EmptyMap
  /\ acknowledged_at = EmptyMap
  /\ requires_ack = EmptyMap

OwnerOrAdmin(caller, p) ==
  PlanExists(p) /\ (plans[p].owner = caller \/ HasRole(caller, "Admin"))

NotifyBeneficiary(caller, p, i) ==
  /\ OwnerOrAdmin(caller, p)
  /\ i \in DOMAIN plans[p].beneficiaries
  /\ <<p, i>> \notin DOMAIN notified_at
  /\ notified_at' = Put(notified_at, <<p, i>>, now)
  /\ UNCHANGED <<acknowledged_at, requires_ack>>

(* Any account may call it for any index. *)
AcknowledgeBeneficiaryStatus(p, i) ==
  /\ PlanExists(p)
  /\ i \in DOMAIN plans[p].beneficiaries
  /\ <<p, i>> \in DOMAIN notified_at
  /\ <<p, i>> \notin DOMAIN acknowledged_at
  /\ acknowledged_at' = Put(acknowledged_at, <<p, i>>, now)
  /\ UNCHANGED <<notified_at, requires_ack>>

(* The claims never look at it. *)
RequireAcknowledgment(caller, p, required) ==
  /\ OwnerOrAdmin(caller, p)
  /\ requires_ack' = Put(requires_ack, p, required)
  /\ UNCHANGED <<notified_at, acknowledged_at>>
=============================================================================
