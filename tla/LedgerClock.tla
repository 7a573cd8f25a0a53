---------------------------- MODULE LedgerClock ----------------------------
(***************************************************************************)
(* What the contracts and services beside the inheritance contract share:  *)
(* accounts and a clock, which counts days (every period they compare with *)
(* is a whole number of days).  None of them reads another's storage.      *)
(***************************************************************************)
EXTENDS Storage

CONSTANTS
  Account,  \* the accounts and users that call
  Absent,   \* an absent Option
  Clocks,   \* bound: the days the clock reaches
  Steps     \* bound: the numbers of days that pass at once

ASSUME ClockAssumption ==
  /\ Absent \notin Account
  /\ Clocks \in Nat
  /\ Steps \subseteq Nat \ {0}

Role == {"Admin", "Owner", "Beneficiary", "Guardian"}

(* Assign_role and revoke_role of the access-control crate, on the set of  *)
(* pairs (account, role) granted.                                          *)
WithRole(roles, account, role, granted) ==
  IF granted THEN roles \cup {<<account, role>>} ELSE roles \ {<<account, role>>}

VARIABLE clock

Tick(days) ==
  /\ clock + days <= Clocks
  /\ clock' = clock + days
=============================================================================
