---------------------------- MODULE EstateLedger ----------------------------
(***************************************************************************)
(* What the inheritance contract promises about money, and nothing else:   *)
(* an escrow account, the funds recorded for each plan, and the grants     *)
(* made to heirs.  InheritanceContract implements it (EstateRefinement).   *)
(***************************************************************************)
EXTENDS Storage

VARIABLES
  escrow,     \* the tokens held for all plans
  fund,       \* the amount each open plan has on record
  grants,     \* the amounts granted, by plan and heir
  inherited,  \* the plans whose owner is gone
  closed      \* the plans given up by their owner

ledgerVars == <<escrow, fund, grants, inherited, closed>>

LedgerInit ==
  /\ escrow = 0
  /\ DOMAIN fund = {}
  /\ DOMAIN grants = {}
  /\ inherited = {}
  /\ closed = {}

OthersKeep(p) == \A q \in DOMAIN fund \ {p} : fund'[q] = fund[q]

SameGrants == UNCHANGED <<grants, inherited, closed>>

(* A plan is opened with all it records in escrow. *)
Open ==
  \E p \in DOMAIN fund' \ DOMAIN fund :
    /\ DOMAIN fund' = DOMAIN fund \cup {p}
    /\ OthersKeep(p)
    /\ fund'[p] \in Nat \ {0}
    /\ escrow' = escrow + fund'[p]
    /\ SameGrants

(* Money added to a plan that is not closed goes into escrow. *)
Credit(p) ==
  /\ p \notin closed
  /\ DOMAIN fund' = DOMAIN fund
  /\ OthersKeep(p)
  /\ fund'[p] \in Nat /\ fund'[p] > fund[p]
  /\ escrow' = escrow + (fund'[p] - fund[p])
  /\ SameGrants

(* Money that leaves the escrow leaves the record of one plan. *)
Debit(p) ==
  /\ DOMAIN fund' = DOMAIN fund
  /\ OthersKeep(p)
  /\ fund'[p] \in 0..(fund[p] - 1)
  /\ escrow' = escrow - (fund[p] - fund'[p])
  /\ SameGrants

(* New heirs of one plan, finitely many, get their grants out of what the  *)
(* plan records.                                                           *)
Grant(p) ==
  LET new == DOMAIN grants' \ DOMAIN grants
  IN  /\ p \notin closed
      /\ new # {} /\ IsFiniteSet(new)
      /\ \A key \in new : key[1] = p /\ grants'[key] \in Nat
      /\ \A key \in DOMAIN grants : key \in DOMAIN grants' /\ grants'[key] = grants[key]
      /\ DOMAIN fund' = DOMAIN fund
      /\ OthersKeep(p)
      /\ fund'[p] = fund[p] - Total([key \in new |-> grants'[key]])
      /\ fund'[p] >= 0
      /\ UNCHANGED <<escrow, inherited, closed>>

Inherit(p) ==
  /\ p \notin inherited \cup closed
  /\ inherited' = inherited \cup {p}
  /\ UNCHANGED <<escrow, fund, grants, closed>>

(* Lent money that does not come back is written off an inherited plan.    *)
WriteOff(p) ==
  /\ p \in inherited
  /\ DOMAIN fund' = DOMAIN fund
  /\ OthersKeep(p)
  /\ fund'[p] \in 0..fund[p]
  /\ escrow' = escrow
  /\ SameGrants

Close(p) ==
  /\ p \notin closed
  /\ closed' = closed \cup {p}
  /\ UNCHANGED <<escrow, fund, grants, inherited>>

LedgerNext ==
  \/ Open
  \/ \E p \in DOMAIN fund :
       Credit(p) \/ Debit(p) \/ Grant(p) \/ Inherit(p) \/ WriteOff(p) \/ Close(p)

LedgerSpec == LedgerInit /\ [][LedgerNext]_ledgerVars
=============================================================================
