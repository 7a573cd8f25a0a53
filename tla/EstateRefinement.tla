-------------------------- MODULE EstateRefinement --------------------------
(***************************************************************************)
(* The inheritance contract implements EstateLedger: the records of plans  *)
(* are the funds, the claim records the grants, the trigger records the    *)
(* inherited plans and the inactive ones the closed plans.                 *)
(***************************************************************************)
EXTENDS InheritanceContract

Ledger == INSTANCE EstateLedger WITH
  escrow    <- token[Contract],
  fund      <- [p \in DOMAIN plans |-> plans[p].total_amount],
  grants    <- [key \in DOMAIN claims |-> claims[key].payout],
  inherited <- DOMAIN triggers,
  closed    <- {p \in DOMAIN plans : ~plans[p].is_active}

(* Every call is one step of the ledger or none: however calls are mixed,  *)
(* money enters and leaves a plan only in the ways the ledger allows, an   *)
(* heir is granted once, and never from a plan that is closed.             *)
ImplementsLedger == Ledger!LedgerSpec
=============================================================================
