------------------------------ MODULE MCRecords -----------------------------
(***************************************************************************)
(* Small instances of PlanRecords.                                         *)
(***************************************************************************)
EXTENDS PlanRecords, MCInheritance

CONSTANTS hash1, hash2, letter1, letter2

Params(p, content, unlock) ==
  [vault_id |-> p, content |-> content, unlock_timestamp |-> unlock]

WillEntry(length, bp) == [hashed_email |-> length, allocation_bp |-> bp]

(* The will of the plan, one of another share, and one that names ann twice. *)
Wills      == {<<WillEntry(1, 5000), WillEntry(2, 5000)>>, <<WillEntry(1, 10000)>>}
TwiceNamed == {<<WillEntry(1, 5000), WillEntry(1, 5000)>>}

Letters     == {Params(1, letter1, 2), Params(1, letter1, 1)}
LetterPacks == {<<Params(1, letter1, 2), Params(2, letter1, 2), Params(1, letter2, 2)>>}
NewLetters  == {Params(1, letter2, 1)}
=============================================================================
