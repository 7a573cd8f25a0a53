------------------------------ MODULE LoanNft ------------------------------
(***************************************************************************)
(* The token of a loan (contracts/loan-nft/src/lib.rs): the lending        *)
(* contract, its admin, mints one for each loan and burns it with the loan;*)
(* its owner may transfer it.  The lending contract never restricts a      *)
(* token nor gives it a URI, so every token is transferable.               *)
(* The address that set_nft_token stores may be of any contract: the       *)
(* repository's own, or one that differs from it only in the metadata it   *)
(* takes, as the lending contract presumes.                                *)
(***************************************************************************)
EXTENDS Storage

VARIABLE nft

(* The metadata that the lending contract sends with a mint has seven      *)
(* fields, the structure that the repository's token decodes has six.      *)
SentFields ==
  {"loan_id", "borrower", "asset", "principal", "collateral_amount", "collateral_token", "due_date"}
OwnFields ==
  {"loan_id", "borrower", "principal", "collateral_amount", "collateral_token", "due_date"}

(* A token contract that decodes metadata with the given fields.           *)
NoNfts(fields) ==
  [fields |-> fields, metadata |-> EmptyMap, owner |-> EmptyMap, approved |-> EmptyMap,
   operators |-> {}, balance |-> EmptyMap, supply |-> 0]

(* A structure is decoded only from a map with exactly its fields.         *)
Mintable == nft.fields = SentFields

NftExists(ids) == ids \subseteq DOMAIN nft.metadata

NftBalance(book, account) == Stored(book.balance, account, 0)

(* One mint for each of the loans made, all to one account; the metadata   *)
(* repeats the loan.                                                       *)
Minted(book, to, made) ==
  [book EXCEPT
     !.metadata = [id \in DOMAIN @ \cup DOMAIN made |-> IF id \in DOMAIN made THEN made[id] ELSE @[id]],
     !.owner = [id \in DOMAIN @ \cup DOMAIN made |-> IF id \in DOMAIN made THEN to ELSE @[id]],
     !.balance = Put(@, to, NftBalance(book, to) + Cardinality(DOMAIN made)),
     !.supply = @ + Cardinality(DOMAIN made)]

(* One burn for each of the ids; the caller has checked that they exist. *)
Burned(book, ids) ==
  [book EXCEPT
     !.metadata = [id \in DOMAIN @ \ ids |-> @[id]],
     !.owner = [id \in DOMAIN @ \ ids |-> @[id]],
     !.approved = [id \in DOMAIN @ \ ids |-> @[id]],
     !.balance = [a \in DOMAIN @ |->
                    SaturatingSub(@[a], Cardinality({id \in ids : book.owner[id] = a}))],
     !.supply = SaturatingSub(@, Cardinality(ids))]

NftOwnedBy(id, account) == id \in DOMAIN nft.owner /\ nft.owner[id] = account

(* A transfer ends the approval; one to the owner himself leaves his       *)
(* balance as it was.                                                      *)
NftTransferred(from, to, id) ==
  LET less == Put(nft.balance, from, SaturatingSub(NftBalance(nft, from), 1))
  IN  [nft EXCEPT !.owner = Put(@, id, to),
                  !.approved = Drop(@, id),
                  !.balance = Put(less, to, Stored(less, to, 0) + 1)]

NftTransfer(from, to, id) ==
  /\ NftOwnedBy(id, from)
  /\ nft' = NftTransferred(from, to, id)

NftTransferFrom(spender, from, to, id) ==
  /\ NftOwnedBy(id, from)
  /\ \/ spender = from
     \/ <<from, spender>> \in nft.operators
     \/ id \in DOMAIN nft.approved /\ nft.approved[id] = spender
  /\ nft' = NftTransferred(from, to, id)

NftApprove(caller, operator, id) ==
  /\ id \in DOMAIN nft.owner
  /\ operator # nft.owner[id]
  /\ caller = nft.owner[id] \/ <<nft.owner[id], caller>> \in nft.operators
  /\ nft' = [nft EXCEPT !.approved = Put(@, id, operator)]

NftSetApprovalForAll(caller, operator, approved) ==
  /\ caller # operator
  /\ nft' = [nft EXCEPT !.operators = IF approved THEN @ \cup {<<caller, operator>>}
                                      ELSE @ \ {<<caller, operator>>}]
=============================================================================
