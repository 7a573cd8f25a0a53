------------------------- MODULE GovernanceContract -------------------------
(***************************************************************************)
(* The governance contract (contracts/governance-contract/src/lib.rs):     *)
(* delegation of votes, proposals, and transactions that several signers   *)
(* release.                                                                *)
(*                                                                         *)
(* An action is a call that returns Ok.  Execute_on_contract and           *)
(* upgrade_controlled_contract change nothing here: they call a linked     *)
(* contract for the admin.                                                 *)
(***************************************************************************)
EXTENDS LedgerClock

CONSTANTS
  Council,        \* the accounts that take part in governance
  Chair,          \* the account initialize stores as the admin
  StartBalance,   \* the token balances set before the first call explored
  TokenBalance,   \* [account, amount] of the balances set later
  Parameters,     \* the values of parameters that are set
  SignerList,     \* [signers, threshold] of new configurations
  MaxProposals,   \* bound: the proposals made
  MaxTransactions,\* bound: the transactions proposed
  MaxDelegations  \* bound: the entries of the delegation history

ASSUME GovernanceAssumption ==
  /\ Council \subseteq Account /\ IsFiniteSet(Council) /\ Chair \in Council
  /\ StartBalance \in [Council -> Int]
  /\ TokenBalance \subseteq [account : Council, amount : Int]
  /\ Parameters \subseteq Nat
  /\ SignerList \subseteq [signers : Seq(Council), threshold : Nat]
  /\ {MaxProposals, MaxTransactions, MaxDelegations} \subseteq Nat

VARIABLES
  gov_roles,      \* AccessControlKey::Roles
  gov_paused,     \* PauseKey::Paused
  parameters,     \* DataKey::InterestRate, CollateralRatio, LiquidationBonus
  controlled,     \* DataKey::ControlledContracts
  multi_sig,      \* DataKey::MultiSigConfig
  transactions,   \* DataKey::PendingTransaction, by id from 1 to NextTxId - 1
  balance,        \* DataKey::TokenBalance
  delegation,     \* DataKey::Delegation
  delegators,     \* DataKey::Delegators
  history,        \* DataKey::DelegationHistory
  proposals,      \* DataKey::Proposal, by id from 1 to NextProposalId - 1
  vote_choice     \* DataKey::UserVoteChoice, by voter and proposal

delegationVars == <<delegation, delegators, history>>
proposalVars   == <<proposals, vote_choice>>
adminVars      == <<gov_roles, gov_paused, parameters, controlled>>
signingVars    == <<multi_sig, transactions>>
governanceVars == <<adminVars, signingVars, balance, delegationVars, proposalVars>>

PROPOSAL_DURATION == 7
QUORUM_THRESHOLD  == 1

VoteChoice == {"Yes", "No", "Abstain"}

Proposal ==
  [proposer : Account, votes : [VoteChoice -> Int],
   status : {"Active", "Executed", "Cancelled"}, expires_at : Nat]

PendingTransaction ==
  [target : {"self", "other"}, signatures : SUBSET Account, executed : BOOLEAN]

DelegationRecord ==
  [delegator : Account, delegate : Account, timestamp : Nat,
   action : {"Delegated", "Undelegated", "Redelegated"}]

GovernanceInit ==
  /\ gov_roles = {<<Chair, "Admin">>}
  /\ gov_paused = FALSE
  /\ parameters = [p \in {"interest_rate", "collateral_ratio", "liquidation_bonus"} |-> 0]
  /\ controlled = {}
  /\ multi_sig = [signers |-> <<Chair>>, threshold |-> 1]
  /\ transactions = << >>
  /\ balance = StartBalance
  /\ delegation = EmptyMap
  /\ delegators = EmptyMap
  /\ history = << >>
  /\ proposals = << >>
  /\ vote_choice = EmptyMap

HasGovRole(account) == <<account, "Admin">> \in gov_roles

(* The stored admin has to have authorized the call and to hold the role. *)
CheckAdmin == HasGovRole(Chair)

-----------------------------------------------------------------------------
(* Delegation; a pause does not stop it. *)

(* The accounts met by following delegations. *)
DelegatesFrom(account) ==
  LET at[n \in 0..Cardinality(DOMAIN delegation)] ==
        IF n = 0 THEN account
        ELSE IF at[n - 1] \in DOMAIN delegation THEN delegation[at[n - 1]] ELSE at[n - 1]
  IN  {at[n] : n \in 0..Cardinality(DOMAIN delegation)}

CircularDelegation(delegator, delegate) == delegator \in DelegatesFrom(delegate)

(* Remove_from_delegators: an empty list is not kept. *)
WithoutDelegator(map, delegate, delegator) ==
  LET left == Without(Stored(map, delegate, << >>), {delegator})
  IN  IF left = << >> THEN Drop(map, delegate) ELSE Put(map, delegate, left)

WithDelegator(map, delegate, delegator) ==
  Put(map, delegate, PushNew(Stored(map, delegate, << >>), delegator))

Recorded(delegator, delegate, action) ==
  history' = Append(history, [delegator |-> delegator, delegate |-> delegate,
                              timestamp |-> clock, action |-> action])

(* Faulty: the former delegate keeps the delegator. *)
RedelegateKeeping(delegator, delegate) ==
  /\ delegator # delegate
  /\ ~CircularDelegation(delegator, delegate)
  /\ delegators' = WithDelegator(delegators, delegate, delegator)
  /\ Recorded(delegator, delegate,
              IF delegator \in DOMAIN delegation THEN "Redelegated" ELSE "Delegated")
  /\ delegation' = Put(delegation, delegator, delegate)
  /\ UNCHANGED <<adminVars, signingVars, balance, proposalVars>>

DelegateVotes(delegator, delegate) ==
  /\ delegator # delegate
  /\ ~CircularDelegation(delegator, delegate)
  /\ LET redelegated == delegator \in DOMAIN delegation
         others == IF redelegated
                   THEN WithoutDelegator(delegators, delegation[delegator], delegator)
                   ELSE delegators
     IN  /\ delegators' = WithDelegator(others, delegate, delegator)
         /\ Recorded(delegator, delegate, IF redelegated THEN "Redelegated" ELSE "Delegated")
  /\ delegation' = Put(delegation, delegator, delegate)
  /\ UNCHANGED <<adminVars, signingVars, balance, proposalVars>>

UndelegateVotes(delegator) ==
  /\ delegator \in DOMAIN delegation
  /\ delegators' = WithoutDelegator(delegators, delegation[delegator], delegator)
  /\ delegation' = Drop(delegation, delegator)
  /\ Recorded(delegator, delegator, "Undelegated")
  /\ UNCHANGED <<adminVars, signingVars, balance, proposalVars>>

Balance(account) == Stored(balance, account, 0)

(* One's own tokens and those of one's direct delegators; what these were  *)
(* delegated themselves counts for nobody.                                 *)
VotingPower(account) ==
  IF account \in DOMAIN delegation THEN 0
  ELSE LET from == Stored(delegators, account, << >>)
       IN  Balance(account) + Total([i \in DOMAIN from |-> Balance(from[i])])

(* Anybody sets any balance, a negative one too: the contract has no token *)
(* of its own, and set_token_balance checks nothing.                       *)
SetTokenBalance(account, amount) ==
  /\ balance' = Put(balance, account, amount)
  /\ UNCHANGED <<adminVars, signingVars, delegationVars, proposalVars>>

-----------------------------------------------------------------------------
(* Proposals. *)

CreateProposal(proposer) ==
  /\ ~gov_paused
  /\ proposals' = Append(proposals,
       [proposer |-> proposer, votes |-> [c \in VoteChoice |-> 0], status |-> "Active",
        expires_at |-> clock + PROPOSAL_DURATION])
  /\ UNCHANGED <<adminVars, signingVars, balance, delegationVars, vote_choice>>

(* Faulty: a vote counts after the end. *)
VoteLate(voter, id, choice) ==
  /\ ~gov_paused
  /\ VotingPower(voter) # 0
  /\ proposals[id].status = "Active"
  /\ <<voter, id>> \notin DOMAIN vote_choice
  /\ vote_choice' = Put(vote_choice, <<voter, id>>, choice)
  /\ proposals' = [proposals EXCEPT ![id].votes[choice] = @ + VotingPower(voter)]
  /\ UNCHANGED <<adminVars, signingVars, balance, delegationVars>>

(* The power of the moment counts, whoever the tokens voted through before.*)
(* Only a power of 0 is refused, and a negative one is subtracted; a sum   *)
(* beyond i128 traps, and the call changes nothing.                        *)
Vote(voter, id, choice) ==
  /\ ~gov_paused
  /\ VotingPower(voter) # 0
  /\ clock <= proposals[id].expires_at
  /\ proposals[id].status = "Active"
  /\ <<voter, id>> \notin DOMAIN vote_choice
  /\ vote_choice' = Put(vote_choice, <<voter, id>>, choice)
  /\ proposals' = [proposals EXCEPT ![id].votes[choice] = @ + VotingPower(voter)]
  /\ UNCHANGED <<adminVars, signingVars, balance, delegationVars>>

VotesCast(proposal) == Total(proposal.votes)

ProposalStatus(proposal) ==
  IF proposal.status # "Active" THEN proposal.status
  ELSE IF clock <= proposal.expires_at THEN "Active"
  ELSE IF /\ VotesCast(proposal) >= QUORUM_THRESHOLD
          /\ proposal.votes["Yes"] > proposal.votes["No"]
       THEN "Passed" ELSE "Rejected"

ExecuteProposal(id) ==
  /\ ~gov_paused
  /\ ProposalStatus(proposals[id]) = "Passed"
  /\ proposals' = [proposals EXCEPT ![id].status = "Executed"]
  /\ UNCHANGED <<adminVars, signingVars, balance, delegationVars, vote_choice>>

(* Also after the end of the vote, whatever its result. *)
CancelProposal(caller, id) ==
  /\ proposals[id].proposer = caller
  /\ proposals[id].status = "Active"
  /\ proposals' = [proposals EXCEPT ![id].status = "Cancelled"]
  /\ UNCHANGED <<adminVars, signingVars, balance, delegationVars, vote_choice>>

-----------------------------------------------------------------------------
(* Transactions and settings. *)

UpdateMultiSigConfig(config) ==
  /\ CheckAdmin
  /\ config.signers # << >>
  /\ 0 < config.threshold /\ config.threshold <= Len(config.signers)
  /\ multi_sig' = config
  /\ UNCHANGED <<adminVars, transactions, balance, delegationVars, proposalVars>>

(* Anybody may; propose_update_* propose a call of the contract itself. *)
ProposeTransaction(target) ==
  /\ ~gov_paused
  /\ transactions' = Append(transactions,
                            [target |-> target, signatures |-> {}, executed |-> FALSE])
  /\ UNCHANGED <<adminVars, multi_sig, balance, delegationVars, proposalVars>>

SignTransaction(signer, id) ==
  /\ ~gov_paused
  /\ InSeq(multi_sig.signers, signer)
  /\ ~transactions[id].executed
  /\ transactions' = [transactions EXCEPT ![id].signatures = @ \cup {signer}]
  /\ UNCHANGED <<adminVars, multi_sig, balance, delegationVars, proposalVars>>

(* Signatures given under an earlier configuration count.  The target is   *)
(* called; the host lets no contract be entered again, so a call of the    *)
(* governance contract itself always fails.                                *)
ExecuteTransaction(id) ==
  /\ ~gov_paused
  /\ ~transactions[id].executed
  /\ Cardinality(transactions[id].signatures) >= multi_sig.threshold
  /\ transactions[id].target = "other"
  /\ transactions' = [transactions EXCEPT ![id].executed = TRUE]
  /\ UNCHANGED <<adminVars, multi_sig, balance, delegationVars, proposalVars>>

(* Update_interest_rate, update_collateral_ratio, update_liquidation_bonus.*)
UpdateParameter(parameter, value) ==
  /\ CheckAdmin
  /\ parameters' = [parameters EXCEPT ![parameter] = value]
  /\ UNCHANGED <<gov_roles, gov_paused, controlled, signingVars, balance, delegationVars,
                 proposalVars>>

SetGovRole(caller, account, role, granted) ==
  /\ HasGovRole(caller)
  /\ gov_roles' = WithRole(gov_roles, account, role, granted)
  /\ UNCHANGED <<gov_paused, parameters, controlled, signingVars, balance, delegationVars,
                 proposalVars>>

SetGovPaused(caller, value) ==
  /\ HasGovRole(caller)
  /\ gov_paused' = value
  /\ UNCHANGED <<gov_roles, parameters, controlled, signingVars, balance, delegationVars,
                 proposalVars>>

AddControlledContract(contract) ==
  /\ CheckAdmin
  /\ controlled' = controlled \cup {contract}
  /\ UNCHANGED <<gov_roles, gov_paused, parameters, signingVars, balance, delegationVars,
                 proposalVars>>

-----------------------------------------------------------------------------
VotingNext ==
  \/ \E a, b \in Council : Len(history) < MaxDelegations /\ DelegateVotes(a, b)
  \/ \E a \in Council :
       \/ Len(history) < MaxDelegations /\ UndelegateVotes(a)
       \/ Len(proposals) < MaxProposals /\ CreateProposal(a)
       \/ \E id \in DOMAIN proposals :
            \/ \E choice \in {"Yes", "No"} : Vote(a, id, choice)
            \/ CancelProposal(a, id)
  \/ \E id \in DOMAIN proposals : ExecuteProposal(id)
  \/ \E b \in TokenBalance : SetTokenBalance(b.account, b.amount)

SigningNext ==
  \/ \E config \in SignerList : UpdateMultiSigConfig(config)
  \/ \E target \in {"self", "other"} :
       Len(transactions) < MaxTransactions /\ ProposeTransaction(target)
  \/ \E id \in DOMAIN transactions :
       \/ \E signer \in Council : SignTransaction(signer, id)
       \/ ExecuteTransaction(id)
  \/ \E parameter \in DOMAIN parameters, value \in Parameters : UpdateParameter(parameter, value)
  \/ \E caller, account \in Council, granted \in BOOLEAN :
       SetGovRole(caller, account, "Admin", granted)
  \/ \E caller \in Council, value \in BOOLEAN : SetGovPaused(caller, value)
  \/ AddControlledContract("other")

GovernanceNext ==
  \/ (VotingNext \/ SigningNext) /\ UNCHANGED clock
  \/ (\E days \in Steps : Tick(days)) /\ UNCHANGED governanceVars

GovernanceSpec == GovernanceInit /\ clock = 1 /\ [][GovernanceNext]_<<clock, governanceVars>>

-----------------------------------------------------------------------------
GovernanceTypeOK ==
  /\ gov_roles \subseteq Account \X Role
  /\ gov_paused \in BOOLEAN
  /\ parameters \in [{"interest_rate", "collateral_ratio", "liquidation_bonus"} -> Nat]
  /\ controlled \subseteq {"other"}
  /\ multi_sig \in [signers : Seq(Account), threshold : Nat]
  /\ transactions \in Seq(PendingTransaction)
  /\ IsMap(balance, Account, Int)
  /\ IsMap(delegation, Account, Account)
  /\ IsMap(delegators, Account, Seq(Account))
  /\ history \in Seq(DelegationRecord)
  /\ proposals \in Seq(Proposal)
  /\ IsMap(vote_choice, Account \X (DOMAIN proposals), VoteChoice)

(* However often votes are delegated, delegated on and taken back, the     *)
(* lists of delegators, which voting power is counted from, name exactly   *)
(* those who delegate, each once; nobody's votes go round in a circle, and *)
(* those who delegate have no vote of their own left.                      *)
DelegatorsAgree ==
  /\ \A a \in DOMAIN delegation :
       /\ delegation[a] \in DOMAIN delegators /\ InSeq(delegators[delegation[a]], a)
       /\ ~CircularDelegation(a, delegation[a]) /\ VotingPower(a) = 0
  /\ \A d \in DOMAIN delegators :
       \A i, j \in DOMAIN delegators[d] :
         /\ delegators[d][i] \in DOMAIN delegation /\ delegation[delegators[d][i]] = d
         /\ delegators[d][i] = delegators[d][j] => i = j

(* The result of a vote is that at its end: no later vote, delegation or   *)
(* balance changes it, only a passed proposal is executed, and what is     *)
(* executed or cancelled stays so.                                         *)
OutcomeIsSettled ==
  [][\A id \in DOMAIN proposals :
       LET status == ProposalStatus(proposals[id])
       IN  /\ status # "Active" => proposals'[id].votes = proposals[id].votes
           /\ status \in {"Executed", "Cancelled"} => proposals'[id].status = status
           /\ proposals'[id].status = "Executed" => status \in {"Passed", "Executed"}
    ]_<<clock, governanceVars>>

=============================================================================
