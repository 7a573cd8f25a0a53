---------------------------- MODULE MCCompanions ----------------------------
(***************************************************************************)
(* Small instances of the contracts and services beside the inheritance    *)
(* contract.  They share no storage, so a behaviour of all of them is an   *)
(* interleaving of their own behaviours, and each is explored by itself:   *)
(* part names the one that runs, chosen at the start.                      *)
(***************************************************************************)
EXTENDS LendingContract, BorrowingContract, GovernanceContract,
        LoanService, WillService, AccessService, MessageService, CircuitBreaker, TLC

CONSTANTS ada, ben, cy, w1, w2, usd, gold, eur, Part, MaxCalls

(* The calls below name ada, usd and gold, and the clock moves by these.   *)
ASSUME InstanceAssumption ==
  /\ ada \in Account /\ usd \in Tokens /\ gold \in Collaterals
  /\ {4, 8, 30} \subseteq Steps

VARIABLES
  part,  \* the part that runs
  calls  \* the calls made so far, counted in one part

ContractParts == {"shares", "loans", "nft", "stakes", "admin", "fees", "auctions", "desk", "votes", "signers"}

loanTables == <<kyc, planRows, debt, loanRows, price, fundRows>>
willTables == <<willRows, contingentRows>>
accessTables == <<grantRows, adminRows>>
messageTables == <<message_keys, sealed, deliveries>>
serviceVars == <<requests, loanTables, willTables, accessTables, messageTables>>
contractVars == <<lendingVars, borrowingVars, governanceVars>>
companionVars == <<part, calls, clock, contractVars, serviceVars, breakerVars>>

(* What ada, ben and the others hold of each token.                        *)
MCFunds ==
  [t \in Tokens |-> [a \in Account |->
     CASE a = ada /\ t = gold -> 1500 [] a = ben /\ t = gold -> 1900
       [] a = ada -> 4200 [] a = ben -> 260 [] OTHER -> 0]]
MCLoans == {[amount |-> 1000, collateral |-> 1500]}
MCIds == {<<2, 3>>, <<1>>, <<2, 2>>}
MCParts == {<<400, 600>>, <<400, 640>>}
MCSettings == {[field |-> "is_paused", value |-> TRUE], [field |-> "grace_period", value |-> 0]}
MCCurves == {[base_rate_bps |-> 200, optimal_utilization_bps |-> 8000, slope1_bps |-> 400,
              slope2_bps |-> 6000, reserve_factor_bps |-> 1000]}
MCPurse == [t \in {gold} |-> [a \in Account |-> IF a = ben THEN 2210 ELSE 0]]
MCRequests == {[principal |-> 1000, collateral |-> 1100]}
MCTerms == {[duration |-> 8, initial_discount_bps |-> 0, max_discount_bps |-> 1000]}
MCBalance == [a \in Council |-> 1]
MCTokens == {[account |-> cy, amount |-> -1], [account |-> cy, amount |-> 2]}
MCSigners == {[signers |-> <<ada, ben>>, threshold |-> 2], [signers |-> <<ben, cy>>, threshold |-> 1],
              [signers |-> <<ada>>, threshold |-> 3]}
MCApproved == {-100}
MCTermsOfLoan == {[principal |-> 100, collateral |-> 160, asset |-> gold, days |-> 30]}

CompanionInit ==
  /\ part \in Part
  /\ calls = 0
  /\ LendingStart
  /\ part # "admin" => lending_roles # {}
  /\ part \notin {"loans", "nft", "admin"} => ~nft_token
  /\ part # "nft" => Mintable
  /\ BorrowingInit
  /\ GovernanceInit
  /\ PlanServiceInit
  /\ LoanServiceInit
  /\ IF part = "pledges" THEN price[DebtAsset] = 1 ELSE price = [a \in LoanAsset |-> 1]
  /\ WillServiceInit
  /\ AccessServiceInit
  /\ MessageServiceInit
  /\ BreakerInit

LendingPart ==
  \/ part = "shares" /\ calls < MaxCalls
       /\ (ShareNext \/ YieldNext \/ BorrowNext \/ \E model \in CurveModel : SetRateModel(ada, model))
  \/ part = "loans" /\ (BorrowNext \/ LiquidateNext \/ RefinanceNext \/ \E amount \in PoolAmount : PoolDeposit(ada, usd, amount))
  \/ part = "nft" /\ (BorrowNext \/ NftNext \/ SetNftToken(ada) \/ \E amount \in PoolAmount : PoolDeposit(ada, usd, amount))
  \/ part = "stakes" /\ (ShareNext \/ StakingNext)
  \/ part = "admin" /\ AdminNext
  \/ part = "fees" /\ (FeeNext \/ \E asset \in NewAsset : AddAssetPool(ada, asset))

BorrowingPart ==
  \/ part = "auctions" /\ (ContractNext \/ LiquidationNext \/ WhitelistCollateral(ada, gold))
       /\ Cardinality(DOMAIN auctions') <= 1
       /\ \A id \in DOMAIN contracts' : contracts'[id].amount_repaid <= MaxPrincipal
  \/ part = "desk" /\ ((ContractNext /\ Len(contracts') <= 1) \/ ExtensionNext \/ BorrowingSettingsNext)

MaxActs == 4  \* bound: the delegations and votes of one behaviour

GovernancePart ==
  \/ part = "votes" /\ VotingNext /\ \A id \in DOMAIN proposals' : proposals'[id].proposer = ada
       /\ Len(history') + Cardinality(DOMAIN vote_choice') <= MaxActs
  \/ part = "signers" /\ SigningNext

(* The requests of the plan service that a loan or the fund depends on.    *)
BackedRequests ==
  \/ RollBackNext
  \/ PlanIds = {} /\ KycNext
  \/ \E w \in Worker :
       \/ PlanIds = {} /\ \E user \in PlanUser, amount \in PlanAmount : CreatePlanCheck(w, user, amount)
       \/ CreatePlanInsert(w) \/ PauseWrite(w)
       \/ \E p \in PlanIds : PauseCheck(w, p)

(* What the second worker does is kept to the requests that compete with   *)
(* each other; beside them the first one does everything.                  *)
Second(stages) == requests'[w2] # Absent => requests'[w2].stage \in stages

LoanPart ==
  /\ \/ part = "plans" /\ PlanServiceNext /\ UNCHANGED <<loanRows, price, fundRows>>
          /\ Second({"claim", "claim_locked", "cancel"})
     \/ part = "pledges" /\ (LoanRequestNext \/ LoanRowNext \/ (BackedRequests /\ UNCHANGED <<loanRows, price, fundRows>>))
          /\ price'[DebtAsset] = 1 /\ Second({"pause"})
     \/ part = "fund" /\ (LoanRequestNext \/ FundNext \/ (RollBackNext /\ UNCHANGED <<loanRows, price, fundRows>>))
          /\ Second({"payout"})

WillPart ==
  \/ part = "documents" /\ DocumentNext
  \/ part = "people" /\ (PeopleNext \/ \E w \in Worker : GenerateRead(w) \/ GenerateInsert(w))
       /\ Second({"decline", "promote"})
  \/ part \in {"documents", "people"} /\ (\E w \in Worker : RollBack(w)) /\ UNCHANGED willTables

AccessPart ==
  \/ part = "grants" /\ GrantNext /\ Second({"start_session"})
  \/ part = "overrides" /\ AdminAccessNext
  \/ part \in {"grants", "overrides"} /\ (\E w \in Worker : RollBack(w)) /\ UNCHANGED accessTables

(* The clock of the services counts days; it moves while it matters.       *)
PartTime ==
  /\ part \notin {"nft", "admin", "fees", "signers", "fund", "people", "breaker"}
  /\ CASE part \in {"plans", "pledges"} -> Tick(30)
       [] part \in {"votes", "documents", "overrides", "messages"} -> Tick(8) /\ clock' <= 9
       [] OTHER -> Tick(4) /\ clock' <= 9
  /\ UNCHANGED <<contractVars, serviceVars, breakerVars>>

CompanionNext ==
  /\ UNCHANGED part
  /\ \/ LendingPart /\ UNCHANGED <<clock, borrowingVars, governanceVars, serviceVars, breakerVars>>
     \/ BorrowingPart /\ UNCHANGED <<clock, lendingVars, governanceVars, serviceVars, breakerVars>>
     \/ GovernancePart /\ UNCHANGED <<clock, lendingVars, borrowingVars, serviceVars, breakerVars>>
     \/ LoanPart /\ UNCHANGED <<clock, contractVars, willTables, accessTables, messageTables, breakerVars>>
     \/ WillPart /\ UNCHANGED <<clock, contractVars, loanTables, accessTables, messageTables, breakerVars>>
     \/ AccessPart /\ UNCHANGED <<clock, contractVars, loanTables, willTables, messageTables, breakerVars>>
     \/ /\ part = "messages" /\ MessageServiceNext /\ Second({"rotate", "key_version", "key_insert", "deliver"})
        /\ UNCHANGED <<clock, contractVars, loanTables, willTables, accessTables, breakerVars>>
     \/ part = "breaker" /\ BreakerNext /\ UNCHANGED <<clock, contractVars, serviceVars>>
     \/ PartTime
  /\ calls' = IF part = "shares" /\ clock' = clock THEN calls + 1 ELSE calls

BreakerStep(A) == part = "breaker" /\ A /\ UNCHANGED <<part, calls, clock, contractVars, serviceVars>>

CompanionFairness ==
  /\ \A c \in Caller : WF_companionVars(BreakerStep(CallerNext(c)))
  /\ WF_companionVars(BreakerStep(TimePasses))

CompanionSpec == CompanionInit /\ [][CompanionNext]_companionVars
FairSpec == CompanionSpec /\ CompanionFairness

(* The state of every part has its type.                                   *)
CompanionTypes ==
  /\ LendingTypeOK /\ BorrowingTypeOK /\ GovernanceTypeOK
  /\ PlanServiceTypeOK /\ LoanServiceTypeOK /\ WillServiceTypeOK
  /\ AccessServiceTypeOK /\ MessageServiceTypeOK /\ BreakerTypeOK
=============================================================================
