------------------------- MODULE CompositionProofs --------------------------
(***************************************************************************)
(* The contracts and services beside the inheritance contract, together.   *)
(* In a behaviour of the composition each contract behaves as its own      *)
(* specification allows, and so does each service in the parts in which it *)
(* runs; in the others its tables stay empty.  What is proved of each by   *)
(* itself therefore holds of the composition.                              *)
(***************************************************************************)
EXTENDS MCCompanions, LendingProofs, CompanionProofs

-----------------------------------------------------------------------------
(* One step of the composition, seen from each part of it.                 *)

CompanionStep == CompanionNext \/ UNCHANGED companionVars

(* Time that passes is time for every part.                                *)
LEMMA TimeStep ==
  ASSUME PartTime
  PROVE  (\E d \in Steps : Tick(d)) /\ UNCHANGED <<contractVars, serviceVars, breakerVars>>
<1>1. Tick(4) \/ Tick(8) \/ Tick(30)
  BY DEF PartTime
<1>2. {4, 8, 30} \subseteq Steps
  BY InstanceAssumption
<1>3. \E d \in Steps : Tick(d)
  BY <1>1, <1>2
<1> QED BY <1>3 DEF PartTime

(* The lending contract.                                                   *)
LEMMA LendingByItself ==
  ASSUME CompanionStep
  PROVE  LendingNext \/ UNCHANGED <<clock, lendingVars>>
<1>1. ASSUME LendingPart, UNCHANGED clock PROVE LendingNext
  <2>1. ada \in Account /\ usd \in Tokens
    BY InstanceAssumption
  <2>2. ASSUME NEW model \in CurveModel, SetRateModel(ada, model) PROVE FeeNext
    BY <2>1, <2>2 DEF FeeNext
  <2>3. ASSUME NEW amount \in PoolAmount, PoolDeposit(ada, usd, amount) PROVE ShareNext
    BY <2>1, <2>3 DEF ShareNext
  <2>4. ASSUME SetNftToken(ada) PROVE AdminNext
    BY <2>1, <2>4 DEF AdminNext
  <2>5. ASSUME NEW asset \in NewAsset, AddAssetPool(ada, asset) PROVE AdminNext
    BY <2>1, <2>5 DEF AdminNext
  <2>6. \/ ShareNext \/ YieldNext \/ BorrowNext \/ LiquidateNext \/ RefinanceNext
        \/ StakingNext \/ NftNext \/ AdminNext \/ FeeNext
    BY <1>1, <2>2, <2>3, <2>4, <2>5 DEF LendingPart
  <2> QED BY <1>1, <2>6 DEF LendingNext
<1>2. ASSUME PartTime PROVE LendingNext
  BY <1>2, TimeStep DEF LendingNext, contractVars
<1>3. \/ LendingPart /\ UNCHANGED clock
      \/ PartTime
      \/ UNCHANGED <<clock, contractVars>>
      \/ UNCHANGED <<clock, lendingVars>>
  BY DEF CompanionStep, CompanionNext, companionVars
<1>4. UNCHANGED contractVars => UNCHANGED lendingVars
  BY DEF contractVars
<1> QED BY <1>1, <1>2, <1>3, <1>4

(* The borrowing contract.                                                 *)
LEMMA BorrowingByItself ==
  ASSUME CompanionStep
  PROVE  BorrowingNext \/ UNCHANGED <<clock, borrowingVars>>
<1>1. ASSUME BorrowingPart, UNCHANGED clock PROVE BorrowingNext
  <2>1. ada \in Account /\ gold \in Collaterals
    BY InstanceAssumption
  <2>2. ASSUME WhitelistCollateral(ada, gold) PROVE BorrowingSettingsNext
    BY <2>1, <2>2 DEF BorrowingSettingsNext
  <2> QED BY <1>1, <2>2 DEF BorrowingPart, BorrowingNext
<1>2. ASSUME PartTime PROVE BorrowingNext
  BY <1>2, TimeStep DEF BorrowingNext, contractVars
<1>3. \/ BorrowingPart /\ UNCHANGED clock
      \/ PartTime
      \/ UNCHANGED <<clock, contractVars>>
      \/ UNCHANGED <<clock, borrowingVars>>
  BY DEF CompanionStep, CompanionNext, companionVars
<1>4. UNCHANGED contractVars => UNCHANGED borrowingVars
  BY DEF contractVars
<1> QED BY <1>1, <1>2, <1>3, <1>4

(* The governance contract.                                                *)
LEMMA GovernanceByItself ==
  ASSUME CompanionStep
  PROVE  GovernanceNext \/ UNCHANGED <<clock, governanceVars>>
<1>1. ASSUME GovernancePart, UNCHANGED clock PROVE GovernanceNext
  BY <1>1 DEF GovernancePart, GovernanceNext
<1>2. ASSUME PartTime PROVE GovernanceNext
  BY <1>2, TimeStep DEF GovernanceNext, contractVars
<1>3. \/ GovernancePart /\ UNCHANGED clock
      \/ PartTime
      \/ UNCHANGED <<clock, contractVars>>
      \/ UNCHANGED <<clock, governanceVars>>
  BY DEF CompanionStep, CompanionNext, companionVars
<1>4. UNCHANGED contractVars => UNCHANGED governanceVars
  BY DEF contractVars
<1> QED BY <1>1, <1>2, <1>3, <1>4

(* The circuit breaker.                                                    *)
LEMMA BreakerByItself ==
  ASSUME CompanionStep
  PROVE  BreakerNext \/ UNCHANGED breakerVars
<1>1. PartTime => UNCHANGED breakerVars
  BY DEF PartTime
<1> QED BY <1>1 DEF CompanionStep, CompanionNext, companionVars

-----------------------------------------------------------------------------
(* The services run in parts of their own.                                 *)

PlanParts == {"plans", "pledges", "fund"}
WillParts == {"documents", "people"}
AccessParts == {"grants", "overrides"}
MessageParts == {"messages"}

(* Nothing changes the part.                                               *)
LEMMA PartStays ==
  ASSUME CompanionStep
  PROVE  part' = part
BY DEF CompanionStep, CompanionNext, companionVars

(* What a step is to the services.                                         *)
LEMMA ServiceCases ==
  ASSUME CompanionStep
  PROVE  \/ UNCHANGED clock /\ LoanPart /\ UNCHANGED <<willTables, accessTables, messageTables>>
         \/ UNCHANGED clock /\ WillPart /\ UNCHANGED <<loanTables, accessTables, messageTables>>
         \/ UNCHANGED clock /\ AccessPart /\ UNCHANGED <<loanTables, willTables, messageTables>>
         \/ /\ UNCHANGED clock /\ part \in MessageParts /\ MessageServiceNext
            /\ UNCHANGED <<loanTables, willTables, accessTables>>
         \/ (\E d \in Steps : Tick(d)) /\ UNCHANGED serviceVars
         \/ UNCHANGED clock /\ UNCHANGED serviceVars
<1>1. ASSUME PartTime PROVE (\E d \in Steps : Tick(d)) /\ UNCHANGED serviceVars
  BY <1>1, TimeStep
<1> QED BY <1>1 DEF CompanionStep, CompanionNext, companionVars, MessageParts

(* The tables of each.                                                     *)
LEMMA TablesOfServices ==
  ASSUME UNCHANGED serviceVars
  PROVE  /\ UNCHANGED loanServiceVars /\ UNCHANGED willServiceVars
         /\ UNCHANGED accessServiceVars /\ UNCHANGED messageServiceVars
         /\ UNCHANGED <<loanTables, willTables, accessTables, messageTables>>
<1>1. UNCHANGED <<requests, loanTables, willTables, accessTables, messageTables>>
  BY DEF serviceVars
<1>2. UNCHANGED <<kyc, planRows, debt, loanRows, price, fundRows>>
  BY <1>1 DEF loanTables
<1>3. UNCHANGED loanServiceVars
  BY <1>1, <1>2 DEF loanServiceVars, planServiceVars
<1>4. UNCHANGED willServiceVars
  BY <1>1 DEF willServiceVars, willTables
<1>5. UNCHANGED accessServiceVars
  BY <1>1 DEF accessServiceVars, accessTables
<1>6. UNCHANGED messageServiceVars
  BY <1>1 DEF messageServiceVars, messageTables
<1> QED BY <1>1, <1>3, <1>4, <1>5, <1>6

(* Plans, loans and the fund.                                              *)
LEMMA LoansByThemselves ==
  ASSUME CompanionStep, part \in PlanParts
  PROVE  \/ LoanServiceNext /\ UNCHANGED clock
         \/ (\E d \in Steps : Tick(d)) /\ UNCHANGED loanServiceVars
         \/ UNCHANGED <<clock, loanServiceVars>>
<1>1. BackedRequests => PlanServiceNext
  BY DEF BackedRequests, PlanServiceNext, ClaimNext, FreezeNext
<1>2. RollBackNext => PlanServiceNext
  BY DEF PlanServiceNext
<1>3. LoanPart => LoanServiceNext
  BY <1>1, <1>2 DEF LoanPart, LoanServiceNext
<1>4. ~WillPart /\ ~AccessPart /\ part \notin MessageParts
  BY DEF PlanParts, MessageParts, WillPart, AccessPart
<1> QED BY <1>3, <1>4, ServiceCases, TablesOfServices

(* Wills.                                                                  *)
LEMMA WillsByThemselves ==
  ASSUME CompanionStep, part \in WillParts
  PROVE  \/ WillServiceNext /\ UNCHANGED clock
         \/ (\E d \in Steps : Tick(d)) /\ UNCHANGED willServiceVars
         \/ UNCHANGED <<clock, willServiceVars>>
<1>1. ASSUME NEW w \in Worker, GenerateRead(w) \/ GenerateInsert(w) PROVE DocumentNext
  BY <1>1 DEF DocumentNext
<1>2. WillPart => WillServiceNext
  BY <1>1 DEF WillPart, WillServiceNext, willTables
<1>3. ~LoanPart /\ ~AccessPart /\ part \notin MessageParts
  BY DEF WillParts, MessageParts, LoanPart, AccessPart
<1> QED BY <1>2, <1>3, ServiceCases, TablesOfServices

(* Emergency access.                                                       *)
LEMMA AccessByItself ==
  ASSUME CompanionStep, part \in AccessParts
  PROVE  \/ AccessServiceNext /\ UNCHANGED clock
         \/ (\E d \in Steps : Tick(d)) /\ UNCHANGED accessServiceVars
         \/ UNCHANGED <<clock, accessServiceVars>>
<1>1. AccessPart => AccessServiceNext
  BY DEF AccessPart, AccessServiceNext, accessTables
<1>2. ~LoanPart /\ ~WillPart /\ part \notin MessageParts
  BY DEF AccessParts, MessageParts, LoanPart, WillPart
<1> QED BY <1>1, <1>2, ServiceCases, TablesOfServices

(* Messages.                                                               *)
LEMMA MessagesByThemselves ==
  ASSUME CompanionStep, part \in MessageParts
  PROVE  \/ MessageServiceNext /\ UNCHANGED clock
         \/ (\E d \in Steps : Tick(d)) /\ UNCHANGED messageServiceVars
         \/ UNCHANGED <<clock, messageServiceVars>>
<1>1. ~LoanPart /\ ~WillPart /\ ~AccessPart
  BY DEF MessageParts, LoanPart, WillPart, AccessPart
<1> QED BY <1>1, ServiceCases, TablesOfServices

(* In the other parts the tables stay as they are.                         *)
LEMMA TablesStay ==
  ASSUME CompanionStep
  PROVE  /\ part \notin PlanParts => UNCHANGED loanTables
         /\ part \notin WillParts => UNCHANGED willTables
         /\ part \notin AccessParts => UNCHANGED accessTables
         /\ part \notin MessageParts => UNCHANGED messageTables
<1>1. part \notin PlanParts => ~LoanPart
  BY DEF PlanParts, LoanPart
<1>2. part \notin WillParts => ~WillPart
  BY DEF WillParts, WillPart
<1>3. part \notin AccessParts => ~AccessPart
  BY DEF AccessParts, AccessPart
<1> QED BY <1>1, <1>2, <1>3, ServiceCases, TablesOfServices

-----------------------------------------------------------------------------
(* The composition implements each specification.                          *)

(* Each contract behaves as if it were alone, in every part: no part of    *)
(* the composition makes a call that the contract's own specification does *)
(* not allow, or changes a storage key of another.                         *)
THEOREM ContractsAlone == CompanionSpec => LendingSpec /\ BorrowingSpec /\ GovernanceSpec
<1>1. CompanionInit => LendingStart /\ BorrowingInit /\ GovernanceInit /\ clock = 1
  BY DEF CompanionInit, LendingStart, LendingInit
<1>2. [CompanionNext]_companionVars => [LendingNext]_<<clock, lendingVars>>
  BY LendingByItself DEF CompanionStep
<1>3. [CompanionNext]_companionVars => [BorrowingNext]_<<clock, borrowingVars>>
  BY BorrowingByItself DEF CompanionStep
<1>4. [CompanionNext]_companionVars => [GovernanceNext]_<<clock, governanceVars>>
  BY GovernanceByItself DEF CompanionStep
<1> QED BY <1>1, <1>2, <1>3, <1>4, PTL DEF CompanionSpec, LendingSpec, BorrowingSpec, GovernanceSpec

(* Plans, loans and the fund.                                              *)
LEMMA LoansAlone == CompanionSpec /\ part \in PlanParts => LoanServiceSpec
<1>1. CompanionInit => PlanServiceInit /\ LoanServiceInit /\ clock = 1
  BY DEF CompanionInit, LendingStart, LendingInit, PlanServiceInit
<1>2. (part \in PlanParts) /\ [CompanionNext]_companionVars
      => /\ (part \in PlanParts)'
         /\ [(LoanServiceNext /\ UNCHANGED clock) \/
             ((\E d \in Steps : Tick(d)) /\ UNCHANGED loanServiceVars)]_<<clock, loanServiceVars>>
  BY PartStays, LoansByThemselves DEF CompanionStep
<1> QED BY <1>1, <1>2, PTL DEF CompanionSpec, LoanServiceSpec

(* Wills.                                                                  *)
LEMMA WillsAlone == CompanionSpec /\ part \in WillParts => WillServiceSpec
<1>1. CompanionInit => RequestsInit /\ WillServiceInit /\ clock = 1
  BY DEF CompanionInit, LendingStart, LendingInit, PlanServiceInit
<1>2. (part \in WillParts) /\ [CompanionNext]_companionVars
      => /\ (part \in WillParts)'
         /\ [(WillServiceNext /\ UNCHANGED clock) \/
             ((\E d \in Steps : Tick(d)) /\ UNCHANGED willServiceVars)]_<<clock, willServiceVars>>
  BY PartStays, WillsByThemselves DEF CompanionStep
<1> QED BY <1>1, <1>2, PTL DEF CompanionSpec, WillServiceSpec

(* Emergency access.                                                       *)
LEMMA AccessAlone == CompanionSpec /\ part \in AccessParts => AccessServiceSpec
<1>1. CompanionInit => RequestsInit /\ AccessServiceInit /\ clock = 1
  BY DEF CompanionInit, LendingStart, LendingInit, PlanServiceInit
<1>2. (part \in AccessParts) /\ [CompanionNext]_companionVars
      => /\ (part \in AccessParts)'
         /\ [(AccessServiceNext /\ UNCHANGED clock) \/
             ((\E d \in Steps : Tick(d)) /\ UNCHANGED accessServiceVars)]_<<clock, accessServiceVars>>
  BY PartStays, AccessByItself DEF CompanionStep
<1> QED BY <1>1, <1>2, PTL DEF CompanionSpec, AccessServiceSpec

(* Messages.                                                               *)
LEMMA MessagesAlone == CompanionSpec /\ part \in MessageParts => MessageServiceSpec
<1>1. CompanionInit => RequestsInit /\ MessageServiceInit /\ clock = 1
  BY DEF CompanionInit, LendingStart, LendingInit, PlanServiceInit
<1>2. (part \in MessageParts) /\ [CompanionNext]_companionVars
      => /\ (part \in MessageParts)'
         /\ [(MessageServiceNext /\ UNCHANGED clock) \/
             ((\E d \in Steps : Tick(d)) /\ UNCHANGED messageServiceVars)]_<<clock, messageServiceVars>>
  BY PartStays, MessagesByThemselves DEF CompanionStep
<1> QED BY <1>1, <1>2, PTL DEF CompanionSpec, MessageServiceSpec

(* The circuit breaker.                                                    *)
LEMMA BreakerAlone == CompanionSpec => BreakerInit /\ [][BreakerNext]_breakerVars
<1>1. CompanionInit => BreakerInit
  BY DEF CompanionInit
<1>2. [CompanionNext]_companionVars => [BreakerNext]_breakerVars
  BY BreakerByItself DEF CompanionStep
<1> QED BY <1>1, <1>2, PTL DEF CompanionSpec

(* The services that run in the parts of the composition, each in its own, *)
(* behave there as if they were alone.                                     *)
THEOREM ServicesAlone ==
  CompanionSpec =>
    /\ part \in PlanParts => LoanServiceSpec
    /\ part \in WillParts => WillServiceSpec
    /\ part \in AccessParts => AccessServiceSpec
    /\ part \in MessageParts => MessageServiceSpec
BY LoansAlone, WillsAlone, AccessAlone, MessagesAlone, PTL

-----------------------------------------------------------------------------
(* The tables of a service that does not run.                              *)

NoPlans ==
  /\ kyc = EmptyMap /\ db_plans = <<>> /\ db_claims = {} /\ claim_log = <<>> /\ debt = <<>>
  /\ LoanServiceInit

(* Without plans and loans there is nothing to disagree.                   *)
LEMMA NoPlansAgree ==
  ASSUME NoPlans
  PROVE  PlanServiceTypeOK /\ LoanServiceTypeOK /\ PaidOutOnce /\ LoanRowsAgree
<1>1. /\ PlanIds = {} /\ LoanIdsInDb = {} /\ DOMAIN loan_opening = {}
      /\ DOMAIN fund_claims = {} /\ DOMAIN fund_payouts = {}
  BY EmptyIsSeq DEF NoPlans, LoanServiceInit, PlanIds, LoanIdsInDb
<1>2. PlanServiceTypeOK
  BY NoKeys DEF NoPlans, PlanServiceTypeOK
<1>3. LoanServiceTypeOK
  <2>1. fund \in [reserves : Nat, contributions : Nat, payouts : Int, yield : Nat, status : FundStatus]
    BY DEF NoPlans, LoanServiceInit, FundStatus
  <2>2. deposits \in [LoanAsset -> Int]
    BY DEF NoPlans, LoanServiceInit
  <2> QED BY <1>1, <2>1, <2>2 DEF NoPlans, LoanServiceInit, LoanServiceTypeOK
<1>4. PaidOutOnce
  BY <1>1 DEF PaidOutOnce, DuePlans
<1>5. \A f : DOMAIN f = {} => Total(f) = 0
  BY TotalOfNothing
<1>6. EventsExplainCollateral
  <2>1. ASSUME NEW a \in LoanAsset PROVE Explained(a)
    <3>1. deposits[a] = 0
      BY DEF NoPlans, LoanServiceInit
    <3>2. Pledged(db_loans, a) = 0
      BY <1>1, <1>5 DEF Pledged, LoanIdsInDb
    <3>3. OpenedWith(a) = 0
      BY <1>1, <1>5 DEF OpenedWith
    <3> QED BY <3>1, <3>2, <3>3 DEF Explained
  <2> QED BY <2>1, ExplainedIs
<1>7. PaidClaimsAreFunded
  <2> DEFINE paid == [n \in DOMAIN fund_payouts |-> fund_payouts[n].amount]
  <2>1. DOMAIN paid = {}
    BY <1>1
  <2>2. Total(paid) = 0
    BY <1>5, <2>1
  <2>3. fund.payouts = 0 /\ fund.reserves = 0 /\ fund.contributions = 0 /\ fund.yield = 0
    BY DEF NoPlans, LoanServiceInit
  <2> QED BY <1>1, <2>2, <2>3 DEF PaidClaimsAreFunded
<1>8. RepaidIsFinal
  BY <1>1 DEF RepaidIsFinal
<1> QED BY <1>2, <1>3, <1>4, <1>6, <1>7, <1>8 DEF LoanRowsAgree

(* Nor without wills, grants or messages.                                  *)
LEMMA NoRowsAgree ==
  /\ WillServiceInit => WillServiceTypeOK /\ ChallengeUsedOnce
  /\ AccessServiceInit => AccessServiceTypeOK /\ OpenSessionsWereGranted
  /\ MessageServiceInit => MessageServiceTypeOK /\ NewestKeyIsActive
<1>1. WillServiceInit => WillServiceTypeOK /\ ChallengeUsedOnce
  BY EmptyIsSeq DEF WillServiceInit, WillServiceTypeOK, ChallengeUsedOnce
<1>2. AccessServiceInit => AccessServiceTypeOK /\ OpenSessionsWereGranted
  BY EmptyIsSeq DEF AccessServiceInit, AccessServiceTypeOK, OpenSessionsWereGranted
<1>3. MessageServiceInit => MessageServiceTypeOK /\ NewestKeyIsActive
  BY EmptyIsSeq DEF MessageServiceInit, MessageServiceTypeOK, NewestKeyIsActive
<1> QED BY <1>1, <1>2, <1>3

(* In the parts of the others no row is ever written.                      *)
LEMMA TablesStayEmpty ==
  CompanionSpec =>
    /\ part \notin PlanParts => []NoPlans
    /\ part \notin WillParts => []WillServiceInit
    /\ part \notin AccessParts => []AccessServiceInit
    /\ part \notin MessageParts => []MessageServiceInit
<1>1. CompanionInit => NoPlans /\ WillServiceInit /\ AccessServiceInit /\ MessageServiceInit
  BY DEF CompanionInit, PlanServiceInit, NoPlans
<1>2. (part \notin PlanParts) /\ NoPlans /\ [CompanionNext]_companionVars
      => (part \notin PlanParts)' /\ NoPlans'
  BY PartStays, TablesStay DEF CompanionStep, NoPlans, LoanServiceInit, loanTables, planRows, loanRows, fundRows
<1>3. (part \notin WillParts) /\ WillServiceInit /\ [CompanionNext]_companionVars
      => (part \notin WillParts)' /\ WillServiceInit'
  BY PartStays, TablesStay DEF CompanionStep, WillServiceInit, willTables, willRows, contingentRows
<1>4. (part \notin AccessParts) /\ AccessServiceInit /\ [CompanionNext]_companionVars
      => (part \notin AccessParts)' /\ AccessServiceInit'
  BY PartStays, TablesStay DEF CompanionStep, AccessServiceInit, accessTables, grantRows, adminRows
<1>5. (part \notin MessageParts) /\ MessageServiceInit /\ [CompanionNext]_companionVars
      => (part \notin MessageParts)' /\ MessageServiceInit'
  BY PartStays, TablesStay DEF CompanionStep, MessageServiceInit, messageTables
<1> QED BY <1>1, <1>2, <1>3, <1>4, <1>5, PTL DEF CompanionSpec

-----------------------------------------------------------------------------
(* What holds of each holds of the composition.                            *)

(* A part is one of a service's, or it is not.                             *)
LEMMA PartsAreSplit ==
  /\ part \in PlanParts \/ part \notin PlanParts
  /\ part \in WillParts \/ part \notin WillParts
  /\ part \in AccessParts \/ part \notin AccessParts
  /\ part \in MessageParts \/ part \notin MessageParts
OBVIOUS

(* Every storage key and every table keeps its type, whichever part runs.  *)
THEOREM CompanionsTyped == CompanionSpec => []CompanionTypes
<1>1. CompanionSpec => [](LendingTypeOK /\ BorrowingTypeOK /\ GovernanceTypeOK)
  BY ContractsAlone, LendingTypes, BorrowingTypes, GovernanceTypes, PTL
<1>2. NoPlans => PlanServiceTypeOK /\ LoanServiceTypeOK
  BY NoPlansAgree
<1>3. CompanionSpec => [](PlanServiceTypeOK /\ LoanServiceTypeOK)
  BY <1>2, PartsAreSplit, ServicesAlone, TablesStayEmpty, PlanServiceTypes, LoanTypes, PTL
<1>4. /\ WillServiceInit => WillServiceTypeOK
      /\ AccessServiceInit => AccessServiceTypeOK
      /\ MessageServiceInit => MessageServiceTypeOK
  BY NoRowsAgree
<1>5. CompanionSpec => [](WillServiceTypeOK /\ AccessServiceTypeOK /\ MessageServiceTypeOK)
  BY <1>4, PartsAreSplit, ServicesAlone, TablesStayEmpty, WillServiceTypes, AccessServiceTypes, MessagesHaveKeys, PTL
<1>6. CompanionSpec => []BreakerTypeOK
  BY BreakerAlone, BreakerTyped, PTL
<1> QED BY <1>1, <1>3, <1>5, <1>6, PTL DEF CompanionTypes

(* Every invariant that is proved of a contract or a service by itself is  *)
(* one of all of them together.                                            *)
THEOREM CompanionsAgree ==
  CompanionSpec =>
    [](/\ LendingBooksAgree /\ ActiveMeansOwed /\ DelegatorsAgree
       /\ PaidOutOnce /\ LoanRowsAgree
       /\ ChallengeUsedOnce /\ OpenSessionsWereGranted /\ NewestKeyIsActive)
<1>1. CompanionSpec => [](LendingBooksAgree /\ ActiveMeansOwed /\ DelegatorsAgree)
  BY ContractsAlone, LendingBooks, OwedLoansAreActive, DelegationsStraight, PTL
<1>2. NoPlans => PaidOutOnce /\ LoanRowsAgree
  BY NoPlansAgree
<1>3. CompanionSpec => [](PaidOutOnce /\ LoanRowsAgree)
  BY <1>2, PartsAreSplit, ServicesAlone, TablesStayEmpty, PlansArePaidOnce, LoanRowsTellOneStory, PTL
<1>4. /\ WillServiceInit => ChallengeUsedOnce
      /\ AccessServiceInit => OpenSessionsWereGranted
      /\ MessageServiceInit => NewestKeyIsActive
  BY NoRowsAgree
<1>5. CompanionSpec => [](ChallengeUsedOnce /\ OpenSessionsWereGranted /\ NewestKeyIsActive)
  BY <1>4, PartsAreSplit, ServicesAlone, TablesStayEmpty, ChallengesBindOnce, SessionsWereGranted, NewestKeyStaysActive, PTL
<1> QED BY <1>1, <1>3, <1>5, PTL

(* So is what no step of one does: no step of the composition takes a      *)
(* lender's share, leaves promises unbacked, pays out the collateral of    *)
(* another's loan, reopens a vote or claims from a frozen plan.            *)
THEOREM CompanionsKeep ==
  CompanionSpec =>
    /\ SharePriceNeverFalls /\ BooksAreBacked
    /\ OthersCollateralIsKept /\ OutcomeIsSettled
    /\ FrozenIsNotClaimed
<1> DEFINE FrozenHeld == \A p \in db_claims' \ db_claims :
                       ~db_plans[p].is_paused /\ (db_plans[p].is_risky => db_plans[p].risk_override)
<1>1. (part \notin PlanParts) /\ [CompanionNext]_companionVars => (part \notin PlanParts)' /\ [FrozenHeld]_planServiceVars
  <2> SUFFICES ASSUME part \notin PlanParts, CompanionStep PROVE part' = part /\ FrozenHeld
    BY DEF CompanionStep
  <2>1. UNCHANGED db_claims
    BY TablesStay DEF loanTables, planRows
  <2> QED BY <2>1, PartStays
<1> HIDE DEF FrozenHeld
<1>2. CompanionSpec /\ part \notin PlanParts => [][FrozenHeld]_planServiceVars
  BY <1>1, PTL DEF CompanionSpec
<1>3. CompanionSpec => FrozenIsNotClaimed
  BY <1>2, PartsAreSplit, ServicesAlone, FrozenPlansStay, PTL DEF FrozenIsNotClaimed, FrozenHeld
<1> QED BY <1>3, ContractsAlone, SharePriceStays, BooksStayBacked, CollateralStays, VotesAreSettled, PTL

=============================================================================
