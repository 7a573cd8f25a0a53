SPECIFICATION FairSpec

CONSTANTS
  ada = ada
  ben = ben
  cy = cy
  usd = usd
  gold = gold
  eur = eur
  Part = {"shares", "loans", "nft", "stakes", "admin", "fees",
          "auctions", "desk", "votes", "signers", "plans", "pledges", "fund",
          "documents", "people", "grants", "overrides", "messages", "breaker"}
  MaxCalls = 8
  Account = {ada, ben, cy}
  Absent = Absent
  Clocks = 60
  Steps = {4, 8, 30}
  Vault = Vault
  LendingAdmin = ada
  Tokens = {usd, gold, eur}
  MainToken = usd
  Funds <- MCFunds
  RateAtZero = 36500
  RateMultiplier = 0
  UtilizationCap = 10000
  CollateralRatio = 15000
  MaxLoanId = 4
  MaxStake = 2000
  PoolAmount = {2000}
  ShareAmount = {1000}
  PriorityAmount = {202}
  ReserveAmount = {2}
  FlashAmount = {2000}
  FlashReceiver = {ben}
  FlashReturn = {2000, 2200}
  LoanRequest <- MCLoans
  CollateralToken = {gold}
  LoanDays = {1}
  LiquidationAmount = {400}
  LoanIds <- MCIds
  SplitParts <- MCParts
  NewAsset = {eur}
  RoleGrant = {"Admin"}
  PoolSetting <- MCSettings
  FeeBps = {50}
  RewardRate = {2}
  InsuranceAmount = {1300}
  CurveModel <- MCCurves
  NftHolder = {ada, ben}
  Desk = Desk
  BorrowingAdmin = ada
  Collaterals = {gold}
  Purse <- MCPurse
  LoanRatio = 10500
  HealthThreshold = 12000
  LiquidationBonus = 500
  MaxContracts = 2
  MaxPrincipal = 1500
  ContractRequest <- MCRequests
  ContractDays = {5}
  RepayAmount = {500}
  AuctionTerms <- MCTerms
  ExtensionDays = {4}
  Liquidator = {ada}
  Council = {ada, ben, cy}
  Chair = ada
  StartBalance <- MCBalance
  TokenBalance <- MCTokens
  Parameters = {1}
  SignerList <- MCSigners
  MaxProposals = 1
  MaxTransactions = 1
  MaxDelegations = 2
  w1 = w1
  w2 = w2
  Worker = {w1, w2}
  PlanUser = {ada}
  PlanAmount = {100}
  Method = {"Monthly"}
  DebtAmount = {80}
  PriceRatio = {100, 90}
  LiquidationThreshold = 120
  MaxPlans = 1
  MaxDebt = 80
  LoanAsset = {usd, gold}
  DebtAsset = usd
  LoanTerms <- MCTermsOfLoan
  LoanPayment = {50}
  CollateralAmount = {80}
  AssetPrice = {1, 2}
  FundAmount = {100}
  InsuredAmount = {100}
  ApprovedAmount <- MCApproved
  MaxLoans = 1
  MaxCollateral = 160
  MaxFund = 200
  MaxInsuranceClaims = 2
  MaxPayouts = 2
  MaxDocuments = 2
  MaxChallenges = 2
  MaxWitnesses = 2
  MaxContingents = 1
  GrantDays = {8}
  AdminDays = {1, Absent}
  MaxContacts = 1
  MaxGrants = 2
  MaxSessions = 1
  UnlockDays = {8}
  MaxKeys = 3
  MaxSealed = 2
  MaxDeliveries = 2
  Caller = {ada, ben}
  FailureThreshold = 2
  RecoveryTimeout = 2
  MaxAttempts = 2

INVARIANTS
  CompanionTypes
  LendingBooksAgree
  ActiveMeansOwed
  DelegatorsAgree
  PaidOutOnce
  LoanRowsAgree
  ChallengeUsedOnce
  OpenSessionsWereGranted
  NewestKeyIsActive

PROPERTIES
  SharePriceNeverFalls
  BooksAreBacked
  OthersCollateralIsKept
  OutcomeIsSettled
  FrozenIsNotClaimed
  CircuitCloses

CHECK_DEADLOCK FALSE
