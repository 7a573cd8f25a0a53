SPECIFICATION Spec

CONSTANTS
  owner = owner
  heir = heir
  admin_ = admin_
  ann = ann
  bob = bob
  cid = cid
  Address = {owner, heir, admin_}
  Contract = Contract
  None = None
  Email = {ann, bob, cid}
  EmailLength <- MCEmailLength
  ClaimCode = {1, 2}
  U64Max = 100000
  InitialTokens <- Tokens150
  MaxPlans = 1
  MaxTime = 1
  MaxRecovered = 40
  Days = {}
  AdminCandidate = {admin_}
  RoleChange = {}
  PauseValue = {TRUE, FALSE}
  KycUser = {owner, heir}
  KycRejected = {}
  KycBatch = {}
  CreateAmount = {100}
  CreateMethod = {"LumpSum"}
  CreateInputs <- JustHalves
  LendableValue = {TRUE}
  DepositAmount = {50}
  WithdrawAmount = {50}
  LoanAmount = {30}
  RecallAmount = {30}
  PriorityValue = {}
  WaterfallOwner = {}
  AddInput = {}
  AddBatch = {}
  RemoveIndex = {}
  RemoveBatch = {}
  NewAllocation = {}
  DeactivatingUser = {owner}
  NewOwner = {}
  ClaimEntry <- HeirClaims
  ClaimBatch <- HeirBatches
  TriggerCaller = {admin_, owner}
  ConditionSet = {}
  TriggerDate = {}
  InactivityPeriod = {}
  Oracle = {}
  Contact = {}
  ListedContact = {}
  GuardianList = {}
  Threshold = {}

INVARIANTS
  TypeOK
  EscrowBacksPlans
  TriggeredLoansAccounted

PROPERTIES
  TriggerIsFinal
  DeactivationIsFinal
  LoansStayCovered
  AmountFallsForAReason
  PauseHoldsFunds
  ImplementsLedger

CHECK_DEADLOCK FALSE
