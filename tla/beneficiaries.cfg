SPECIFICATION Spec

CONSTANTS
  owner = owner
  heir = heir
  admin_ = admin_
  ann = ann
  bob = bob
  cid = cid
  Address = {owner, heir, admin_}
  Contract = Contract
  None = None
  Email = {ann, bob, cid}
  EmailLength <- MCEmailLength
  ClaimCode = {1, 2}
  U64Max = 100000
  InitialTokens <- Tokens150
  MaxPlans = 1
  MaxTime = 1
  MaxRecovered = 40
  Days = {}
  AdminCandidate = {admin_}
  RoleChange = {}
  PauseValue = {}
  KycUser = {owner, heir}
  KycRejected = {}
  KycBatch = {}
  CreateAmount = {100}
  CreateMethod = {"LumpSum"}
  CreateInputs <- JustHalves
  LendableValue = {FALSE}
  DepositAmount = {}
  WithdrawAmount = {}
  LoanAmount = {}
  RecallAmount = {}
  PriorityValue = {1, 3}
  WaterfallOwner = {}
  AddInput <- MoreInputs
  AddBatch <- MoreBatches
  RemoveIndex = {1, 2}
  RemoveBatch <- SomeIndexSets
  NewAllocation <- SomeAllocations
  DeactivatingUser = {}
  NewOwner = {}
  ClaimEntry <- HeirClaims
  ClaimBatch <- BobBatches
  TriggerCaller = {}
  ConditionSet = {}
  TriggerDate = {}
  InactivityPeriod = {}
  Oracle = {}
  Contact = {}
  ListedContact = {heir, admin_}
  GuardianList = {}
  Threshold = {}

INVARIANTS
  AllocationsAddUp
  ClaimedFlagIsBacked

PROPERTIES
  ClaimsAreFinal

CHECK_DEADLOCK FALSE
