SPECIFICATION Spec

CONSTANTS
  owner = owner
  heir = heir
  admin_ = admin_
  ann = ann
  bob = bob
  cid = cid
  Address = {owner, heir, admin_}
  Contract = Contract
  None = None
  Email = {ann, bob, cid}
  EmailLength <- MCEmailLength
  ClaimCode = {1, 2}
  U64Max = 100000
  InitialTokens <- Tokens200
  MaxPlans = 2
  MaxTime = 1
  MaxRecovered = 40
  Days = {}
  AdminCandidate = {admin_, heir}
  RoleChange <- AdminRole
  PauseValue = {}
  KycUser = {owner, heir}
  KycRejected = {heir}
  KycBatch <- KycBatches
  CreateAmount = {100}
  CreateMethod = {"LumpSum"}
  CreateInputs <- JustWhole
  LendableValue = {FALSE}
  DepositAmount = {}
  WithdrawAmount = {}
  LoanAmount = {}
  RecallAmount = {}
  PriorityValue = {}
  WaterfallOwner = {}
  AddInput = {}
  AddBatch = {}
  RemoveIndex = {}
  RemoveBatch = {}
  NewAllocation = {}
  DeactivatingUser = {owner, heir}
  NewOwner = {owner, heir}
  ClaimEntry <- OwnerClaims
  ClaimBatch <- OwnerBatches
  TriggerCaller = {admin_}
  ConditionSet = {}
  TriggerDate = {}
  InactivityPeriod = {}
  Oracle = {}
  Contact = {}
  ListedContact = {}
  GuardianList = {}
  Threshold = {}

INVARIANTS
  IndexesAgree

PROPERTIES
  LockoutIsPermanent

CHECK_DEADLOCK FALSE
