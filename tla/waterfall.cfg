SPECIFICATION PersistentSpec

CONSTANTS
  owner = owner
  heir = heir
  admin_ = admin_
  ann = ann
  bob = bob
  cid = cid
  Address = {owner, heir, admin_}
  Contract = Contract
  None = None
  Email = {ann, bob, cid}
  EmailLength <- MCEmailLength
  ClaimCode = {1, 2}
  U64Max = 100000
  InitialTokens <- Tokens200
  MaxPlans = 1
  MaxTime = 1
  MaxRecovered = 40
  Days = {}
  AdminCandidate = {admin_}
  RoleChange = {}
  PauseValue = {TRUE, FALSE}
  KycUser = {owner, heir}
  KycRejected = {}
  KycBatch = {}
  CreateAmount = {100}
  CreateMethod = {"LumpSum"}
  CreateInputs <- JustHalves
  LendableValue = {TRUE}
  DepositAmount = {}
  WithdrawAmount = {50}
  LoanAmount = {30}
  RecallAmount = {30}
  PriorityValue = {}
  WaterfallOwner = {owner}
  AddInput = {}
  AddBatch = {}
  RemoveIndex = {}
  RemoveBatch = {}
  NewAllocation = {}
  DeactivatingUser = {owner}
  NewOwner = {}
  ClaimEntry <- HeirClaims
  ClaimBatch = {}
  TriggerCaller = {owner}
  ConditionSet <- ManualOnly
  TriggerDate = {}
  InactivityPeriod = {}
  Oracle = {heir}
  Contact = {}
  ListedContact = {}
  GuardianList = {}
  Threshold = {}

PROPERTIES
  HeirsAreServed

CHECK_DEADLOCK FALSE
