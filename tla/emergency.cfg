SPECIFICATION Spec

CONSTANTS
  owner = owner
  heir = heir
  admin_ = admin_
  ann = ann
  bob = bob
  cid = cid
  Address = {owner, heir, admin_}
  Contract = Contract
  None = None
  Email = {ann, bob, cid}
  EmailLength <- MCEmailLength
  ClaimCode = {1, 2}
  U64Max = 100000
  InitialTokens <- Tokens200
  MaxPlans = 1
  MaxTime = 15
  MaxRecovered = 40
  Days = {7}
  AdminCandidate = {admin_}
  RoleChange = {}
  PauseValue = {}
  KycUser = {owner}
  KycRejected = {}
  KycBatch = {}
  CreateAmount = {100}
  CreateMethod = {"LumpSum"}
  CreateInputs <- JustUneven
  LendableValue = {FALSE}
  DepositAmount = {}
  WithdrawAmount = {90}
  LoanAmount = {}
  RecallAmount = {}
  PriorityValue = {}
  WaterfallOwner = {}
  AddInput = {}
  AddBatch = {}
  RemoveIndex = {}
  RemoveBatch = {}
  NewAllocation = {}
  DeactivatingUser = {}
  NewOwner = {}
  ClaimEntry <- OwnerEntries
  ClaimBatch <- OwnerBatches
  TriggerCaller = {heir}
  ConditionSet = {}
  TriggerDate = {7}
  InactivityPeriod = {7}
  Oracle = {}
  Contact = {heir, admin_}
  ListedContact = {}
  GuardianList <- GuardianLists
  Threshold = {1, 2}

PROPERTIES
  GuardianAccessHasQuorum
  EmergencyAccessIsNotReplaced
  TriggersAreDue
  CooldownLimitsEachPayment

CHECK_DEADLOCK FALSE
