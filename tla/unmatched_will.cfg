SPECIFICATION RecordsSpec

CONSTANTS
  owner = owner
  heir = heir
  admin_ = admin_
  ann = ann
  bob = bob
  cid = cid
  Address = {owner, heir, admin_}
  Contract = Contract
  None = None
  Email = {ann, bob, cid}
  EmailLength <- MCEmailLength
  ClaimCode = {1, 2}
  U64Max = 100000
  InitialTokens <- Tokens200
  MaxPlans = 1
  MaxTime = 1
  MaxRecovered = 40
  Days = {}
  AdminCandidate = {admin_}
  RoleChange = {}
  PauseValue = {}
  KycUser = {owner}
  KycRejected = {}
  KycBatch = {}
  CreateAmount = {100}
  CreateMethod = {"LumpSum"}
  CreateInputs <- JustHalves
  LendableValue = {FALSE}
  DepositAmount = {}
  WithdrawAmount = {}
  LoanAmount = {}
  RecallAmount = {}
  PriorityValue = {}
  WaterfallOwner = {}
  AddInput = {}
  AddBatch = {}
  RemoveIndex = {}
  RemoveBatch = {}
  NewAllocation = {}
  DeactivatingUser = {}
  NewOwner = {}
  ClaimEntry = {}
  ClaimBatch = {}
  TriggerCaller = {}
  ConditionSet = {}
  TriggerDate = {}
  InactivityPeriod = {}
  Oracle = {}
  Contact = {}
  ListedContact = {}
  GuardianList = {}
  Threshold = {}
  hash1 = hash1
  hash2 = hash2
  letter1 = letter1
  letter2 = letter2
  WillHash = {hash1, hash2}
  Content = {letter1, letter2}
  MaxVersions = 0
  MaxMessages = 0
  StoredHash = {}
  VersionHash = {}
  SignedHash = {}
  WillList <- TwiceNamed
  Witness = {}
  MessageParams = {}
  MessageBatch = {}
  UpdateParams = {}
  NoticeIndex = {}
  AckValue = {}

PROPERTIES
  MatchingWillNamesEveryone

CHECK_DEADLOCK FALSE
