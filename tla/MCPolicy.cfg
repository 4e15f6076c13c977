SPECIFICATION Spec
CONSTANTS
  None = None
  policy = policy
  payment = payment
  council = council
  payers = payers
  guardian = guardian
  vendor = vendor
  U64_MAX = 1000000
  U128_MAX = 255
  MAX_DELAY_NS = 1
  Timelocks = {policy, payment}
  Daos = {council, payers}
  Users = {guardian, vendor}
  Deployments <- Policy
  ScheduleArgs <- PolicyArgs
  ProposalArgs = {}
  SetterCalls <- PolicySetters
  Deposits = {0}
  StorageCost = 1
  InitialBalance <- Funds
  MaxRequests = 2
  Capacity <- PolicyCapacity
  MaxTime = 3
  MaxProposals = 0
INVARIANTS
  TypeOK
PROPERTY
  ConfigChangesWait
CHECK_DEADLOCK FALSE
