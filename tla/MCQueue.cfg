SPECIFICATION Spec
CONSTANTS
  None = None
  policy = policy
  payment = payment
  council = council
  payers = payers
  guardian = guardian
  vendor = vendor
  U64_MAX = 1000000
  U128_MAX = 255
  MAX_DELAY_NS = 1
  Timelocks = {payment}
  Daos = {council, payers}
  Users = {guardian, vendor}
  Deployments <- SelfAdministered
  ScheduleArgs <- QueueArgs
  ProposalArgs = {}
  SetterCalls = {}
  Deposits = {0, 1}
  StorageCost = 1
  InitialBalance <- Funds
  MaxRequests = 3
  Capacity <- Full
  MaxTime = 3
  MaxProposals = 0
INVARIANTS
  VetoWindow
  OneFate
  FrozenAtScheduling
  PredecessorRunsFirst
  RefundsReachFunder
  EscrowExact
CHECK_DEADLOCK FALSE
