SPECIFICATION FairSpec
CONSTANTS
  None = None
  policy = policy
  payment = payment
  council = council
  payers = payers
  guardian = guardian
  vendor = vendor
  U64_MAX = 1000000
  U128_MAX = 255
  MAX_DELAY_NS = 1
  Timelocks = {payment}
  Daos = {council, payers}
  Users = {guardian, vendor}
  Deployments <- SelfAdministered
  ScheduleArgs <- LiveArgs
  ProposalArgs <- ProposalSet
  SetterCalls = {}
  Deposits = {0, 1}
  StorageCost = 1
  InitialBalance <- Funds
  MaxRequests = 2
  Capacity <- Full
  MaxTime = 2
  MaxProposals = 2
PROPERTIES
  QueueDrains
  ProposalsSettle
CHECK_DEADLOCK FALSE
