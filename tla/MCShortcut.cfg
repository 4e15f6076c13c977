SPECIFICATION TreasurySpec
CONSTANTS
  None = None
  policy = policy
  payment = payment
  council = council
  payers = payers
  guardian = guardian
  vendor = vendor
  ssa = ssa
  usd = usd
  U64_MAX = 1000000
  U128_MAX = 255
  MAX_DELAY_NS = 1
  Timelocks = {policy, payment}
  Daos = {council, payers}
  Users = {guardian, vendor, ssa}
  Deployments <- Timelock
  ScheduleArgs <- Shortcut
  ProposalArgs = {}
  SetterCalls = {}
  Deposits = {0}
  StorageCost = 1
  InitialBalance <- Funds
  MaxRequests = 2
  Capacity <- Room
  MaxTime = 2
  MaxProposals = 0
  SpendingAccounts = {ssa}
  Recipients = {vendor}
  Tokens = {usd}
  AccountDeployments <- Account
  InitialFunds <- Purse
  AccountCalls <- Outside
  MaxTransfers = 6
  MaxEdits = 9
INVARIANT
  NewRecipientTakesTwoVotes
CHECK_DEADLOCK FALSE
