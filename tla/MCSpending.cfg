SPECIFICATION Spec
CONSTANTS
  None = None
  swf = swf
  ssa = ssa
  vendor = vendor
  timelock = timelock
  council = council
  usd = usd
  U128_MAX = 3
  SpendingAccounts = {ssa}
  Holders = {timelock, council}
  Recipients = {ssa, vendor}
  Tokens = {usd}
  Deployments <- Wiring
  EntryLists <- VendorEntries
  KeyLists <- VendorKeys
  ChangeLists <- VendorChanges
  Amounts = {0, 1, 2}
  InitialFunds <- Purse
  MaxTransfers = 3
  MaxEdits = 4
INVARIANTS
  TypeOK
  AllowanceConserved
  FundsAccounted
  SelfNotWhitelisted
  EventsTellPayments
PROPERTY
  NoResurrection
CHECK_DEADLOCK FALSE
