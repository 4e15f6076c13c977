SPECIFICATION FairSpec
CONSTANTS
  None = None
  swf = swf
  ssa = ssa
  vendor = vendor
  timelock = timelock
  council = council
  usd = usd
  U128_MAX = 3
  SpendingAccounts = {swf, ssa}
  Holders = {timelock}
  Recipients = {ssa, vendor}
  Tokens = {usd}
  Deployments <- OneHolder
  EntryLists <- ChainEntries
  KeyLists <- VendorKeys
  ChangeLists = {}
  Amounts = {0, 1, 2}
  InitialFunds <- ChainPurse
  MaxTransfers = 3
  MaxEdits = 3
INVARIANTS
  AllowanceConserved
  FundsAccounted
PROPERTIES
  ImplementsLedger
  ReservationsEnd
CHECK_DEADLOCK FALSE
