SPECIFICATION Spec
CONSTANTS
  None = None
  U64_MAX = 1000000
  U128_MAX = 255
  Supply = 254
  Gases = {0, 30000, 140000, 1000000}
  DepositAmounts = {0, 1, 127, 255}
  MaxActions = 3
INVARIANTS
  EscrowMatchesBatch
  AcceptedRequestsAreExecutable
CHECK_DEADLOCK FALSE
