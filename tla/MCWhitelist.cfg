SPECIFICATION Spec
CONSTANTS
  None = None
  U128_MAX = 2
  Self = ssa
  Recipients = {vendor}
  Tokens = {usd}
  MaxElements = 3
INVARIANT
  BatchesAreAtomicLoops
CHECK_DEADLOCK FALSE
