SPECIFICATION Spec
CONSTANTS
  None = None
  Entries = {1, 2, 3, 4}
  PageSizes = {1, 2}
  U32_MAX = 7
  MaxRemovals = 3
INVARIANTS
  MissedOnlyByRemoval
  ListedTwiceOnlyIfReturned
CHECK_DEADLOCK FALSE
