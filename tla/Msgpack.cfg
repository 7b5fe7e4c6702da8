SPECIFICATION Spec
CONSTANTS
  Values <- MCValues
  Common <- MCCommon
  MaxValues = 3
  Cuts <- MCCuts
INVARIANTS
  IteratorReads
  Aligned
  OffsetReads
CHECK_DEADLOCK FALSE
