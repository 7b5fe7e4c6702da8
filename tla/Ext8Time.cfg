SPECIFICATION Spec
CONSTANTS
  Values <- MCValues
  Common <- MCCommon
  MaxValues = 1
  Cuts <- MCCuts
INVARIANTS
  TimesRead
CHECK_DEADLOCK FALSE
