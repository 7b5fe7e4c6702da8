SPECIFICATION Spec
CONSTANTS
  e1 = e1
  e2 = e2
  e3 = e3
  Garbage = Garbage
  Entry <- MCEntry
  FaultKinds = {"crash"}
  MaxFaults = 1
PROPERTY DurableKept
