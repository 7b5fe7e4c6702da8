SPECIFICATION Spec
CONSTANTS
  e1 = e1
  e2 = e2
  e3 = e3
  Garbage = Garbage
  Entry <- MCEntry
  FaultKinds = {"disk", "crash"}
  MaxFaults = 2
INVARIANTS
  TypeOK
  NoLoss
  NoRedelivery
PROPERTY ImplementsStore
