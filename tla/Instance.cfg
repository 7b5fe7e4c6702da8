SPECIFICATION FairSpec
CONSTANTS
  p1 = p1
  p2 = p2
  m1 = m1
  m2 = m2
  m3 = m3
  b1 = b1
  b2 = b2
  b3 = b3
  b4 = b4
  NoMsg = NoMsg
  NoBuf = NoBuf
  Garbage = Garbage
  Proc <- Callers
  Msg <- Messages
  Buf <- Buffers
  Setups <- CheckedSetups
  BufferSize = 1
  FaultKinds = {"disk", "crash"}
  MaxFaults = 2
INVARIANTS
  TypeOK
  OneOwner
  FifoOnce
  NoLoss
  CloseMakesDurable
  SentOnce
PROPERTIES
  DiskKept
  CallReturns
  CloseReturns
  BootDelivers
CHECK_DEADLOCK FALSE
