SPECIFICATION FairSpec
CONSTANTS
  p1 = p1
  p2 = p2
  m1 = m1
  m2 = m2
  m3 = m3
  b1 = b1
  b2 = b2
  b3 = b3
  b4 = b4
  NoMsg = NoMsg
  NoBuf = NoBuf
  Garbage = Garbage
  Proc <- Callers
  Msg <- Messages
  Buf <- Buffers
  Setups <- BlockSetup
  BufferSize = 1
  FaultKinds = {}
  MaxFaults = 0
PROPERTIES
  BlockedCallReturns
CHECK_DEADLOCK FALSE
