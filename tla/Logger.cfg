SPECIFICATION Spec
CONSTANTS
  p1 = p1
  p2 = p2
  l1 = l1
  l2 = l2
  b1 = b1
  b2 = b2
  b3 = b3
  NoBuf = NoBuf
  Proc <- Goroutines
  Log <- Loggers
  Buf <- Buffers
  Messages <- MCMessages
  FieldArguments <- MCFieldArguments
  SlogRecords <- MCSlogRecords
  StackTraceThreshold = 3
  QueueSize = 1
  MaxPieces = 2
SYMMETRY Symmetry
INVARIANTS
  TypeOK
  OneOwner
  LoggersKeep
  RecordsFaithful
  PanicsOnlyIfMissing
