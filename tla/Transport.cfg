SPECIFICATION FairSpec
CONSTANTS
  Streams <- MCStreams
  Timeouts = {TRUE, FALSE}
INVARIANTS
  TypeOK
  OrderedPrefix
  AckFollows
  PanicKeepsEntries
PROPERTIES
  Completes
CHECK_DEADLOCK FALSE
