SPECIFICATION FairSpec
CONSTANTS
  HeaderLen = 2
  GreaseLen = 3
  Payloads = {0, 2}
  Window = 2
  MaxData = 1
  MaxDrops = 2
  Grease = {TRUE, FALSE}
  StopCode = 268
  None = None
INVARIANTS
  NeverMisused
  OkMeansWritten
PROPERTIES
  CallReturns
  ImplementsByteStream
CHECK_DEADLOCK FALSE
