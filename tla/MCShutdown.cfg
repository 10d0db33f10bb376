SPECIFICATION FairSpec
CONSTANTS
  MaxIndex = 2
  Senders = {h1, h2}
  Grace = {0, 1}
  MaxShutdowns = 2
  MaxCancels = 1
  None = None
INVARIANTS
  NoIdError
  GoawayIsUpperBound
  NoneMeansAllDone
PROPERTIES
  ServerFinishes
  EveryRequestResolved
  GraceHonouredWhenBusy
CHECK_DEADLOCK FALSE
