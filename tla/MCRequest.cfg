SPECIFICATION FairSpec
CONSTANTS
  Wires <- MCWires
  Endings = {"fin", "reset", "lost", "open"}
  Roles = {"client", "server"}
  MaxChunk = 3
  None = None
INVARIANTS
  OutcomeIsRFCExceptSettings
  BodyIsFaithful
  NoneIsTrustworthy
PROPERTIES
  MessageEnds
CHECK_DEADLOCK FALSE
