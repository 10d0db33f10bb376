SPECIFICATION MCSpec
CONSTANTS
  Wires <- MCWires
  Endings = {"fin", "reset", "lost", "open"}
  None = None
  PeerDatagrams <- MCPeerDatagrams
  Offers <- MCOffers
  Connects <- MCConnects
  Sessions = {1, 64, 16384}
  Data <- MCData
  MaxChunk = 3
INVARIANTS
  ResolvedIsOpened
  ReadsAreExact
  OnlyStaleLengthsFail
  DatagramsKeepTheirStream
  SessionIsNegotiated
PROPERTIES
  EndedIsSettled
CHECK_DEADLOCK FALSE
