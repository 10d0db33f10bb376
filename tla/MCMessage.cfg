SPECIFICATION Spec
CONSTANTS
  None = None
  Spelling <- MCSpelling
  MaxPower = 21
  Messages <- MCMessages
  PeerLists <- MCPeerLists
  PeerBlocks <- MCPeerBlocks
  Limits = {41, 100, 1000}
  Cuts = {1, 2, 3, 4, 8}
  Valid <- MCValid
INVARIANTS
  ArrivesUnchanged
  LimitsAreRespected
  CutNeverInvents
  StringsAreCanonical
  WellFormedOnly
CHECK_DEADLOCK FALSE
