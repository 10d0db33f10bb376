SPECIFICATION FairSpec
CONSTANTS
  Wires <- MCWires
  Endings = {"fin"}
  Roles = {"client"}
  MaxChunk = 4
  None = None
INVARIANT
  NoneMeansFinished
CHECK_DEADLOCK FALSE
