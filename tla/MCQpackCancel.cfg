SPECIFICATION Spec
CONSTANTS
  Streams = {4, 8}
  Fields <- MCFields
  mem_size <- MCmem_size
  StaticFields <- MCStaticFields
  StaticNames <- MCStaticNames
  Lists <- MCSingles
  Sizes = {40}
  blocked_max = 2
  MaxSections = 2
  Careful = FALSE
INVARIANT
  DecodesToOriginal
CHECK_DEADLOCK FALSE
