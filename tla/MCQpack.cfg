SPECIFICATION Spec
CONSTANTS
  Streams = {4, 8}
  Fields <- MCFields
  mem_size <- MCmem_size
  StaticFields <- MCStaticFields
  StaticNames <- MCStaticNames
  Lists <- MCLists
  Sizes = {40, 70}
  blocked_max = 2
  MaxSections = 2
  Careful = TRUE
INVARIANTS
  TypeOK
  DecodesToOriginal
  TablesAgree
  TracksOutstanding
  BlockedAreCounted
CHECK_DEADLOCK FALSE
