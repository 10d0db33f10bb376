SPECIFICATION FairSpec
CONSTANTS
  Uni = {1, 2}
  GoawayIds = {0, 1, 4}
  PushIds = {0, 1}
  MaxFrames = 3
  MaxUnread = 1
  Configs <- GreasingServer
  EnableWT = TRUE
  None = None
INVARIANT
  GoawayIsRemembered
CHECK_DEADLOCK FALSE
