SPECIFICATION FairSpec
CONSTANTS
  Uni = {1, 2}
  GoawayIds = {0, 1, 4}
  PushIds = {0, 1}
  MaxFrames = 3
  MaxUnread = 1
  Configs <- MCConfigs
  EnableWT = TRUE
  None = None
INVARIANTS
  VerdictIsRFCExceptPushIds
  NoFrameLost
PROPERTIES
  ArrivedIsRead
CHECK_DEADLOCK FALSE
