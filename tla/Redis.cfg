SPECIFICATION RedisSpec
CONSTANTS
  ann = ann
  General = General
  NoChannel = NoChannel
  Names <- BothNames
  MaxCalls = 3
  MaxTime = 1
  MaxCrashes = 1
  MaxFailures = 1
INVARIANTS
  RedisTypeOK
  RegisteredLogsIn
  ListedIsWhole
  UnreadableExplained
  MessagesKept
  MessagesInTheirChannel
CHECK_DEADLOCK FALSE
