\* as many intents as the channel holds before the connection is there
CONSTANTS
  Full = 2  Unmuted = 1  Unknown = Unknown  None = None
  QueueCap = 2  MaxInbox = 1
  MaxIntents = 2  MaxEvents = 2
SPECIFICATION FairSpec
CHECK_DEADLOCK FALSE
PROPERTY StateArrives
