\* a connection lost, fewer intents than a channel holds
CONSTANTS
  Full = 2  Unmuted = 1  Unknown = Unknown  None = None
  QueueCap = 3  MaxInbox = 1
  MaxIntents = 1  MaxEvents = 2
SPECIFICATION FairSpec
CHECK_DEADLOCK FALSE
INVARIANTS
  NoIntentLost
PROPERTIES
  StateArrives
  
