\* full channels, merges, a late adapter; everything is settled
CONSTANTS
  Targets = {roon, hue}
  Eager = {roon}
  Discrete = {"play_pause"}
  Continuous = {"volume_change", "seek_relative"}
  Amounts <- MCAmounts
  NoWorker = NoWorker
  IntakeCap = 2  WorkerCap = 3
  MaxIntents = 4
SPECIFICATION FairSpec
CHECK_DEADLOCK FALSE
INVARIANTS
  TypeOK
  InOrder
PROPERTIES
  NoForwardPastWorker
  
