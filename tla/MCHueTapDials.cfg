\* two bridges of which one moves, requests that fail, two dials
CONSTANTS
  h1 = h1  b1 = b1
  Hosts = {h1, h2}  Bridges = {b1, b2}  Paired = b1
  NoId = NoId  Nobody = Nobody
  StartTokens <- MCTokens
  OutboxCap = 1
  Dials = {d1, d2}  Unknown = Unknown
  MaxMoves = 1  MaxFaults = 1  MaxDialEvents = 2  MaxBreaks = 1
SPECIFICATION FairSpec
CHECK_DEADLOCK FALSE

  
PROPERTIES
  ComesOnline
