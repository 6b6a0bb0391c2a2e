\* a pump of edge-agent, or the one of the iOS edge
CONSTANTS
  z1 = z1  z2 = z2
  Platforms = {"edge", "ios"}
  EdgePumps = {roon}
  IosPump = ios
  Targets <- Zones
  Updates <- Published
  MappingLists <- Lists
  GlyphSets <- Registries
  FramesOf <- Titles
  Letters <- Chars
  NoTitle = NoTitle  NoPlan = NoPlan
  NotDrawn = NotDrawn  AnyTarget = AnyTarget
  SourceCap = 2  MaxUpdates = 3  MaxEdits = 1
SPECIFICATION FairSpec
CHECK_DEADLOCK FALSE
INVARIANTS
  TypeOK
  SupersededScrollEnds
  
  
PROPERTIES
  Settles
