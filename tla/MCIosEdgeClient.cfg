\* one client replaced by another, an app killed or a link broken
CONSTANTS
  Tasks = {t1}
  OutboxCap = 1  Edited = {"cycles", "glyphs"}
  MaxClients = 2  MaxEvents = 2
SPECIFICATION FairSpec
CHECK_DEADLOCK FALSE
INVARIANTS
  ShownOnlineIsOnline
  FilesFollow
  

  
