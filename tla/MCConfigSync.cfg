\* edits, gestures, a lost session and a crash, then only the fair steps
CONSTANTS
  m1 = m1  m2 = m2  v1 = v1  v2 = v2  g1 = g1
  MappingIds = {m1, m2}
  Values = {v1, v2}
  Glyphs = {g1, g2}
  NextOf <- Alternate
  Absent = Absent  NoCycle = NoCycle  NoFile = NoFile  Torn = Torn
  NoGesture = NoGesture
  Start <- MCStart
  MaxEdits = 2  MaxGestures = 2  MaxDrops = 1  MaxCrashes = 1
SPECIFICATION FairSpec
CHECK_DEADLOCK FALSE
INVARIANTS
  TypeOK
  NeverMixed
  
  

  
