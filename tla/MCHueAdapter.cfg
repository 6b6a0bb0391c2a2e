\* a change at the wall, an intent, a failed request, a stream lost, a pump that may lag
CONSTANTS
  Lights = {l1, l2}  Unknown = Unknown
  Full = 1  RingCap = 4
  MaxTouches = 1  MaxIntents = 1  MaxFaults = 1  MaxBreaks = 1
SPECIFICATION Spec
CHECK_DEADLOCK FALSE
INVARIANTS
  TypeOK
  FreshUnlessMissed
  PumpHoldsCache
