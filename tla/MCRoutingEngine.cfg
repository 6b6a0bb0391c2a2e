\* edge-agent: one input loop per device
CONSTANTS
  d1 = d1  d2 = d2  c1 = c1  c2 = c2
  m1 = m1  m2 = m2  m3 = m3  t1 = t1  t2 = t2
  NoId = NoId  NoKind = NoKind  NoCycle = NoCycle  NoMode = NoMode
  Inherit = Inherit  NoPending = NoPending  Quiet = Quiet
  Devices = {d1, d2}
  MappingIds = {m1, m2, m3}
  Targets = {t1, t2}
  Kinds <- MCKinds
  Deltas <- MCDeltas
  Step = 2
  PlainIntents = {"play", "next"}
  ScaledIntents = {"volume_change"}
  Callers = {c1}
  DeviceOf <- MCDeviceOfLoops
  ModeAware = {c1, c2}
  MappingPool <- MCMappingPool
  CyclePool <- MCCyclePool
SPECIFICATION Spec
INVARIANTS
  TablesSafe
  LoopsMatchAdvance
  
PROPERTIES
  GesturesMove
