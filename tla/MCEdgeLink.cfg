\* a session lost, the server restarting; everything then drains
CONSTANTS
  Keys = {k1, k2}
  OutboxCap = 2  ResyncCap = 1  SourceCap = 2  WireCap = 1
  MaxChanges = 2  MaxInputs = 1  MaxDrops = 1
SPECIFICATION FairSpec
INVARIANTS
  TypeOK
  ServerHoldsLast
PROPERTIES
  ImplementsMirror
  InputsRouted
