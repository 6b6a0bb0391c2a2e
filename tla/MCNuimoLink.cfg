\* links lost, failed connects, the server's commands
CONSTANTS
  Devices = {n1, n2, n3}
  Allowlist = {n1, n2}
  EventCap = 1
  MaxDrops = 2  MaxFails = 2  MaxInputs = 1  MaxCommands = 3
SPECIFICATION FairSpec
CHECK_DEADLOCK FALSE
INVARIANTS
  TypeOK
  NeverIdleWhileDown
  ClosedStaysDown

  
