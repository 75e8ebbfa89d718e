CONSTANTS
  Path = {a}
  Content = {x, y}
  TooBig = {}
  DeviceId = {k}
  ClientKey = k
  ServerKey = k
  Now = 3
  Chunks = 1
  SockCap = 8
  DryRun = FALSE
  Faults = {}
  MaxEdits = 0
  EventCap = 1
  Drained = {"client", "server"}
  Missing = Missing
  NoIndex = NoIndex
  NoWrite = NoWrite
SPECIFICATION Spec
INVARIANT TiesByHash
CHECK_DEADLOCK FALSE
