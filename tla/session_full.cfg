CONSTANTS
  Path = {a, b}
  Content = {x}
  TooBig = {}
  DeviceId = {k}
  ClientKey = k
  ServerKey = k
  Now = 3
  Chunks = 2
  SockCap = 1
  DryRun = FALSE
  Faults = {}
  MaxEdits = 0
  EventCap = 1
  Drained = {"client", "server"}
  Missing = Missing
  NoIndex = NoIndex
  NoWrite = NoWrite
SPECIFICATION FairSpec
PROPERTY SessionEnds
CHECK_DEADLOCK FALSE
