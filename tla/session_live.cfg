CONSTANTS
  Path = {a}
  Content = {x, y}
  TooBig = {}
  DeviceId = {k}
  ClientKey = k
  ServerKey = k
  Now = 3
  Chunks = 1
  SockCap = 8
  DryRun = TRUE
  Faults = {"reset", "silent", "disk"}
  MaxEdits = 1
  EventCap = 1
  Drained = {"server"}
  Missing = Missing
  NoIndex = NoIndex
  NoWrite = NoWrite
SPECIFICATION FairSpec
PROPERTIES  EndsUnlessSilent
CHECK_DEADLOCK FALSE
