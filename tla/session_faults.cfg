\* One file, every failure, two edits, files in two frames, one content over
\* the receiver's limit.  A silent network leaves a task waiting for an index
\* for ever, so the system may stop.
CONSTANTS
  Path = {a}
  Content = {x, y, z}
  TooBig = {z}
  DeviceId = {k}
  ClientKey = k
  ServerKey = k
  Now = 3
  Chunks = 2
  SockCap = 8
  DryRun = TRUE
  Faults = {"reset", "silent", "disk"}
  MaxEdits = 2
  EventCap = 1
  Drained = {"client", "server"}
  Missing = Missing
  NoIndex = NoIndex
  NoWrite = NoWrite
SPECIFICATION Spec
SYMMETRY Symmetry
INVARIANTS TypeOK TransferredOnce CompleteMerges DryRunLeavesFiles
PROPERTIES SyncPreserves ImplementsContract
CHECK_DEADLOCK FALSE
