CONSTANTS
  hub = hub  d1 = d1  d2 = d2
  Device = {hub, d1, d2}
  Path = {a}
  Content = {x, y}
  DeviceId = {hub, d1, d2, anon}
  Links <- StarLinks
  Watched <- MutualWatch
  Id <- OwnId
  Anonymous = anon
  NoPin = NoPin
  MaxEdits = 2
  Missing = Missing
SPECIFICATION WatchSpec
INVARIANTS IdleWatchesAgree
    
