CONSTANTS
  hub = hub  d1 = d1  d2 = d2
  Device = {hub, d1}
  Path = {a}
  Content = {x, y}
  DeviceId = {hub, d1, anon}
  Links <- PairLinks
  Watched <- PairLinks
  Id <- OwnId
  Anonymous = anon
  NoPin = NoPin
  MaxEdits = 1
  Missing = Missing
SPECIFICATION WatchSpec
PROPERTY NewestEditSurvives
