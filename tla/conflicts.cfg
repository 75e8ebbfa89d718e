CONSTANTS
  own = own  peer = peer  a = a  b = b
  Folders = 2
  Device = {own, peer}
  Own = own
  Peers <- MCPeers
  Never = Never
  Ages = {300, Never}
  Path = {a, b}
  Stem <- MCStem
  Content = {x, y}
  Session = {s1, s2}
  Started = {s2}
  MaxTime = 2
  MaxFiles = 2
  MaxEdits = 1
  MaxResolves = 1
  MaxCopies = 2
  Nothing = Nothing
SPECIFICATION Spec
SYMMETRY Alike
INVARIANTS ContentsStayHome ConflictsShown
PROPERTIES LossesExplained FilesAreWhole
CHECK_DEADLOCK FALSE
