SPECIFICATION Spec
CONSTANTS
  own = own  p = p  g = g  q = q  old = old  u = u  a = a  b = b
  Id = {own, p, q, old, u}
  Old = {old, u}
  Own = own
  Person <- MCPerson
  Label <- MCLabel
  Path = {a, b}
  Remote = {g}
  MaxRows = 3
  MaxCalls = 4
  MaxStarts = 2
  MaxSessions = 1
  None = None
INVARIANTS MintedGuidsDistinct RemovalRefusedOnlyIf OneRowPerDevice
PROPERTIES GoneMeansForgotten RelationsKept RowsNotReused
CHECK_DEADLOCK FALSE
