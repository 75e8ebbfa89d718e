CONSTANTS
  me = me  m1 = m1  own = own  d1 = d1  d2 = d2  a1 = a1
  Machine = {me, m1, m2}
  Me = me
  Id = {own, d1, d2}
  Own = own
  Owner <- MCOwner
  Addr = {a1, a2, a3}
  Literal <- MCLiteral
  Rows <- MCRows
  Known = {d1}
  MaxMoves = 1
  MaxCalls = 2
  None = None
SPECIFICATION Spec
INVARIANT RowsStandForOneMachine
PROPERTY BulkAnswersEvery
CHECK_DEADLOCK FALSE
