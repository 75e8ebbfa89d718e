SPECIFICATION FairSpec
CONSTANTS
  o1 = o1  o2 = o2  c1 = c1  c2 = c2
  Op = {o1, o2}
  Conn = {c1, c2}
  FixedPort = 1
  PortOf <- MCPortOf
  MAX_SESSIONS = 1
  Capacity = 1
  MaxEvents = 1
  MaxOps = 3
INVARIANTS NoListenerLost TableServes
PROPERTIES  CallsReturn EventsPolled ConnectionsEnd
CHECK_DEADLOCK FALSE
