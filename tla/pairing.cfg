CONSTANTS
  d1 = d1  f1 = f1
  Device = {d1}
  Folder = {f1}
  Policy = "confirm"
  Frontend = "app"
  EventCap = 2
  Errors = TRUE
  Removals = TRUE
  Operator = op
  NoFolder = NoFolder
  MaxCalls = 2
SPECIFICATION ClientSpec
INVARIANT PairedMeansAdmitted
PROPERTIES GrantGetsWired RequestsAnswered TimedCallsEnd GrantCollected
