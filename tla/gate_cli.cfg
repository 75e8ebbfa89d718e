CONSTANTS
  Device = {d1}
  Folder = {f}
  Policy = "confirm"
  Frontend = "cli"
  EventCap = 2
  Errors = TRUE
  Removals = TRUE
  Operator = op
  NoFolder = NoFolder
SPECIFICATION Spec
INVARIANTS ConsentedOnly DeniedNotQueued GrantNeedsTrust ApprovalHasCert
