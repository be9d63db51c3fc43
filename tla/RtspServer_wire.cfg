SPECIFICATION Spec
CONSTANTS
  c1 = c1
  Clients = {c1}
  Leavers = {c1}
  Requests <- AnyRequests
  MaxRequests = 3
  MaxOutstanding = 3
  Cuts = TRUE
  FdLimit = 3
INVARIANTS
  AnswersMatch
  DownHasCause
CHECK_DEADLOCK FALSE
