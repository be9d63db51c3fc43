SPECIFICATION FairSpec
CONSTANTS
  c1 = c1
  c2 = c2
  Clients = {c1, c2}
  Leavers = {}
  Requests <- SessionRequests
  MaxRequests = 3
  MaxOutstanding = 1
  Cuts = FALSE
  FdLimit = 5
INVARIANTS
  TypeOK
  StreamsArePrivate
PROPERTIES
  ImplementsSession
  RequestsAnswered
CHECK_DEADLOCK FALSE
