SPECIFICATION Spec
CONSTANTS
  Clients = {c1, c2, c3}
  NoClient = NoClient
  MaxSubscribes = 0
  MaxConnections = 0
  MaxWork = 1
INVARIANT LimitUnlessTorn
PROPERTY FailedIsUncounted
CHECK_DEADLOCK FALSE
