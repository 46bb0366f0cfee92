SPECIFICATION Spec
CONSTANTS
  Clients = {c1, c2}
  NoClient = NoClient
  MaxSubscribes = 1
  MaxConnections = 1
  MaxWork = 2
SYMMETRY MCSymmetry
INVARIANTS ProperClientsServed BroadcastReachesAll
CHECK_DEADLOCK FALSE
