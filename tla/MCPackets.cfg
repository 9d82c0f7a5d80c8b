\* The channels and the socket end.
SPECIFICATION PacketsSpec
CONSTANTS
  Openers = {o1}
  Tunnels = {t1}
  Streams = {s1}
  Workers = {w1}
  Acceptors = {a1}
  TClosers = {c1}
  Closers = {k1}
  QueueLimit = 1
  ResponseLimit = 1
  ConnLimit = 1
  Conns = {c1, c2}
  Peers = {p1, p2}
  Readers = {r1}
  Writers = {}
  SocketClosers = {k1, k2}
  Waiters = {r1, r2}
  MaxTime = 4
  MaxSets = 3
  TransportLoss = TRUE
  None = None
SYMMETRY Symmetry
INVARIANT PacketsInv
CHECK_DEADLOCK FALSE
