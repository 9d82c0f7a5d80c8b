\* Everything ends.
SPECIFICATION EndingsSpec
CONSTANTS
  Openers = {o1}
  Tunnels = {t1}
  Streams = {s1, s2}
  Workers = {w1, w2}
  Acceptors = {a1}
  TClosers = {c1}
  Closers = {k1}
  QueueLimit = 1
  ResponseLimit = 1
  ConnLimit = 1
  Conns = {c1, c2}
  Peers = {p1, p2}
  Readers = {r1}
  Writers = {w1}
  SocketClosers = {k1}
  Waiters = {r1, r2}
  MaxTime = 3
  MaxSets = 2
  TransportLoss = FALSE
  None = None
PROPERTIES
  ControlEnds
  PacketsEnd
CHECK_DEADLOCK FALSE
