\* Two openers and tunnels with a Close of each kind, or two proxied connections through one-slot queues; the channel ends.
SPECIFICATION ControlSpec
CONSTANTS
  Openers = {o1, o2}
  Tunnels = {t1, t2}
  Streams = {s1, s2}
  Workers = {w1}
  Acceptors = {a1}
  TClosers = {c1}
  Closers = {k1}
  QueueLimit = 1
  ResponseLimit = 1
  ConnLimit = 1
  Conns = {c1}
  Peers = {p1}
  Readers = {}
  Writers = {}
  SocketClosers = {}
  Waiters = {}
  MaxTime = 0
  MaxSets = 0
  TransportLoss = FALSE
  None = None
SYMMETRY Symmetry
INVARIANTS
  TypeOK
  OneResultPerOpen
  NoLostOpen
  OpenTunnelTracked
  ProxyInv
PROPERTIES
  CloseAfterResponses
CHECK_DEADLOCK FALSE
