\* One accepted connection and an unexpected loss of the control channel.
SPECIFICATION ControlSpec
CONSTANTS
  Openers = {o1}
  Tunnels = {t1}
  Streams = {s1}
  Workers = {w1}
  Acceptors = {a1}
  TClosers = {}
  Closers = {}
  QueueLimit = 1
  ResponseLimit = 1
  ConnLimit = 1
  Conns = {c1}
  Peers = {p1}
  Readers = {}
  Writers = {}
  SocketClosers = {}
  Waiters = {}
  MaxTime = 0
  MaxSets = 0
  TransportLoss = FALSE
  None = None
INVARIANT AcceptedSurvivesControlLoss
CHECK_DEADLOCK FALSE
