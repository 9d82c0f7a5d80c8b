\* One stream whose QUIC connection may be lost.
SPECIFICATION FairSpec
CONSTANTS
  None = None
  Streams = {s1}
  ChannelIds = {i1}
  Acceptors = {a1}
  QueueSize = 1
  TransportLoss = TRUE
PROPERTIES
  CleanupCompletes
CHECK_DEADLOCK FALSE
