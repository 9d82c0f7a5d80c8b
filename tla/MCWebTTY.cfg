\* Sessions, commands and servers end.
SPECIFICATION WebTTYSpec
CONSTANTS
  MaxMessages = 2
  MaxData = 1
INVARIANTS
  SessionInv
  
  ServerInv
  PeersInv
  DiscoveryInv
  JoinInv
PROPERTIES
  WireProtocol
  
CHECK_DEADLOCK FALSE
