\* Each part may come to its end.
SPECIFICATION ClientSpec
CONSTANTS
  w1 = w1
  w2 = w2
  w3 = w3
  c1 = c1
  c2 = c2
  r1 = r1
  r2 = r2
  r3 = r3
  d1 = d1
  d2 = d2
  k1 = k1
  o1 = o1
  o2 = o2
  None = None
  NoGen = NoGen
  NoOffer = NoOffer
  Dials = {1, 2, 3}
INVARIANTS
  LinkInv
  DetachKeepsConns
  ClientInv
  TransportsInv
  EngineInv
PROPERTIES
  WritesFrames
  ClientEnds
CHECK_DEADLOCK FALSE
