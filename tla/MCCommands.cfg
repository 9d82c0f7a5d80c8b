SPECIFICATION CommandsSpec
CONSTANTS
  s1 = s1
  s2 = s2
  None = None
  Invalid = Invalid
  Duplicate = Duplicate
  Names = {"web", "api"}
  Specs = {"s1", "s2", "bad"}
  Bad = {"bad"}
  Contents <- MCContents
  Watched = {TRUE, FALSE}
  MaxChanges = 2
INVARIANTS
  ReconcileInv
  
  
  MCPInv
  UIInv
  RTCInv
PROPERTIES
  LoginsStayOut
  CommandsEnd
