\* Commands run out and every request has been sent.
SPECIFICATION FilesSpec
CONSTANTS
  p1 = p1
  p2 = p2
  a1 = a1
  a2 = a2
  None = None
  Procs = {p1, p2, p3}
  Inodes = {1, 2, 3, 4}
  Nobody = Nobody
  Gone = Gone
SYMMETRY Symmetry
INVARIANTS
  ResolveInv
  ConfigInv
  IdentityInv
  
  UploadInv
PROPERTIES
  IsMutex
  FileSteps
  UploadSteps
CHECK_DEADLOCK FALSE
