\* A retry after a DELETE and a loss of power.
SPECIFICATION RetrySpec
CONSTANTS
  p1 = p1
  p2 = p2
  a1 = a1
  a2 = a2
  None = None
  Procs = {p1, p2, p3}
  Inodes = {1, 2, 3, 4}
  Nobody = Nobody
  Gone = Gone
INVARIANT AtMostOneWrite
CHECK_DEADLOCK FALSE
