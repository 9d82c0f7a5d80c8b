\* A retry of an upload: every request has been sent.
SPECIFICATION RetrySpec
CONSTANTS
  p1 = p1
  p2 = p2
  a1 = a1
  a2 = a2
  None = None
  Procs = {p1, p2, p3}
  Inodes = {1, 2, 3, 4}
  Nobody = Nobody
  Gone = Gone
INVARIANT AcknowledgedDurable
CHECK_DEADLOCK FALSE
