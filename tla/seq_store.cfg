CONSTANTS
  Writers = {w1, w2}
  a = a
  b = b
  c = c
  Requests <- MCRequests
SPECIFICATION Spec
SYMMETRY Symmetric
INVARIANTS OrderIsRealTime SnapshotPlusTailIsLog StoredAsTold
CHECK_DEADLOCK FALSE
