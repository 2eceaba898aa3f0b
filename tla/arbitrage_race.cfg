\* Three requests, at most two at the same time, on one session: every
\* interleaving of their reads and writes.
CONSTANTS
  Requests = {r1, r2, r3}
  Opps = {o1, o2}
  Ttl = 1
  MaxSnapshots = 1
  MaxEvents = 1
  Limit = 1
  MaxClock = 1
  MaxFound = 1
  MaxInFlight = 2
SPECIFICATION Spec
SYMMETRY Symmetric
INVARIANTS QuietWithinCaps CountWithinSightings
CHECK_DEADLOCK FALSE
