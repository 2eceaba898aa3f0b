\* Three requests one at a time, each finding up to two opportunities, with
\* time passing between any two steps.
CONSTANTS
  Requests = {r1, r2, r3}
  Opps = {o1, o2}
  Ttl = 2
  MaxSnapshots = 2
  MaxEvents = 2
  Limit = 2
  MaxClock = 4
  MaxFound = 2
  MaxInFlight = 1
SPECIFICATION Spec
SYMMETRY Symmetric
INVARIANTS OnlyOverlapFails SerialHistoryIsRecent SerialStatesExact
CHECK_DEADLOCK FALSE
