SPECIFICATION Spec
CONSTANTS
  Loops = {l1, l2}
  l1 = l1
  l2 = l2
  Connections = {c1, c2}
  Scrapes = {c1, c2}
  c1 = c1
  c2 = c2
  Durations = {5, 11}
  BUILD_BUCKETS <- MCBuckets
  U64 = 16
  MaxObservations = 3
CHECK_DEADLOCK FALSE
INVARIANTS ExactWhenQuiet TornByAtMostLoops
PROPERTIES EarlyRequestsAreServed ConnectionsEnd EndpointStops
