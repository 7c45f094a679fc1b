SPECIFICATION LimiterSpec
CONSTANTS
  Clients = {c1, c2}
  Loops = {l1, l2}
  NoRequest = NoRequest
  MICRO = 2
  NanosPerMicro = 1
  U64 = 64
  enabled = TRUE
  requests_per_second = 1
  burst = 1
  global_requests_per_second = 2
  global_burst = 2
  client_entry_ttl = 2
  max_client_entries = 1
  KOD_INTERVAL = 1
  U32 = 1
  MaxDelay = 1
  MaxTime = 4
SYMMETRY Symmetry
INVARIANTS TableBound ForcedScanBound GlobalRateBound
PROPERTIES EvictedOnlyWhenIdle
