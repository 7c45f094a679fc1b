SPECIFICATION OneLoopSpec
CONSTANTS
  Clients = {c1, c2}
  Loops = {l1}
  NoRequest = NoRequest
  MICRO = 1
  NanosPerMicro = 2
  U64 = 64
  enabled = TRUE
  requests_per_second = 1
  burst = 1
  global_requests_per_second = 1
  global_burst = 8
  client_entry_ttl = 3
  max_client_entries = 1
  KOD_INTERVAL = 2
  U32 = 4
  MaxDelay = 1
  MaxTime = 6
  MaxLimited = 5
SYMMETRY ClientSymmetry
INVARIANTS GlobalSustainedRate ClientSustainedRate KodThrottle
