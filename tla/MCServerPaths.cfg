SPECIFICATION SSpec
CONSTANTS
  NANOS_PER_SECOND = 1
  TWO_POW_32 = 16
  UNIX_TO_NTP_OFFSET_SECONDS = 1
  SystemTimeSeconds = 9
  BeforeNtpEpoch = BeforeNtpEpoch
  OutOfSystemTimeRange = OutOfSystemTimeRange
  PACKET_SIZE = 48
  supported_versions = {3, 4}
  require_nonzero_transmit_timestamp = TRUE
  allow_trailing_data = FALSE
  identity <- Identity
  max_backward = 1
  max_forward = 2
  mark_unsynchronised_on_jump = TRUE
  NoReading = NoReading
  Datagrams <- MCDatagrams
  max_packet_size = 52
  requests_per_second = 1
  burst = 1
  global_burst = 1
  client_entry_ttl = 2
  max_client_entries = 1
  KOD_INTERVAL = 2
  U32 = 4
  MICRO = 1
  NanosPerMicro = 2
  U64 = 1024
  NoRequest = NoRequest
  CheckPeriod = 2
  enabled = TRUE
  Offsets <- SetBackClock
  MaxReadGap = 0
  MaxDelay = 1
  MaxMono = 2
  Clients = {a, b, d}
  DeniedClients = {d}
  Loops = {l1}
  send_kod_on_rate_limit = TRUE
  send_kod_on_policy_deny = TRUE
  SweepTicks = 2
  CounterModulus = 1000
  MaxRequests = 2
  Kinds = {"request", "long", "version", "mode"}
  global_requests_per_second = 2
  a = a
  b = b
  d = d
  l1 = l1
SYMMETRY ClientSymmetry
INVARIANTS STypeOK EveryRequestAccounted EveryRefusalHasOneCause AlarmIsTold DeniedGetNothing
PROPERTY KeepsPromise
