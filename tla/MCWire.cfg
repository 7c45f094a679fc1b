SPECIFICATION Spec
CONSTANTS
  NANOS_PER_SECOND = 5
  TWO_POW_32 = 8
  UNIX_TO_NTP_OFFSET_SECONDS = 4
  SystemTimeSeconds = 18
  BeforeNtpEpoch = BeforeNtpEpoch
  OutOfSystemTimeRange = OutOfSystemTimeRange
  PACKET_SIZE = 48
  supported_versions = {3, 4}
  require_nonzero_transmit_timestamp = TRUE
  allow_trailing_data = TRUE
  NtpVersion = 4
  QueryTimeout = 2
  Noise <- MCNoise
  MaxQueries = 2
  MaxInFlight = 2
  MaxOvertime = 1
  MaxTicks = 2
  MaxInstant = 120
  NoDatagram = NoDatagram
  Datagrams <- MCDatagrams
  MaxText = 5
  identity <- Identity
CHECK_DEADLOCK FALSE
INVARIANTS RoundTrip SystemTimeRoundTrip ZeroOnlyAtEraStart NoAnswerToAnAnswer OffsetIsWithinHalfTheDelay CalendarIsGregorian HexIsReadOrRefused
PROPERTIES ReadsInOrder AnswersAreTold QueriesEnd
