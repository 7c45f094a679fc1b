SPECIFICATION CSpec
CONSTANTS
  NANOS_PER_SECOND = 2
  TWO_POW_32 = 4
  UNIX_TO_NTP_OFFSET_SECONDS = 1
  SystemTimeSeconds = 9
  BeforeNtpEpoch = BeforeNtpEpoch
  OutOfSystemTimeRange = OutOfSystemTimeRange
  max_backward = 1
  max_forward = 2
  mark_unsynchronised_on_jump = TRUE
  Offsets <- MCOffsets
  CheckPeriod = 2
  MaxReadGap = 1
  MaxMono = 6
  NoReading = NoReading
CHECK_DEADLOCK FALSE
INVARIANTS NoFalseAlarm CreepIsBounded ReferenceIsLatestCheck
PROPERTIES JumpIsCaught
