SPECIFICATION StSpec
CONSTANTS
  Width <- MCWidth
  MappedPrefix = 1
  PACKET_SIZE = 48
  MAX_PACKET_SIZE = 1024
  SHORT_UNIT = 4
  MILLIS_PER_SECOND = 5
  WORD32 = 16
  WORD64 = 256
  Unusable = Unusable
  NotSet = NotSet
  DefaultAllow <- MCDefaultAllow
  DefaultGlobalBurst = 2
  MICRO = 3
  NanosPerMicro = 2
  U64 = 1000000
  Inputs <- MCInputs
  NoFile = NoFile
  Uids = {0, 7}
  Gids = {0, 8}
CHECK_DEADLOCK FALSE
INVARIANTS NoLoopRunsAsRoot PublicBindNeedsConsent StartFailsForAReason OnlyOnRequest RequestsCanPass Precedence RulesAreMonotone
