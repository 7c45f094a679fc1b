------------------------------- MODULE Packet -------------------------------
(***************************************************************************)
(* crates/heeler-core: the wire format (packet.rs), the acceptance policy  *)
(* (validation.rs) and the two kinds of answer (response.rs).  A datagram  *)
(* is its length and the bytes the code interprets; root delay and root    *)
(* dispersion, copied from the configuration, are left out, and a          *)
(* timestamp is a value of NtpTimestamp.                                   *)
(***************************************************************************)
EXTENDS Timestamp

CONSTANTS
  PACKET_SIZE,  \* 48 in the code
  \* ValidationPolicy
  supported_versions,
  require_nonzero_transmit_timestamp,
  allow_trailing_data,
  \* ServerIdentity
  identity

\* What Config::validate guarantees.
ASSUME PacketAssumption ==
  /\ PACKET_SIZE \in Nat \ {0}
  /\ supported_versions \subseteq {3, 4}
  /\ require_nonzero_transmit_timestamp \in BOOLEAN
  /\ allow_trailing_data \in BOOLEAN
  /\ identity.leap \in 0 .. 3
  /\ identity.stratum \in 1 .. 15
  /\ identity.default_poll \in 0 .. 17
  /\ identity.precision \in -30 .. 0

Byte == 0 .. 255
I8(byte) == IF byte >= 128 THEN byte - 256 ELSE byte

U8(int) == int % 256

\* The enumerations are their bits.
LeapUnsynchronised == 3
ClientMode == 3
ServerMode == 4
KISS_OF_DEATH == 0
UNSYNCHRONISED == 16
MIN_POLL == 4
MAX_POLL == 17

\* NtpPacket::parse: only the length is checked; trailing bytes are counted.
Parses(data) == data.len >= PACKET_SIZE
TrailingBytes(data) == data.len - PACKET_SIZE
Parsed(data) ==
  [leap                |-> data.flags \div 64,
   version             |-> (data.flags \div 8) % 8,
   mode                |-> data.flags % 8,
   stratum             |-> data.stratum,
   poll                |-> I8(data.poll),
   precision           |-> I8(data.precision),
   reference_id        |-> data.reference_id,
   reference_timestamp |-> data.reference_timestamp,
   origin_timestamp    |-> data.origin_timestamp,
   receive_timestamp   |-> data.receive_timestamp,
   transmit_timestamp  |-> data.transmit_timestamp]

\* NtpPacket::encode
Encode(p) ==
  [len                 |-> PACKET_SIZE,
   flags               |-> ((p.leap * 64) + (p.version * 8)) + p.mode,
   stratum             |-> p.stratum,
   poll                |-> U8(p.poll),
   precision           |-> U8(p.precision),
   reference_id        |-> p.reference_id,
   reference_timestamp |-> p.reference_timestamp,
   origin_timestamp    |-> p.origin_timestamp,
   receive_timestamp   |-> p.receive_timestamp,
   transmit_timestamp  |-> p.transmit_timestamp]

\* Mutated form: the mode is not looked at.
RejectionAnyMode(data) ==
  LET p == Parsed(data)
  IN  IF TrailingBytes(data) > 0 /\ ~allow_trailing_data THEN "TrailingData"
      ELSE IF p.version \notin supported_versions THEN "UnsupportedVersion"
      ELSE IF require_nonzero_transmit_timestamp /\ p.transmit_timestamp = ZERO
           THEN "ZeroTransmitTimestamp"
      ELSE "none"

\* ValidationPolicy::validate: the first objection of the policy, in its order.
Rejection(data) ==
  LET p == Parsed(data)
  IN  IF TrailingBytes(data) > 0 /\ ~allow_trailing_data THEN "TrailingData"
      ELSE IF p.mode # ClientMode THEN "UnsupportedMode"
      ELSE IF p.version \notin supported_versions THEN "UnsupportedVersion"
      ELSE IF require_nonzero_transmit_timestamp /\ p.transmit_timestamp = ZERO
           THEN "ZeroTransmitTimestamp"
      ELSE "none"

\* A datagram that is a request this server answers.
IsRequest(data) == Parses(data) /\ Rejection(data) = "none"

\* Mutated form: the default is not clamped.
EchoPollUnclamped(client_poll, default_poll) ==
  IF client_poll \in MIN_POLL .. MAX_POLL THEN client_poll ELSE default_poll

\* echo_poll
EchoPoll(client_poll, default_poll) ==
  IF client_poll \in MIN_POLL .. MAX_POLL THEN client_poll
  ELSE IF default_poll < MIN_POLL THEN MIN_POLL
  ELSE IF default_poll > MAX_POLL THEN MAX_POLL
  ELSE default_poll

\* build_response; the transmit timestamp is stamped later.
BuildResponse(request, synchronised, reference_timestamp, receive_timestamp) ==
  [leap                |-> IF synchronised THEN identity.leap ELSE LeapUnsynchronised,
   version             |-> request.version,
   mode                |-> ServerMode,
   stratum             |-> IF synchronised THEN identity.stratum ELSE UNSYNCHRONISED,
   poll                |-> EchoPoll(request.poll, identity.default_poll),
   precision           |-> identity.precision,
   reference_id        |-> identity.reference_id,
   reference_timestamp |-> reference_timestamp,
   origin_timestamp    |-> request.transmit_timestamp,
   receive_timestamp   |-> receive_timestamp,
   transmit_timestamp  |-> ZERO]

\* build_kiss_of_death; the code is the reference identifier.
BuildKissOfDeath(request, code, receive_timestamp) ==
  [leap                |-> LeapUnsynchronised,
   version             |-> request.version,
   mode                |-> ServerMode,
   stratum             |-> KISS_OF_DEATH,
   poll                |-> EchoPoll(request.poll, MIN_POLL),
   precision           |-> 0,
   reference_id        |-> code,
   reference_timestamp |-> ZERO,
   origin_timestamp    |-> request.transmit_timestamp,
   receive_timestamp   |-> receive_timestamp,
   transmit_timestamp  |-> ZERO]

\* finalize_transmit_timestamp
Finalize(p, transmit_timestamp) == [p EXCEPT !.transmit_timestamp = transmit_timestamp]
=============================================================================
