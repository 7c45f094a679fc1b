-------------------------------- MODULE Wire --------------------------------
(***************************************************************************)
(* What goes over the wire.  A server whose clock advances sends its time, *)
(* which a client reads against a clock of its own (to_timestamp, unfold). *)
(* A datagram arrives at a server of this kind, and its answer goes round  *)
(* to another one (parse, validate, build, encode).                        *)
(***************************************************************************)
EXTENDS Packet

CONSTANTS
  Datagrams,   \* what may arrive first
  NoDatagram,  \* nothing arrives
  MaxInstant   \* bound of the model: the clock stops there

ASSUME WireAssumption ==
  /\ \A data \in Datagrams : data.len \in Nat /\ data.flags \in Byte /\ data.poll \in Byte
  /\ MaxInstant \in Nat

VARIABLES
  instant,   \* the server's clock
  pivot,     \* the client's clock
  datagram,  \* the datagram on its way to a server
  hops       \* how many answers led to it

wire == <<instant, pivot, datagram, hops>>

WInit(instants, pivots, datagrams) ==
  /\ instant \in instants /\ pivot \in pivots
  /\ datagram \in datagrams
  /\ hops = 0

Advance ==
  /\ instant < MaxInstant
  /\ instant' = instant + 1
  /\ UNCHANGED <<pivot, datagram, hops>>

\* A server that could read its clock as the datagram came answers with the time, whatever
\* its clock says, or with a Kiss-o'-Death, which goes out even if the clock fails then.
Answers(answer, transmit) ==
  /\ datagram # NoDatagram
  /\ ToTimestamp(instant) # BeforeNtpEpoch
  /\ IsRequest(datagram)
  /\ datagram' = Encode(Finalize(answer, transmit))
  /\ hops' = hops + 1
  /\ UNCHANGED <<instant, pivot>>

AnswerTime ==
  \E synchronised \in BOOLEAN :
    Answers(BuildResponse(Parsed(datagram), synchronised, ZERO, ToTimestamp(instant)),
            ToTimestamp(instant))

\* The codes send_kod is called with; nothing sends KissCode::Restrict.
KissCodes == {"RATE", "DENY"}

AnswerKiss ==
  \E code \in KissCodes, transmit \in {ToTimestamp(instant), ZERO} :
    Answers(BuildKissOfDeath(Parsed(datagram), code, ToTimestamp(instant)), transmit)

WNext == Advance \/ AnswerTime \/ AnswerKiss
WSpec == WInit(Int, Int, Datagrams \cup {NoDatagram}) /\ [][WNext]_wire

-----------------------------------------------------------------------------
\* The pivot tells the era: less than half an era between the two, whole seconds apart.
Near(i, p) ==
  LET apart == (p \div NANOS_PER_SECOND) - (i \div NANOS_PER_SECOND)
  IN  -(TWO_POW_32 \div 2) <= apart /\ apart < TWO_POW_32 \div 2
Decoded(i) == Unfold(ToTimestamp(i), pivot)
Readable(i) == i >= 0 /\ Near(i, pivot)

\* A timestamp read by a client whose clock is in the same half era, on whichever
\* sides of an era boundary the two are, is the instant sent, or one nanosecond less
\* for the two truncations; a whole second is read exactly (to_timestamp and unfold).
RoundTrip ==
  Readable(instant) =>
    /\ Decoded(instant) \in {instant - 1, instant}
    /\ instant % NANOS_PER_SECOND = 0 => Decoded(instant) = instant

\* As the server's clock advances, what a client reads never moves back, not even
\* across a second or an era.
ReadsInOrder ==
  [][Readable(instant) /\ Readable(instant') => Decoded(instant) <= Decoded(instant')]_wire

\* A time of the platform survives the way to an instant and back, on both sides of 1970.
SystemTimeRoundTrip ==
  LET unix_nanos == instant - EpochNanos
      back == ToSystemTime(FromSystemTime(unix_nanos))
  IN  back # OutOfSystemTimeRange => back = unix_nanos

\* The all-zero timestamp, which means "unknown" on the wire, is sent for the first
\* nanosecond of an era and for no other instant.
ZeroOnlyAtEraStart ==
  ToTimestamp(instant) = ZERO <=>
    instant >= 0 /\ instant % (TWO_POW_32 * NANOS_PER_SECOND) = 0

\* No answer of this server is itself answered by a server of this kind: two of them
\* never bounce one datagram between each other (validate refuses all but mode 3).
NoAnswerToAnAnswer == hops <= 1

\* A client can tell the answers apart: stratum 0 with a kiss code, stratum 16 with the
\* alarm, or a stratum of a server; the poll it is told is within the practical range,
\* and its own transmit timestamp comes back as the origin.
AnswersAreTold ==
  [][hops' # hops =>
     LET p == Parsed(datagram')
         q == Parsed(datagram)
     IN  /\ p.mode = ServerMode /\ p.version = q.version
         /\ p.stratum = KISS_OF_DEATH => p.reference_id \in KissCodes
         /\ p.stratum = KISS_OF_DEATH \/ p.stratum = UNSYNCHRONISED => p.leap = LeapUnsynchronised
         /\ p.stratum <= UNSYNCHRONISED
         /\ p.poll \in MIN_POLL .. MAX_POLL
         /\ p.origin_timestamp = q.transmit_timestamp]_wire
=============================================================================
