----------------------------- MODULE TimeProofs -----------------------------
(***************************************************************************)
(* What is guaranteed about time: by the timestamps and the answers on the *)
(* wire, for every length of a second and of an era; by a query, for every *)
(* pair of clocks less than half an era apart; and by the jump detection   *)
(* of SystemClockSource, for every policy, every way of setting the wall   *)
(* clock and every wait of the housekeeping task between its two clock     *)
(* readings.                                                               *)
(***************************************************************************)
EXTENDS ClockHistory, Wire, Client, TLAPS

-----------------------------------------------------------------------------
(* Quotients and remainders *)

\* A product with a positive factor orders as the other factor does.
LEMMA Cancel ==
  ASSUME NEW k \in Nat \ {0}, NEW a \in Int, NEW b \in Int, k * a <= k * b
  PROVE  a <= b
<1> SUFFICES ASSUME a >= b + 1
             PROVE  FALSE
  OBVIOUS
<1>1. PICK d \in Nat : a = b + 1 + d
  <2>1. a - b - 1 \in Nat /\ a = b + 1 + (a - b - 1)
    OBVIOUS
  <2> QED
    BY <2>1, Zenon
<1>2. k * a = k * b + k + k * d
  BY <1>1
<1>3. k * b \in Int /\ k * d \in Nat
  BY <1>1
<1> QED
  BY <1>2, <1>3

\* And strictly so.
LEMMA CancelStrictly ==
  ASSUME NEW k \in Nat \ {0}, NEW a \in Int, NEW b \in Int, k * a < k * b
  PROVE  a < b
<1>1. k * a \in Int /\ k * b \in Int
  OBVIOUS
<1>2. a <= b
  BY <1>1, Cancel
<1>3. a # b
  BY <1>1
<1> QED
  BY <1>2, <1>3

\* A quotient and a remainder are determined by one decomposition.
LEMMA Decomposition ==
  ASSUME NEW k \in Nat \ {0}, NEW q \in Int, NEW r \in 0 .. k - 1
  PROVE  (k * q + r) \div k = q /\ (k * q + r) % k = r
<1> DEFINE a == k * q + r
           p == a \div k
           s == a % k
<1>1. a \in Int
  OBVIOUS
<1> HIDE DEF a
<1>2. p \in Int /\ s \in 0 .. k - 1 /\ a = k * p + s
  BY <1>1
<1> HIDE DEF p, s
<1>3. k * q + r = k * p + s
  BY <1>2, Zenon DEF a
<1>4. k * q \in Int /\ k * p \in Int /\ k * (q + 1) = k * q + k /\ k * (p + 1) = k * p + k
  BY <1>2
<1>5. k * q <= k * p + k - 1 /\ k * p <= k * q + k - 1
  BY <1>2, <1>3, <1>4
<1>6. ~(q >= p + 1)
  <2> SUFFICES ASSUME q >= p + 1
               PROVE  FALSE
    BY Zenon
  <2>1. k * q >= k * (p + 1)
    BY <1>2
  <2> QED
    BY <1>4, <1>5, <2>1
<1>7. ~(p >= q + 1)
  <2> SUFFICES ASSUME p >= q + 1
               PROVE  FALSE
    BY Zenon
  <2>1. k * p >= k * (q + 1)
    BY <1>2
  <2> QED
    BY <1>4, <1>5, <2>1
<1>8. p = q
  BY <1>2, <1>6, <1>7
<1>9. s = r
  BY <1>2, <1>3, <1>4, <1>8
<1> QED
  BY <1>8, <1>9, Zenon DEF p, s, a

\* The nanoseconds of a second survive the way to a fraction and back, but for one that
\* the two truncations may cost; and only the first of them has the fraction 0.
LEMMA FractionRoundTrip ==
  ASSUME NEW n \in 0 .. NANOS_PER_SECOND - 1
  PROVE  /\ FractionToNanos(FractionFromNanos(n)) \in {n - 1, n}
         /\ FractionToNanos(FractionFromNanos(0)) = 0
         /\ FractionFromNanos(n) = 0 <=> n = 0
<1> DEFINE N == NANOS_PER_SECOND
           T == TWO_POW_32
           f == FractionFromNanos(n)
           m == FractionToNanos(f)
<1>1. N \in Nat \ {0} /\ T \in Nat \ {0} /\ N <= T
  BY TimestampAssumption, Zenon
<1> HIDE DEF N, T
<1>2. n % N = n /\ n < N /\ n \in Nat
  BY <1>1 DEF N
<1>3. n * T \in Nat /\ f = (n * T) \div N
  BY <1>1, <1>2 DEF FractionFromNanos, N, T
<1>4. f \in Nat /\ N * f <= n * T /\ n * T < N * f + N
  BY <1>1, <1>3
<1> HIDE DEF f
<1>5. f * N \in Nat /\ m = (f * N) \div T
  BY <1>1, <1>4 DEF FractionToNanos, N, T
<1>6. m \in Nat /\ T * m <= f * N /\ f * N < T * m + T
  BY <1>1, <1>5
<1> HIDE DEF m
<1>7. T * m \in Nat /\ T * n = n * T /\ N * f = f * N /\ T * (n - 1) = T * n - T /\ T * (m + 1) = T * m + T
  BY <1>1, <1>2, <1>4, <1>6
<1>8. m <= n
  <2>1. T * m <= T * n
    BY <1>3, <1>4, <1>5, <1>6, <1>7
  <2> QED
    BY <1>1, <1>2, <1>6, <2>1, Cancel
<1>9. n - 1 <= m
  <2>1. T * (n - 1) < T * (m + 1)
    BY <1>1, <1>3, <1>4, <1>5, <1>6, <1>7
  <2>2. n <= m + 1
    <3>1. n - 1 \in Int /\ m + 1 \in Int /\ T * (n - 1) \in Int /\ T * (m + 1) \in Int
      BY <1>1, <1>2, <1>6
    <3>2. n - 1 <= m + 1
      BY <1>1, <2>1, <3>1, Cancel
    <3>3. n - 1 # m + 1
      BY <2>1, <3>1
    <3> QED
      BY <1>2, <1>6, <3>2, <3>3
  <2> QED
    BY <1>2, <1>6, <2>2
<1>10. f = 0 <=> n = 0
  <2>1. ASSUME n = 0 PROVE f = 0
    BY <1>1, <1>3, <2>1
  <2>2. ASSUME f = 0 PROVE n = 0
    <3>1. n * T < N
      BY <1>1, <1>4, <2>2
    <3>2. ASSUME n >= 1 PROVE FALSE
      <4>1. n * T >= T
        BY <1>1, <1>2, <3>2
      <4> QED
        BY <1>1, <1>3, <3>1, <4>1
    <3> QED
      BY <1>2, <3>2
  <2> QED
    BY <2>1, <2>2, Zenon
<1>11. FractionToNanos(FractionFromNanos(0)) = 0
  <2>1. FractionFromNanos(0) = 0
    BY <1>1 DEF FractionFromNanos, N, T
  <2>2. FractionToNanos(0) = 0
    BY <1>1 DEF FractionToNanos, N, T
  <2> QED
    BY <2>1, <2>2, Zenon
<1>12. m \in {n - 1, n}
  BY <1>2, <1>6, <1>8, <1>9
<1> QED
  BY <1>10, <1>11, <1>12, Zenon DEF m, f

\* An instant as seconds of an era, eras and nanoseconds.
LEMMA InstantParts ==
  ASSUME NEW i \in Nat
  PROVE  \E e \in Nat, w \in 0 .. TWO_POW_32 - 1, n \in 0 .. NANOS_PER_SECOND - 1 :
           /\ i \div NANOS_PER_SECOND = TWO_POW_32 * e + w
           /\ i % NANOS_PER_SECOND = n
           /\ i = NANOS_PER_SECOND * (TWO_POW_32 * e + w) + n
           /\ ToTimestamp(i) = [seconds |-> w, fraction |-> FractionFromNanos(n)]
<1> DEFINE N == NANOS_PER_SECOND
           T == TWO_POW_32
           s == i \div N
           n == i % N
           e == s \div T
           w == s % T
<1>1. N \in Nat \ {0} /\ T \in Nat \ {0}
  BY TimestampAssumption, Zenon
<1>2. ToTimestamp(i) = [seconds |-> w, fraction |-> FractionFromNanos(n)]
  BY DEF ToTimestamp
<1> HIDE DEF N, T
<1>3. s \in Nat /\ n \in 0 .. N - 1 /\ i = N * s + n
  BY <1>1
<1> HIDE DEF s, n
<1>4. e \in Nat /\ w \in 0 .. T - 1 /\ s = T * e + w
  BY <1>1, <1>3
<1> HIDE DEF e, w
<1> QED
  BY <1>2, <1>3, <1>4, Zenon DEF s, n, N, T

\* unfold finds the instant behind a timestamp, for every pivot within half an era of it.
LEMMA UnfoldsBack ==
  ASSUME NEW i \in Nat, NEW p \in Int, Near(i, p)
  PROVE  /\ Unfold(ToTimestamp(i), p) \in {i - 1, i}
         /\ i % NANOS_PER_SECOND = 0 => Unfold(ToTimestamp(i), p) = i
<1> DEFINE N == NANOS_PER_SECOND
           T == TWO_POW_32
           h == T \div 2
           ps == p \div N
<1>1. N \in Nat \ {0} /\ T \in Nat \ {0} /\ h \in Nat /\ T = 2 * h /\ ps \in Int
  BY TimestampAssumption
<1>2. PICK e \in Nat, w \in 0 .. T - 1, n \in 0 .. N - 1 :
        /\ i \div N = T * e + w
        /\ i % N = n
        /\ i = N * (T * e + w) + n
        /\ ToTimestamp(i) = [seconds |-> w, fraction |-> FractionFromNanos(n)]
  BY InstantParts, Zenon
<1> DEFINE m == FractionToNanos(FractionFromNanos(n))
           era == ((ps - w) + h) \div T
<1>3. Unfold(ToTimestamp(i), p) = ((w + (era * T)) * N) + m
  BY <1>2 DEF Unfold
<1>4. -h <= ps - (T * e + w) /\ ps - (T * e + w) < h
  BY <1>2, Zenon DEF Near
<1>5. m \in {n - 1, n} /\ (n = 0 => m = 0)
  BY FractionRoundTrip, Zenon
<1> HIDE DEF N, T, h, ps, m
<1>6. era = e
  <2> DEFINE r == ps - (T * e + w) + h
  <2>1. T * e \in Nat
    BY <1>1
  <2>2. r \in 0 .. T - 1
    BY <1>1, <1>2, <1>4, <2>1
  <2>3. (ps - w) + h = T * e + r
    BY <1>1, <2>1
  <2> HIDE DEF r
  <2>4. (T * e + r) \div T = e
    BY <1>1, <2>2, Decomposition
  <2> QED
    BY <2>3, <2>4, Zenon
<1> HIDE DEF era
<1>7. (w + (era * T)) * N = N * (T * e + w)
  BY <1>1, <1>6
<1>8. N * (T * e + w) \in Nat
  BY <1>1
<1> QED
  BY <1>2, <1>3, <1>5, <1>7, <1>8 DEF N

-----------------------------------------------------------------------------
(* Clocks and timestamps *)

\* The fraction of a second never reaches a whole second.
LEMMA FractionType ==
  ASSUME NEW nanos \in Nat
  PROVE  FractionFromNanos(nanos) \in 0 .. TWO_POW_32 - 1
<1> DEFINE n == nanos % NANOS_PER_SECOND
           x == n * TWO_POW_32
           q == x \div NANOS_PER_SECOND
<1>1. NANOS_PER_SECOND \in Nat \ {0} /\ TWO_POW_32 \in Nat \ {0}
  BY TimestampAssumption
<1>2. n \in Nat /\ n < NANOS_PER_SECOND
  BY <1>1
<1> HIDE DEF n
<1>3. x \in Nat /\ x < NANOS_PER_SECOND * TWO_POW_32
  BY <1>1, <1>2
<1> HIDE DEF x
<1>4. q \in Nat /\ NANOS_PER_SECOND * q <= x
  BY <1>1, <1>3
<1> HIDE DEF q
<1>5. q < TWO_POW_32
  <2> SUFFICES ASSUME q >= TWO_POW_32
               PROVE  FALSE
    BY <1>1, <1>4
  <2>1. NANOS_PER_SECOND * q >= NANOS_PER_SECOND * TWO_POW_32
    BY <1>1, <1>4
  <2>2. NANOS_PER_SECOND * q \in Nat /\ NANOS_PER_SECOND * TWO_POW_32 \in Nat
    BY <1>1, <1>4
  <2> QED
    BY <1>3, <1>4, <2>1, <2>2
<1> QED
  BY <1>1, <1>4, <1>5 DEF FractionFromNanos, q, x, n

\* An instant since 1900 has a timestamp, which is not the error.
LEMMA ToTimestampType ==
  ASSUME NEW moment \in Int
  PROVE  /\ moment >= 0 => /\ ToTimestamp(moment) \in NtpTimestamp
                            /\ ToTimestamp(moment) # BeforeNtpEpoch
         /\ moment < 0 => ToTimestamp(moment) = BeforeNtpEpoch
<1>1. CASE moment >= 0
  <2> DEFINE s == (moment \div NANOS_PER_SECOND) % TWO_POW_32
             f == FractionFromNanos(moment % NANOS_PER_SECOND)
  <2>1. NANOS_PER_SECOND \in Nat \ {0} /\ TWO_POW_32 \in Nat \ {0} /\ moment \in Nat
    BY <1>1, TimestampAssumption
  <2>2. moment \div NANOS_PER_SECOND \in Nat /\ moment % NANOS_PER_SECOND \in Nat
    BY <2>1
  <2>3. s \in 0 .. TWO_POW_32 - 1
    BY <2>1, <2>2
  <2>4. f \in 0 .. TWO_POW_32 - 1
    BY <2>2, FractionType
  <2> HIDE DEF s, f
  <2>5. [seconds |-> s, fraction |-> f] \in NtpTimestamp
    BY <2>3, <2>4 DEF NtpTimestamp
  <2>6. [seconds |-> s, fraction |-> f] \in [seconds : Nat, fraction : Nat]
    BY <2>1, <2>3, <2>4
  <2>7. ToTimestamp(moment) = [seconds |-> s, fraction |-> f]
    BY <1>1 DEF ToTimestamp, s, f
  <2> QED
    BY <1>1, <2>5, <2>6, <2>7, TimestampAssumption
<1>2. CASE moment < 0
  BY <1>2 DEF ToTimestamp
<1> QED
  BY <1>1, <1>2

\* The two clocks are instants.
ClocksAreInstants == instant \in Int /\ pivot \in Int

\* Nothing that travels moves a clock, and the clock of the server moves on.
LEMMA ClocksStayInstants == WSpec => []ClocksAreInstants
<1>1. WInit(Int, Int, Datagrams \cup {NoDatagram}) => ClocksAreInstants
  BY Zenon DEF WInit, ClocksAreInstants
<1>2. ClocksAreInstants /\ [WNext]_wire => ClocksAreInstants'
  BY DEF ClocksAreInstants, WNext, Advance, AnswerTime, AnswerKiss, Answers, wire
<1> QED
  BY <1>1, <1>2, PTL DEF WSpec

\* Every instant since 1900 is read back to the nanosecond, across all eras
\* (NtpInstant::to_timestamp, NtpTimestamp::unfold).
THEOREM TimestampsRoundTrip == WSpec => []RoundTrip
<1>1. ClocksAreInstants => RoundTrip
  BY UnfoldsBack DEF ClocksAreInstants, RoundTrip, Readable, Decoded
<1> QED
  BY <1>1, ClocksStayInstants, PTL

\* The times a client reads from one server are in the order in which they were sent.
THEOREM TimestampsAreInOrder == WSpec => ReadsInOrder
<1> DEFINE InOrder == Readable(instant) /\ Readable(instant') => Decoded(instant) <= Decoded(instant')
<1>1. ClocksAreInstants /\ ClocksAreInstants' /\ [WNext]_wire => [InOrder]_wire
  <2> SUFFICES ASSUME ClocksAreInstants, ClocksAreInstants', WNext,
                      Readable(instant), Readable(instant')
               PROVE  Decoded(instant) <= Decoded(instant')
    BY Zenon
  <2>1. pivot' = pivot /\ (instant' = instant \/ instant' = instant + 1)
    BY Zenon DEF WNext, Advance, AnswerTime, AnswerKiss, Answers
  <2>2. Decoded(instant) \in {instant - 1, instant}
    BY UnfoldsBack DEF ClocksAreInstants, Readable, Decoded
  <2>3. Decoded(instant') \in {instant' - 1, instant'}
    <3>1. instant' \in Nat /\ pivot \in Int /\ Near(instant', pivot)
      BY <2>1 DEF ClocksAreInstants, Readable
    <3> QED
      BY <3>1, UnfoldsBack, Zenon DEF Decoded
  <2>4. CASE instant' = instant
    BY <2>2, <2>4 DEF ClocksAreInstants
  <2>5. CASE instant' = instant + 1
    BY <2>2, <2>3, <2>5 DEF ClocksAreInstants
  <2> QED
    BY <2>1, <2>4, <2>5, Zenon
<1> QED
  BY <1>1, ClocksStayInstants, PTL DEF WSpec, ReadsInOrder

\* No time of the platform is moved by the way through an instant, before 1970 either
\* (from_system_time, to_system_time).
THEOREM SystemTimesRoundTrip == WSpec => []SystemTimeRoundTrip
<1>1. ClocksAreInstants => SystemTimeRoundTrip
  <2> SUFFICES ASSUME ClocksAreInstants
               PROVE  SystemTimeRoundTrip
    BY Zenon
  <2> DEFINE u == instant - EpochNanos
             magnitude == IF u < 0 THEN -u ELSE u
             d == ((magnitude \div NANOS_PER_SECOND) * NANOS_PER_SECOND)
                    + (magnitude % NANOS_PER_SECOND)
  <2>1. NANOS_PER_SECOND \in Nat \ {0} /\ EpochNanos \in Nat
    BY TimestampAssumption DEF EpochNanos
  <2>2. u \in Int /\ (u + EpochNanos) - EpochNanos = u
    BY <2>1 DEF ClocksAreInstants
  <2> HIDE DEF u
  <2>3. magnitude \in Nat
    BY <2>2
  <2>4. d = magnitude
    <3> HIDE DEF magnitude
    <3> QED
      BY <2>1, <2>3
  <2>5. \/ ToSystemTime(u + EpochNanos) = OutOfSystemTimeRange
        \/ ToSystemTime(u + EpochNanos) = IF u >= 0 THEN d ELSE -d
    BY <2>2, Zenon DEF ToSystemTime
  <2> HIDE DEF d
  <2>6. (IF u >= 0 THEN d ELSE -d) = u
    BY <2>2, <2>4
  <2> QED
    BY <2>5, <2>6, Zenon DEF SystemTimeRoundTrip, FromSystemTime, u
<1> QED
  BY <1>1, ClocksStayInstants, PTL

\* Which instants a reader takes for "unknown" (to_timestamp): one a turn of the seconds.
THEOREM ZeroIsEraStart == WSpec => []ZeroOnlyAtEraStart
<1>1. ClocksAreInstants => ZeroOnlyAtEraStart
  <2> SUFFICES ASSUME ClocksAreInstants
               PROVE  ZeroOnlyAtEraStart
    BY Zenon
  <2> DEFINE N == NANOS_PER_SECOND
             T == TWO_POW_32
  <2>1. N \in Nat \ {0} /\ T \in Nat \ {0}
    BY TimestampAssumption, Zenon
  <2>2. CASE instant < 0
    <3>1. ToTimestamp(instant) = BeforeNtpEpoch
      BY <2>2, Zenon DEF ToTimestamp
    <3>2. ZERO \in [seconds : Nat, fraction : Nat]
      BY Zenon DEF ZERO
    <3> QED
      BY <2>2, <3>1, <3>2, TimestampAssumption DEF ZeroOnlyAtEraStart, ClocksAreInstants
  <2>3. CASE instant \in Nat
    <3>1. PICK e \in Nat, w \in 0 .. T - 1, n \in 0 .. N - 1 :
            /\ instant \div N = T * e + w
            /\ instant % N = n
            /\ instant = N * (T * e + w) + n
            /\ ToTimestamp(instant) = [seconds |-> w, fraction |-> FractionFromNanos(n)]
      BY <2>3, InstantParts, Zenon
    <3>2. ToTimestamp(instant) = ZERO <=> w = 0 /\ n = 0
      BY <3>1, FractionRoundTrip DEF ZERO
    <3> HIDE DEF N, T
    <3>3. N * w \in Nat /\ N * w + n < T * N /\ T * N \in Nat \ {0}
      <4>1. N * w <= N * (T - 1)
        <5>1. w \in Nat /\ w <= T - 1 /\ T - 1 \in Nat
          BY <2>1
        <5> QED
          BY <2>1, <5>1
      <4>2. N * (T - 1) = T * N - N
        BY <2>1
      <4> QED
        BY <2>1, <4>1, <4>2
    <3>4. instant = (T * N) * e + (N * w + n)
      <4>1. w \in Nat /\ n \in Nat
        BY <2>1
      <4>2. N * (T * e + w) = (T * N) * e + N * w
        BY <2>1, <4>1
      <4> QED
        BY <2>1, <3>1, <3>3, <4>1, <4>2
    <3>5. instant % (T * N) = N * w + n
      <4> DEFINE k == T * N
                 r == N * w + n
      <4>1. k \in Nat \ {0} /\ r \in 0 .. k - 1
        BY <3>3
      <4> HIDE DEF k, r
      <4>2. (k * e + r) % k = r
        BY <4>1, Decomposition
      <4> QED
        BY <3>4, <4>2, Zenon DEF k, r
    <3>6. N * w + n = 0 <=> w = 0 /\ n = 0
      <4>1. ASSUME w >= 1 PROVE N * w >= N
        BY <2>1, <4>1
      <4>2. ASSUME w = 0 PROVE N * w = 0
        BY <2>1, <4>2
      <4> QED
        BY <2>1, <3>3, <4>1, <4>2
    <3> QED
      BY <2>3, <3>2, <3>5, <3>6 DEF ZeroOnlyAtEraStart, N, T
  <2> QED
    BY <2>2, <2>3 DEF ClocksAreInstants
<1> QED
  BY <1>1, ClocksStayInstants, PTL

-----------------------------------------------------------------------------
(* Packets *)

\* A flag byte is taken apart into the fields it was put together from.
LEMMA FlagsAreRead ==
  ASSUME NEW leap \in 0 .. 3, NEW version \in {3, 4}, NEW flags,
         flags = ((leap * 64) + (version * 8)) + ServerMode
  PROVE  flags \div 64 = leap /\ (flags \div 8) % 8 = version /\ flags % 8 = ServerMode
<1>1. flags \in Nat /\ flags = 64 * leap + 8 * version + 4
  BY DEF ServerMode
<1>2. leap = 0 \/ leap = 1 \/ leap = 2 \/ leap = 3
  OBVIOUS
<1> QED
  BY <1>1, <1>2 DEF ServerMode

\* The poll of an answer is within the practical range, whatever byte the client sent
\* and whatever the default (echo_poll).
LEMMA EchoPollRange ==
  ASSUME NEW client_poll \in Int, NEW default_poll \in Int
  PROVE  EchoPoll(client_poll, default_poll) \in MIN_POLL .. MAX_POLL
BY DEF EchoPoll, MIN_POLL, MAX_POLL

\* A poll in the practical range survives the byte it travels in.
LEMMA PollIsRead ==
  ASSUME NEW poll \in MIN_POLL .. MAX_POLL
  PROVE  I8(U8(poll)) = poll
BY DEF I8, U8, MIN_POLL, MAX_POLL

\* A datagram that is answered is of the client mode and of a version that is served.
LEMMA RequestFields ==
  ASSUME NEW data, IsRequest(data)
  PROVE  data.flags % 8 = ClientMode /\ Parsed(data).version \in {3, 4}
<1>1. Parsed(data).mode = ClientMode /\ Parsed(data).version \in supported_versions
  BY Zenon DEF IsRequest, Rejection
<1>2. Parsed(data).mode = data.flags % 8
  BY Zenon DEF Parsed
<1> QED
  BY <1>1, <1>2, PacketAssumption, Zenon

PacketFields ==
  {"leap", "version", "mode", "stratum", "poll", "precision", "reference_id",
   "reference_timestamp", "origin_timestamp", "receive_timestamp", "transmit_timestamp"}

\* What a reader finds in an answer is what was put into it.
LEMMA EncodedIsRead ==
  ASSUME NEW p, p.leap \in 0 .. 3, p.version \in {3, 4}, p.mode = ServerMode,
         p.poll \in MIN_POLL .. MAX_POLL
  PROVE  LET q == Parsed(Encode(p))
         IN  /\ Encode(p).flags % 8 = ServerMode
             /\ q.leap = p.leap /\ q.version = p.version /\ q.mode = ServerMode
             /\ q.stratum = p.stratum /\ q.poll = p.poll /\ q.reference_id = p.reference_id
             /\ q.origin_timestamp = p.origin_timestamp
             /\ q.receive_timestamp = p.receive_timestamp
             /\ q.transmit_timestamp = p.transmit_timestamp
<1> DEFINE data == Encode(p)
           q == Parsed(data)
<1>1. /\ data.flags = ((p.leap * 64) + (p.version * 8)) + p.mode
      /\ data.stratum = p.stratum /\ data.poll = U8(p.poll) /\ data.reference_id = p.reference_id
      /\ data.origin_timestamp = p.origin_timestamp
      /\ data.receive_timestamp = p.receive_timestamp
      /\ data.transmit_timestamp = p.transmit_timestamp
  BY Zenon DEF Encode
<1> HIDE DEF data
<1>2. /\ q.leap = data.flags \div 64 /\ q.version = (data.flags \div 8) % 8
      /\ q.mode = data.flags % 8 /\ q.stratum = data.stratum /\ q.poll = I8(data.poll)
      /\ q.reference_id = data.reference_id /\ q.origin_timestamp = data.origin_timestamp
      /\ q.receive_timestamp = data.receive_timestamp
      /\ q.transmit_timestamp = data.transmit_timestamp
  BY Zenon DEF Parsed
<1> HIDE DEF q
<1>3. data.flags = ((p.leap * 64) + (p.version * 8)) + ServerMode
  BY <1>1, Zenon
<1>4. data.flags \div 64 = p.leap /\ (data.flags \div 8) % 8 = p.version /\ data.flags % 8 = ServerMode
  BY <1>3, FlagsAreRead
<1>5. q.poll = p.poll
  BY <1>1, <1>2, PollIsRead, Zenon
<1> QED
  BY <1>1, <1>2, <1>4, <1>5, Zenon DEF q, data

\* The same of an answer whose departure is stamped into it.
LEMMA AnswerIsRead ==
  ASSUME NEW p, NEW stamp, p.leap \in 0 .. 3, p.version \in {3, 4}, p.mode = ServerMode,
         p.poll \in MIN_POLL .. MAX_POLL, DOMAIN p = PacketFields
  PROVE  LET data == Encode(Finalize(p, stamp))
             q == Parsed(data)
         IN  /\ data.flags % 8 = ServerMode
             /\ q.leap = p.leap /\ q.version = p.version /\ q.mode = ServerMode
             /\ q.stratum = p.stratum /\ q.poll = p.poll /\ q.reference_id = p.reference_id
             /\ q.origin_timestamp = p.origin_timestamp
             /\ q.receive_timestamp = p.receive_timestamp
             /\ q.transmit_timestamp = stamp
<1> DEFINE f == Finalize(p, stamp)
           q == Parsed(Encode(f))
<1>1. /\ f.leap = p.leap /\ f.version = p.version /\ f.mode = p.mode /\ f.stratum = p.stratum
      /\ f.poll = p.poll /\ f.reference_id = p.reference_id
      /\ f.origin_timestamp = p.origin_timestamp /\ f.receive_timestamp = p.receive_timestamp
      /\ f.transmit_timestamp = stamp
  BY Zenon DEF Finalize, PacketFields
<1> HIDE DEF f
<1>2. /\ Encode(f).flags % 8 = ServerMode
      /\ q.leap = f.leap /\ q.version = f.version /\ q.mode = ServerMode
      /\ q.stratum = f.stratum /\ q.poll = f.poll /\ q.reference_id = f.reference_id
      /\ q.origin_timestamp = f.origin_timestamp
      /\ q.receive_timestamp = f.receive_timestamp
      /\ q.transmit_timestamp = f.transmit_timestamp
  BY <1>1, EncodedIsRead, Zenon
<1> HIDE DEF q
<1> QED
  BY <1>1, <1>2, Zenon DEF q, f

\* An answer with the time is of a stratum of its own (build_response).
IsTimeAnswer(p, request, receive) ==
  /\ p.leap \in 0 .. 3 /\ p.version = request.version /\ p.mode = ServerMode
  /\ p.poll \in MIN_POLL .. MAX_POLL
  /\ p.stratum \in 1 .. UNSYNCHRONISED
  /\ p.stratum = UNSYNCHRONISED => p.leap = LeapUnsynchronised
  /\ p.origin_timestamp = request.transmit_timestamp
  /\ p.receive_timestamp = receive
  /\ DOMAIN p = PacketFields

\* What build_response builds is such an answer.
LEMMA TimeAnswer ==
  ASSUME NEW request, NEW synced \in BOOLEAN, NEW ref, NEW receive,
         request.version \in {3, 4}, request.poll \in Int
  PROVE  IsTimeAnswer(BuildResponse(request, synced, ref, receive), request, receive)
<1> DEFINE poll == EchoPoll(request.poll, identity.default_poll)
<1>1. poll \in MIN_POLL .. MAX_POLL
  <2>1. identity.default_poll \in Int
    BY PacketAssumption
  <2> QED
    BY <2>1, EchoPollRange, Zenon
<1> HIDE DEF poll
<1> DEFINE p == BuildResponse(request, synced, ref, receive)
<1>2. /\ p.leap = IF synced THEN identity.leap ELSE LeapUnsynchronised
      /\ p.stratum = IF synced THEN identity.stratum ELSE UNSYNCHRONISED
      /\ p.version = request.version /\ p.mode = ServerMode /\ p.poll = poll
      /\ p.origin_timestamp = request.transmit_timestamp /\ p.receive_timestamp = receive
  BY Zenon DEF BuildResponse, poll
<1>3. DOMAIN p = PacketFields
  BY Zenon DEF BuildResponse, PacketFields
<1> HIDE DEF p
<1>4. /\ p.leap \in 0 .. 3 /\ p.stratum \in 1 .. UNSYNCHRONISED
      /\ p.stratum = UNSYNCHRONISED => p.leap = LeapUnsynchronised
  BY <1>2, PacketAssumption DEF LeapUnsynchronised, UNSYNCHRONISED
<1> QED
  BY <1>1, <1>2, <1>3, <1>4, Zenon DEF p, IsTimeAnswer

\* A Kiss-o'-Death is of stratum 0, with its code and the alarm (build_kiss_of_death).
IsKissAnswer(p, request, code, receive) ==
  /\ p.leap = LeapUnsynchronised /\ p.version = request.version /\ p.mode = ServerMode
  /\ p.poll \in MIN_POLL .. MAX_POLL
  /\ p.stratum = KISS_OF_DEATH /\ p.reference_id = code
  /\ p.origin_timestamp = request.transmit_timestamp
  /\ p.receive_timestamp = receive /\ p.transmit_timestamp = ZERO
  /\ DOMAIN p = PacketFields

\* What build_kiss_of_death builds is such an answer.
LEMMA KissAnswer ==
  ASSUME NEW request, NEW code, NEW receive,
         request.version \in {3, 4}, request.poll \in Int
  PROVE  IsKissAnswer(BuildKissOfDeath(request, code, receive), request, code, receive)
<1> DEFINE poll == EchoPoll(request.poll, MIN_POLL)
<1>1. poll \in MIN_POLL .. MAX_POLL
  <2>1. MIN_POLL \in Int
    BY DEF MIN_POLL
  <2> QED
    BY <2>1, EchoPollRange, Zenon
<1> HIDE DEF poll
<1> DEFINE p == BuildKissOfDeath(request, code, receive)
<1>2. /\ p.leap = LeapUnsynchronised /\ p.version = request.version /\ p.mode = ServerMode
      /\ p.poll = poll /\ p.stratum = KISS_OF_DEATH /\ p.reference_id = code
      /\ p.origin_timestamp = request.transmit_timestamp /\ p.receive_timestamp = receive
      /\ p.transmit_timestamp = ZERO
  BY Zenon DEF BuildKissOfDeath, poll
<1>3. DOMAIN p = PacketFields
  BY Zenon DEF BuildKissOfDeath, PacketFields
<1> HIDE DEF p
<1> QED
  BY <1>1, <1>2, <1>3, Zenon DEF p, IsKissAnswer

\* What arrived first is one of the datagrams, and what is on its way after an answer is
\* that answer.
HopsHold ==
  \/ hops = 0 /\ datagram \in Datagrams \cup {NoDatagram}
  \/ hops = 1 /\ datagram.flags % 8 = ServerMode

\* What a server that answers looks at is a request, and what it sends is of its mode and
\* tells the client what it is.
LEMMA AnswersStep ==
  ASSUME HopsHold, AnswerTime \/ AnswerKiss
  PROVE  LET p == Parsed(datagram')
             q == Parsed(datagram)
         IN  /\ hops = 0 /\ hops' = 1
             /\ datagram'.flags % 8 = ServerMode
             /\ p.mode = ServerMode /\ p.version = q.version
             /\ p.stratum = KISS_OF_DEATH => p.reference_id \in KissCodes
             /\ p.stratum = KISS_OF_DEATH \/ p.stratum = UNSYNCHRONISED => p.leap = LeapUnsynchronised
             /\ p.stratum <= UNSYNCHRONISED
             /\ p.poll \in MIN_POLL .. MAX_POLL
             /\ p.origin_timestamp = q.transmit_timestamp
<1> DEFINE q == Parsed(datagram)
           t == ToTimestamp(instant)
<1>1. datagram # NoDatagram /\ IsRequest(datagram) /\ hops' = hops + 1
  BY Zenon DEF AnswerTime, AnswerKiss, Answers
<1>2. datagram.flags % 8 = ClientMode /\ q.version \in {3, 4}
  BY <1>1, RequestFields, Zenon
<1>3. hops = 0 /\ hops' = 1 /\ datagram \in Datagrams
  BY <1>1, <1>2 DEF HopsHold, ClientMode, ServerMode
<1>4. q.poll \in Int
  <2>1. datagram.poll \in Byte /\ q.poll = I8(datagram.poll)
    BY <1>3, WireAssumption, Zenon DEF Parsed
  <2> QED
    BY <2>1 DEF Byte, I8
<1> HIDE DEF q, t
<1>5. CASE AnswerTime
  <2>1. PICK synced \in BOOLEAN :
          datagram' = Encode(Finalize(BuildResponse(q, synced, ZERO, t), t))
    BY <1>5, Zenon DEF AnswerTime, Answers, q, t
  <2> DEFINE a == BuildResponse(q, synced, ZERO, t)
  <2>2. /\ a.leap \in 0 .. 3 /\ a.version = q.version /\ a.mode = ServerMode
        /\ a.poll \in MIN_POLL .. MAX_POLL
        /\ a.stratum \in 1 .. UNSYNCHRONISED
        /\ a.stratum = UNSYNCHRONISED => a.leap = LeapUnsynchronised
        /\ a.origin_timestamp = q.transmit_timestamp
        /\ DOMAIN a = PacketFields
    <3>1. IsTimeAnswer(a, q, t)
      BY <1>2, <1>4, TimeAnswer, SMT
    <3> HIDE DEF a
    <3> QED
      BY <3>1, Zenon DEF IsTimeAnswer
  <2> HIDE DEF a
  <2>3. datagram' = Encode(Finalize(a, t))
    BY <2>1, Zenon DEF a
  <2> DEFINE p == Parsed(Encode(Finalize(a, t)))
  <2>4. /\ Encode(Finalize(a, t)).flags % 8 = ServerMode
        /\ p.leap = a.leap /\ p.version = a.version /\ p.mode = ServerMode
        /\ p.stratum = a.stratum /\ p.poll = a.poll
        /\ p.origin_timestamp = a.origin_timestamp
    BY <1>2, <2>2, AnswerIsRead
  <2>5. p = Parsed(datagram')
    BY <2>3, Zenon
  <2> HIDE DEF p
  <2>6. p.stratum # KISS_OF_DEATH /\ p.stratum <= UNSYNCHRONISED
    BY <2>2, <2>4 DEF KISS_OF_DEATH, UNSYNCHRONISED
  <2> QED
    BY <1>3, <2>2, <2>3, <2>4, <2>5, <2>6, Zenon DEF q
<1>6. CASE AnswerKiss
  <2>1. PICK code \in KissCodes, transmit \in {t, ZERO} :
          datagram' = Encode(Finalize(BuildKissOfDeath(q, code, t), transmit))
    BY <1>6, Zenon DEF AnswerKiss, Answers, q, t
  <2> DEFINE a == BuildKissOfDeath(q, code, t)
  <2>2. /\ a.leap = LeapUnsynchronised /\ a.version = q.version /\ a.mode = ServerMode
        /\ a.poll \in MIN_POLL .. MAX_POLL
        /\ a.stratum = KISS_OF_DEATH /\ a.reference_id = code
        /\ a.origin_timestamp = q.transmit_timestamp
        /\ DOMAIN a = PacketFields
    <3>1. IsKissAnswer(a, q, code, t)
      BY <1>2, <1>4, KissAnswer, SMT
    <3> HIDE DEF a
    <3> QED
      BY <3>1, Zenon DEF IsKissAnswer
  <2>3. a.leap \in 0 .. 3
    BY <2>2 DEF LeapUnsynchronised
  <2> HIDE DEF a
  <2>4. datagram' = Encode(Finalize(a, transmit))
    BY <2>1, Zenon DEF a
  <2> DEFINE p == Parsed(Encode(Finalize(a, transmit)))
  <2>5. /\ Encode(Finalize(a, transmit)).flags % 8 = ServerMode
        /\ p.leap = a.leap /\ p.version = a.version /\ p.mode = ServerMode
        /\ p.stratum = a.stratum /\ p.poll = a.poll /\ p.reference_id = a.reference_id
        /\ p.origin_timestamp = a.origin_timestamp
    BY <1>2, <2>2, <2>3, AnswerIsRead
  <2>6. p = Parsed(datagram')
    BY <2>4, Zenon
  <2> HIDE DEF p
  <2>7. p.stratum <= UNSYNCHRONISED
    BY <2>2, <2>5 DEF KISS_OF_DEATH, UNSYNCHRONISED
  <2> QED
    BY <1>3, <2>1, <2>2, <2>4, <2>5, <2>6, <2>7, Zenon DEF q
<1> QED
  BY <1>5, <1>6, Zenon

\* After an answer there is none.
LEMMA HopsAlwaysHold == WSpec => []HopsHold
<1>1. WInit(Int, Int, Datagrams \cup {NoDatagram}) => HopsHold
  BY Zenon DEF WInit, HopsHold
<1>2. HopsHold /\ [WNext]_wire => HopsHold'
  <2>1. ASSUME HopsHold, AnswerTime \/ AnswerKiss PROVE HopsHold'
    BY <2>1, AnswersStep, Zenon DEF HopsHold
  <2>2. ASSUME HopsHold, Advance \/ UNCHANGED wire PROVE HopsHold'
    BY <2>2, Zenon DEF HopsHold, Advance, wire
  <2> QED
    BY <2>1, <2>2, Zenon DEF WNext
<1> QED
  BY <1>1, <1>2, PTL DEF WSpec

\* Two servers of this kind never bounce a datagram between them, whatever it was and
\* whatever the policies of the two have in common (validate).
THEOREM AnswersAreNotAnswered == WSpec => []NoAnswerToAnAnswer
<1>1. HopsHold => NoAnswerToAnAnswer
  BY DEF HopsHold, NoAnswerToAnAnswer
<1> QED
  BY <1>1, HopsAlwaysHold, PTL

\* Every answer to every datagram, for every identity that Config::validate accepts, tells
\* the client what it is (build_response, build_kiss_of_death, encode).
THEOREM AnswersTell == WSpec => AnswersAreTold
<1> DEFINE Told ==
             hops' # hops =>
               LET p == Parsed(datagram')
                   q == Parsed(datagram)
               IN  /\ p.mode = ServerMode /\ p.version = q.version
                   /\ p.stratum = KISS_OF_DEATH => p.reference_id \in KissCodes
                   /\ p.stratum = KISS_OF_DEATH \/ p.stratum = UNSYNCHRONISED => p.leap = LeapUnsynchronised
                   /\ p.stratum <= UNSYNCHRONISED
                   /\ p.poll \in MIN_POLL .. MAX_POLL
                   /\ p.origin_timestamp = q.transmit_timestamp
<1>1. HopsHold /\ [WNext]_wire => [Told]_wire
  <2>1. ASSUME HopsHold, AnswerTime \/ AnswerKiss PROVE Told
    BY <2>1, AnswersStep, Zenon
  <2>2. ASSUME Advance PROVE Told
    BY <2>2, Zenon DEF Advance
  <2> QED
    BY <2>1, <2>2, Zenon DEF WNext
<1> QED
  BY <1>1, HopsAlwaysHold, PTL DEF WSpec, AnswersAreTold

-----------------------------------------------------------------------------
(* Queries *)

\* Different nanoseconds of a second have different fractions.
LEMMA FractionInjective ==
  ASSUME NEW n \in 0 .. NANOS_PER_SECOND - 1, NEW o \in 0 .. NANOS_PER_SECOND - 1, n < o
  PROVE  FractionFromNanos(n) # FractionFromNanos(o)
<1> DEFINE N == NANOS_PER_SECOND
           T == TWO_POW_32
           f == FractionFromNanos(n)
           g == FractionFromNanos(o)
<1>1. N \in Nat \ {0} /\ T \in Nat \ {0} /\ N <= T
  BY TimestampAssumption, Zenon
<1>2. /\ n % N = n /\ n \in Nat /\ n * T \in Nat
      /\ o % N = o /\ o \in Nat /\ o * T \in Nat
  BY <1>1
<1>3. f = (n * T) \div N /\ g = (o * T) \div N
  BY <1>2, Zenon DEF FractionFromNanos
<1> HIDE DEF N, T, f, g
<1>4. f \in Nat /\ n * T >= N * f
  BY <1>1, <1>2, <1>3
<1>5. g \in Nat /\ o * T < N * g + N
  BY <1>1, <1>2, <1>3
<1>6. o * T >= n * T + T
  <2>1. o * T >= (n + 1) * T
    BY <1>1, <1>2
  <2>2. (n + 1) * T = n * T + T
    BY <1>1, <1>2
  <2> QED
    BY <2>1, <2>2, Zenon
<1>7. N * f < N * g
  <2>1. N * f \in Nat /\ N * g \in Nat
    BY <1>1, <1>4, <1>5
  <2> QED
    BY <1>1, <1>2, <1>4, <1>5, <1>6, <2>1
<1> QED
  BY <1>1, <1>4, <1>7 DEF f, g

\* Two instants less than an era apart have different timestamps.
LEMMA TimestampInjective ==
  ASSUME NEW i \in Nat, NEW j \in Nat, ToTimestamp(i) = ToTimestamp(j),
         i - j < TWO_POW_32 * NANOS_PER_SECOND, j - i < TWO_POW_32 * NANOS_PER_SECOND
  PROVE  i = j
<1> DEFINE N == NANOS_PER_SECOND
           T == TWO_POW_32
           E == T * N
<1>1. N \in Nat \ {0} /\ T \in Nat \ {0} /\ E \in Nat \ {0}
  BY TimestampAssumption
<1>2. PICK e \in Nat, w \in 0 .. T - 1, n \in 0 .. N - 1 :
        /\ i \div N = T * e + w
        /\ i % N = n
        /\ i = N * (T * e + w) + n
        /\ ToTimestamp(i) = [seconds |-> w, fraction |-> FractionFromNanos(n)]
  BY InstantParts, Zenon
<1>3. PICK d \in Nat, v \in 0 .. T - 1, o \in 0 .. N - 1 :
        /\ j \div N = T * d + v
        /\ j % N = o
        /\ j = N * (T * d + v) + o
        /\ ToTimestamp(j) = [seconds |-> v, fraction |-> FractionFromNanos(o)]
  BY InstantParts, Zenon
<1>4. w = v /\ FractionFromNanos(n) = FractionFromNanos(o)
  BY <1>2, <1>3
<1>5. n = o
  BY <1>4, FractionInjective
<1>6. i - j < E /\ j - i < E
  BY Zenon
<1>7. i = E * e + (N * w + n) /\ j = E * d + (N * w + n)
  <2> HIDE DEF N, T
  <2>1. w \in Nat /\ n \in Nat /\ v \in Nat
    BY <1>1
  <2>2. N * (T * e + w) = E * e + N * w /\ N * (T * d + w) = E * d + N * w
    BY <1>1, <2>1
  <2>3. E * e \in Nat /\ E * d \in Nat /\ N * w \in Nat
    BY <1>1, <2>1
  <2> HIDE DEF E
  <2> QED
    BY <1>2, <1>3, <1>4, <1>5, <2>1, <2>2, <2>3
<1>8. N * w + n \in Nat
  <2>1. w \in Nat /\ n \in Nat
    BY <1>1
  <2> QED
    BY <1>1, <2>1
<1> DEFINE r == N * w + n
<1> HIDE DEF N, T, E, r
<1>9. E * e < E * (d + 1) /\ E * d < E * (e + 1)
  <2>1. E * (d + 1) = E * d + E /\ E * (e + 1) = E * e + E /\ E * e \in Nat /\ E * d \in Nat
    BY <1>1
  <2> QED
    BY <1>1, <1>6, <1>7, <1>8, <2>1 DEF r
<1>10. e < d + 1 /\ d < e + 1
  BY <1>1, <1>9, CancelStrictly
<1>11. e = d
  BY <1>10
<1> QED
  BY <1>7, <1>11, Zenon

\* Instants less than half an era apart are near, but for the rest of a second.
LEMMA NearWithin ==
  ASSUME NEW a \in Int, NEW b \in Int,
         a - (((TWO_POW_32 \div 2) - 1) * NANOS_PER_SECOND) <= b,
         b <= a + ((TWO_POW_32 \div 2) * NANOS_PER_SECOND)
  PROVE  Near(b, a)
<1> DEFINE N == NANOS_PER_SECOND
           H == TWO_POW_32 \div 2
           p == a \div N
           q == b \div N
<1>1. N \in Nat \ {0} /\ H \in Nat
  BY TimestampAssumption
<1>2. a - ((H - 1) * N) <= b /\ b <= a + (H * N)
  BY Zenon
<1> HIDE DEF N, H
<1>3. p \in Int /\ N * p <= a /\ a < N * p + N /\ q \in Int /\ N * q <= b /\ b < N * q + N
  BY <1>1
<1> HIDE DEF p, q
<1>4. /\ N * (p + H + 1) = N * p + H * N + N /\ N * (q + H) = N * q + (H - 1) * N + N
      /\ N * p \in Int /\ N * q \in Int /\ H * N \in Int /\ (H - 1) * N \in Int
  BY <1>1, <1>3
<1>5. N * q < N * (p + H + 1) /\ N * p < N * (q + H)
  BY <1>1, <1>2, <1>3, <1>4
<1>6. q < p + H + 1
  <2>1. p + H + 1 \in Int
    BY <1>1, <1>3
  <2> QED
    BY <1>1, <1>3, <1>5, <2>1, CancelStrictly, Zenon
<1>7. p < q + H
  <2>1. q + H \in Int
    BY <1>1, <1>3
  <2> QED
    BY <1>1, <1>3, <1>5, <2>1, CancelStrictly, Zenon
<1> QED
  BY <1>1, <1>3, <1>6, <1>7 DEF Near, p, q, N, H

-----------------------------------------------------------------------------
QueryTime == QueryTimeout + MaxOvertime

\* When a question was asked that may still be heard of.
Past(i) == i \in Nat /\ i <= now /\ now - i <= ticks

\* When its request was received, and when it was answered.
Received(i, r) == r \in Int /\ i <= r /\ r <= now /\ r + skew >= 0

\* The request of a question, and an answer to it, received at r and sent at x, or a kiss
\* without a clock.
IsQuestion(data, i) == data = Encode(Request(ToTimestamp(i)))
IsAnswer(data, i, r, x) ==
  LET p == Parsed(data)
  IN  /\ p.origin_timestamp = ToTimestamp(i)
      /\ p.receive_timestamp = ToTimestamp(r + skew)
      /\ p.transmit_timestamp \in {ZERO, ToTimestamp(x + skew)}

Question(data) == \E i \in Nat : Past(i) /\ IsQuestion(data, i)
Answer(data) ==
  \E i \in Nat, r, x \in Int :
    Past(i) /\ Received(i, r) /\ r <= x /\ x <= now /\ IsAnswer(data, i, r, x)
Held(h) ==
  \E i \in Nat, r \in Int :
    Past(i) /\ Received(i, r) /\ IsQuestion(h.request, i) /\ h.received = ToTimestamp(r + skew)

\* What is on its way, and what the server holds, stems from questions of this client.
NetworkHolds ==
  \A m \in network : (m.to = "server" => Question(m.data)) /\ (m.to = "client" => Answer(m.data))
HandlingHolds == \A h \in handling : Held(h)

\* Queries take no longer than they may, and all of them together less than an era.
TimeHolds ==
  /\ now \in Int /\ skew \in NearSkews /\ ticks \in Nat
  /\ queries \in Nat /\ queries <= MaxQueries
  /\ query.at = "waiting" =>
       /\ Past(query.t1) /\ now <= query.t1 + QueryTime
       /\ queries >= 1
       /\ ticks - (now - query.t1) <= MaxTicks + ((queries - 1) * QueryTime)
  /\ query.at # "waiting" => ticks <= MaxTicks + (queries * QueryTime)

ClientInv == TimeHolds /\ NetworkHolds /\ HandlingHolds /\ OffsetIsWithinHalfTheDelay

\* No question is an era old.
LEMMA NoQuestionIsOld ==
  ASSUME TimeHolds
  PROVE  ticks < TWO_POW_32 * NANOS_PER_SECOND
<1> DEFINE Q == QueryTime
           E == TWO_POW_32 * NANOS_PER_SECOND
<1>1. Q \in Nat /\ MaxTicks \in Nat /\ MaxQueries \in Nat /\ MaxTicks + (MaxQueries * Q) < E
  BY ClientAssumption, EraAssumption DEF QueryTime
<1>2. E \in Nat
  BY TimestampAssumption
<1>3. queries \in Nat /\ ticks \in Nat /\ queries * Q <= MaxQueries * Q
  BY <1>1 DEF TimeHolds
<1>4. queries * Q \in Nat /\ MaxQueries * Q \in Nat
  BY <1>1, <1>3
<1>5. ticks <= MaxTicks + (queries * Q)
  <2>1. CASE query.at = "waiting"
    <3>1. /\ query.t1 \in Nat /\ now \in Int /\ now <= query.t1 + Q
          /\ ticks - (now - query.t1) <= MaxTicks + ((queries - 1) * Q)
      BY <2>1, Zenon DEF TimeHolds, Past
    <3>2. (queries - 1) * Q = queries * Q - Q
      BY <1>1, <1>3
    <3> HIDE DEF Q
    <3> QED
      BY <1>1, <1>3, <1>4, <3>1, <3>2
  <2>2. CASE query.at # "waiting"
    BY <2>2, Zenon DEF TimeHolds
  <2> QED
    BY <2>1, <2>2, Zenon
<1> HIDE DEF Q, E
<1> QED
  BY <1>1, <1>2, <1>3, <1>4, <1>5 DEF E

\* The request says what the client put into it (query).
LEMMA RequestIsRead ==
  ASSUME NEW t
  PROVE  LET q == Parsed(Encode(Request(t)))
         IN  q.version \in {3, 4} /\ q.poll \in Int /\ q.transmit_timestamp = t
<1> DEFINE data == Encode(Request(t))
           q == Parsed(data)
<1>1. data.flags = ((0 * 64) + (NtpVersion * 8)) + 3 /\ data.poll = U8(6) /\ data.transmit_timestamp = t
  BY Zenon DEF Encode, Request, ClientMode
<1> HIDE DEF data
<1>2. q.version = (data.flags \div 8) % 8 /\ q.poll = I8(data.poll)
      /\ q.transmit_timestamp = data.transmit_timestamp
  BY Zenon DEF Parsed
<1> HIDE DEF q
<1>3. q.version \in {3, 4}
  <2>1. NtpVersion \in {3, 4}
    BY ClientAssumption, Zenon
  <2>2. CASE NtpVersion = 3
    BY <1>1, <1>2, <2>2
  <2>3. CASE NtpVersion = 4
    BY <1>1, <1>2, <2>3
  <2> QED
    BY <2>1, <2>2, <2>3, Zenon
<1>4. q.poll \in Int
  BY <1>1, <1>2 DEF U8, I8
<1> QED
  BY <1>1, <1>2, <1>3, <1>4, ClientAssumption, Zenon DEF q, data

\* An exchange with a server whose clock is k ahead: asked at t1, received at r, answered
\* at x, heard at t4, and the server's two times read as t2 and t3.
Exchange(t1, r, x, t4, k, t2, t3) ==
  /\ {t1, r, x, t4, k} \subseteq Int
  /\ t1 <= r /\ r <= x /\ x <= t4
  /\ t2 \in {(r + k) - 1, r + k} /\ t3 \in {(x + k) - 1, x + k}

\* The arithmetic of a report: the four times, two of them read with a nanosecond less
\* at most, against the real difference of the clocks (RFC 5905's delay and offset).
LEMMA ReportArithmetic ==
  ASSUME NEW t1, NEW r, NEW x, NEW t4, NEW k, NEW t2, NEW t3,
         Exchange(t1, r, x, t4, k, t2, t3)
  PROVE  LET delay == (t4 - t1) - (t3 - t2)
             theta == Half((t2 - t1) + (t3 - t4))
         IN  delay \in -1 .. (t4 - t1) + 1 /\ 2 * Abs(theta - k) <= delay + 3
<1> DEFINE delay == (t4 - t1) - (t3 - t2)
           sum == (t2 - t1) + (t3 - t4)
           theta == Half(sum)
<1>1. sum \in Int /\ k \in Int /\ delay \in Int
  BY DEF Exchange
<1>2. delay \in -1 .. (t4 - t1) + 1
  BY DEF Exchange
<1>3. sum - (2 * k) <= delay + 2 /\ (2 * k) - sum <= delay + 2
  BY DEF Exchange
<1> HIDE DEF sum, delay
<1>4. theta \in Int /\ sum - 1 <= 2 * theta /\ 2 * theta <= sum + 1
  BY <1>1 DEF Half
<1> HIDE DEF theta
<1>5. 2 * Abs(theta - k) <= delay + 3
  <2>1. CASE theta - k < 0
    BY <1>1, <1>3, <1>4, <2>1 DEF Abs
  <2>2. CASE theta - k >= 0
    BY <1>1, <1>3, <1>4, <2>2 DEF Abs
  <2> QED
    BY <1>1, <1>4, <2>1, <2>2
<1> QED
  BY <1>2, <1>5, Zenon DEF theta, sum, delay

\* The steps of a client, of the server it asks, and of the network between them.
LEMMA ClientCases ==
  ASSUME [ClientNext]_qvars
  PROVE  \/ Ask \/ TimeOut \/ SocketFails \/ CTick \/ UNCHANGED qvars
         \/ \E m \in network : Hear(m) \/ ServerReceives(m) \/ Lose(m)
         \/ \E data \in Noise : Hear(To("client", data))
         \/ \E h \in handling : ServerAnswers(h) \/ ServerDrops(h)
BY Zenon DEF ClientNext

\* What hearing a datagram leaves behind is a failure or a report.
LEMMA HearEnds ==
  ASSUME NEW m, Hear(m)
  PROVE  /\ query.at = "waiting" /\ query'.at # "waiting"
         /\ UNCHANGED <<now, skew, ticks, queries, network, handling>>
<1>1. query'.at \in {"failed", "reported"}
  BY Zenon DEF Hear, Failed, Report
<1> QED
  BY <1>1, Zenon DEF Hear

\* Every step keeps the time that queries take.
LEMMA TimeStep ==
  ASSUME TimeHolds, [ClientNext]_qvars
  PROVE  TimeHolds'
<1> DEFINE Q == QueryTime
<1>1. Q \in Nat /\ MaxTicks \in Nat /\ MaxQueries \in Nat /\ QueryTime = QueryTimeout + MaxOvertime
      /\ QueryTimeout \in Nat /\ MaxOvertime \in Nat
  BY ClientAssumption DEF QueryTime
<1>2. /\ now \in Int /\ skew \in NearSkews /\ ticks \in Nat
      /\ queries \in Nat /\ queries <= MaxQueries
  BY Zenon DEF TimeHolds
<1>3. queries * Q \in Nat /\ (queries - 1) * Q = queries * Q - Q /\ ((queries + 1) - 1) * Q = queries * Q
      /\ (queries + 1) * Q = queries * Q + Q
  BY <1>1, <1>2
<1>4. CASE Ask
  <2>1. /\ query.at # "waiting" /\ queries < MaxQueries /\ queries' = queries + 1
        /\ now' = now /\ skew' = skew /\ ticks' = ticks
    BY <1>4, Zenon DEF Ask
  <2>2. ticks <= MaxTicks + (queries * Q)
    BY <2>1, Zenon DEF TimeHolds
  <2>3. queries' \in Nat /\ queries' <= MaxQueries /\ queries' >= 1
    BY <1>1, <1>2, <2>1
  <2>4. CASE ToTimestamp(now) = BeforeNtpEpoch
    <3>1. query'.at = "failed"
      BY <1>4, <2>4 DEF Ask, Failed
    <3>2. ticks' <= MaxTicks + (queries' * Q)
      <4> HIDE DEF Q
      <4> QED
        BY <1>1, <1>2, <1>3, <2>1, <2>2
    <3> QED
      BY <1>2, <2>1, <2>3, <3>1, <3>2, Zenon DEF TimeHolds
  <2>5. CASE ToTimestamp(now) # BeforeNtpEpoch
    <3>1. query' = [at |-> "waiting", t1 |-> now]
      BY <1>4, <2>5, Zenon DEF Ask
    <3>2. now \in Nat
      BY <1>2, <2>5, ToTimestampType
    <3>3. query'.t1 = now /\ query'.at = "waiting"
      BY <3>1, Zenon
    <3>4. ticks' - (now' - query'.t1) <= MaxTicks + ((queries' - 1) * Q)
      <4> HIDE DEF Q
      <4> QED
        BY <1>1, <1>2, <1>3, <2>1, <2>2, <3>2, <3>3
    <3>5. Past(query.t1)' /\ now' <= query'.t1 + QueryTime
      BY <1>1, <1>2, <2>1, <3>2, <3>3 DEF Past
    <3> QED
      BY <1>2, <2>1, <2>3, <3>3, <3>4, <3>5, Zenon DEF TimeHolds
  <2> QED
    BY <2>4, <2>5, Zenon
<1>5. ASSUME query.at = "waiting", query'.at # "waiting",
             UNCHANGED <<now, skew, ticks, queries>>
      PROVE  TimeHolds'
  <2>1. /\ query.t1 \in Nat /\ now <= query.t1 + Q
        /\ ticks - (now - query.t1) <= MaxTicks + ((queries - 1) * Q)
    BY <1>5, Zenon DEF TimeHolds, Past
  <2>2. ticks <= MaxTicks + (queries * Q)
    <3> HIDE DEF Q
    <3> QED
      BY <1>1, <1>2, <1>3, <2>1
  <2> QED
    BY <1>2, <1>5, <2>2, Zenon DEF TimeHolds
<1>6. CASE TimeOut \/ SocketFails
  <2>1. query.at = "waiting" /\ query'.at = "failed" /\ UNCHANGED <<now, skew, ticks, queries>>
    BY <1>6 DEF TimeOut, SocketFails, Failed
  <2> QED
    BY <1>5, <2>1, Zenon
<1>7. ASSUME NEW m, Hear(m) PROVE TimeHolds'
  BY <1>5, <1>7, HearEnds, Zenon
<1>8. CASE CTick
  <2>1. now' = now + 1 /\ ticks' = ticks + 1 /\ UNCHANGED <<skew, queries, query>>
    BY <1>8, Zenon DEF CTick
  <2>2. CASE query.at = "waiting"
    <3>1. /\ query.t1 \in Nat /\ query.t1 <= now /\ now - query.t1 <= ticks /\ queries >= 1
          /\ ticks - (now - query.t1) <= MaxTicks + ((queries - 1) * Q)
      BY <2>2, Zenon DEF TimeHolds, Past
    <3>2. now < query.t1 + Q
      BY <1>1, <1>8, <2>2, <3>1 DEF CTick
    <3>3. ticks' - (now' - query'.t1) = ticks - (now - query.t1)
      BY <1>2, <2>1, <3>1
    <3>4. Past(query.t1)' /\ now' <= query'.t1 + Q
      BY <1>1, <1>2, <2>1, <3>1, <3>2 DEF Past
    <3> QED
      BY <1>2, <2>1, <2>2, <3>1, <3>3, <3>4 DEF TimeHolds
  <2>3. CASE query.at # "waiting"
    <3>1. ticks < MaxTicks
      BY <1>8, <2>3, Zenon DEF CTick
    <3>2. ticks' <= MaxTicks + (queries' * Q)
      <4> HIDE DEF Q
      <4> QED
        BY <1>1, <1>2, <1>3, <2>1, <3>1
    <3> QED
      BY <1>2, <2>1, <2>3, <3>2 DEF TimeHolds
  <2> QED
    BY <2>2, <2>3, Zenon
<1>9. ASSUME UNCHANGED <<now, skew, ticks, queries, query>> PROVE TimeHolds'
  BY <1>9, Zenon DEF TimeHolds, Past
<1>10. ASSUME NEW m, ServerReceives(m) \/ Lose(m) \/ ServerAnswers(m) \/ ServerDrops(m)
       PROVE  TimeHolds'
  BY <1>9, <1>10, Zenon DEF ServerReceives, Lose, ServerAnswers, ServerDrops
<1>11. CASE UNCHANGED qvars
  BY <1>9, <1>11, Zenon DEF qvars
<1> QED
  BY <1>4, <1>6, <1>7, <1>8, <1>10, <1>11, ClientCases, Zenon

\* The clocks of client and server move on together, if at all.
LEMMA ClocksMoveOn ==
  ASSUME TimeHolds, [ClientNext]_qvars
  PROVE  /\ skew' = skew /\ skew \in Int /\ now \in Int /\ ticks \in Nat
         /\ (now' = now /\ ticks' = ticks) \/ (now' = now + 1 /\ ticks' = ticks + 1)
<1>1. skew \in Int /\ now \in Int /\ ticks \in Nat
  BY Zenon DEF TimeHolds, NearSkews
<1>2. CASE CTick
  BY <1>1, <1>2, Zenon DEF CTick
<1>3. CASE Ask \/ TimeOut \/ SocketFails \/ UNCHANGED qvars
  BY <1>1, <1>3, Zenon DEF Ask, TimeOut, SocketFails, qvars
<1>4. ASSUME NEW m, Hear(m) \/ ServerReceives(m) \/ Lose(m) \/ ServerAnswers(m) \/ ServerDrops(m)
      PROVE  skew' = skew /\ now' = now /\ ticks' = ticks
  BY <1>4, Zenon DEF Hear, ServerReceives, Lose, ServerAnswers, ServerDrops
<1> QED
  BY <1>1, <1>2, <1>3, <1>4, ClientCases, Zenon

\* What is past remains so.
LEMMA PastRemains ==
  ASSUME TimeHolds, [ClientNext]_qvars, NEW i \in Nat, NEW r \in Int
  PROVE  /\ Past(i) => Past(i)'
         /\ Received(i, r) => Received(i, r)'
         /\ r <= now => r <= now'
BY ClocksMoveOn DEF Past, Received

\* So does what was sent and received.
LEMMA MailRemains ==
  ASSUME TimeHolds, [ClientNext]_qvars, NEW data
  PROVE  /\ Question(data) => Question(data)'
         /\ Answer(data) => Answer(data)'
         /\ Held(data) => Held(data)'
<1>1. Question(data) => Question(data)'
  BY PastRemains DEF Question, IsQuestion
<1>2. ASSUME Answer(data) PROVE Answer(data)'
  <2>1. PICK i \in Nat, r, x \in Int :
          Past(i) /\ Received(i, r) /\ r <= x /\ x <= now /\ IsAnswer(data, i, r, x)
    BY <1>2, Zenon DEF Answer
  <2>2. Past(i)' /\ Received(i, r)' /\ x <= now'
    BY <2>1, PastRemains, Zenon
  <2>3. IsAnswer(data, i, r, x)'
    BY <2>1, ClocksMoveOn, Zenon DEF IsAnswer
  <2> QED
    BY <2>1, <2>2, <2>3, Zenon DEF Answer
<1>3. ASSUME Held(data) PROVE Held(data)'
  <2>1. PICK i \in Nat, r \in Int :
          /\ Past(i) /\ Received(i, r) /\ IsQuestion(data.request, i)
          /\ data.received = ToTimestamp(r + skew)
    BY <1>3, Zenon DEF Held
  <2>2. Past(i)' /\ Received(i, r)' /\ IsQuestion(data.request, i)'
    BY <2>1, PastRemains, Zenon DEF IsQuestion
  <2> QED
    BY <2>1, <2>2, ClocksMoveOn, Zenon DEF Held
<1> QED
  BY <1>1, <1>2, <1>3, Zenon

\* The times that are read from a datagram.
Carries(data, origin, receive, transmit) ==
  LET p == Parsed(data)
  IN  /\ p.origin_timestamp = origin
      /\ p.receive_timestamp = receive /\ p.transmit_timestamp = transmit

\* The times that an answer with the time carries.
LEMMA TimeIsCarried ==
  ASSUME NEW q, NEW synced \in BOOLEAN, NEW receive, NEW stamp,
         q.version \in {3, 4}, q.poll \in Int
  PROVE  Carries(Encode(Finalize(BuildResponse(q, synced, ZERO, receive), stamp)),
                 q.transmit_timestamp, receive, stamp)
<1>1. PICK a : a = BuildResponse(q, synced, ZERO, receive)
  BY Zenon
<1>2. /\ a.leap \in 0 .. 3 /\ a.version = q.version /\ a.mode = ServerMode
      /\ a.poll \in MIN_POLL .. MAX_POLL
      /\ a.origin_timestamp = q.transmit_timestamp /\ a.receive_timestamp = receive
      /\ DOMAIN a = PacketFields
  <2>1. PICK ref : ref = ZERO
    BY Zenon
  <2>2. IsTimeAnswer(BuildResponse(q, synced, ref, receive), q, receive)
    BY TimeAnswer, SMT
  <2>3. IsTimeAnswer(a, q, receive)
    BY <1>1, <2>1, <2>2, Zenon
  <2> QED
    BY <2>3, Zenon DEF IsTimeAnswer
<1>3. a.version \in {3, 4}
  BY <1>2, Zenon
<1>4. PICK f : f = Finalize(a, stamp)
  BY Zenon
<1>5. /\ f.leap = a.leap /\ f.version = a.version /\ f.mode = a.mode /\ f.poll = a.poll
      /\ f.origin_timestamp = a.origin_timestamp /\ f.receive_timestamp = a.receive_timestamp
      /\ f.transmit_timestamp = stamp
  BY <1>2, <1>4, Zenon DEF Finalize, PacketFields
<1>6. LET p == Parsed(Encode(f))
      IN  /\ p.origin_timestamp = f.origin_timestamp
          /\ p.receive_timestamp = f.receive_timestamp
          /\ p.transmit_timestamp = f.transmit_timestamp
  BY <1>2, <1>3, <1>5, EncodedIsRead, Zenon
<1> QED
  BY <1>1, <1>2, <1>4, <1>5, <1>6, Zenon DEF Carries

\* The times that a kiss of death carries: that of its sending is zero.
LEMMA KissIsCarried ==
  ASSUME NEW q, NEW receive, q.version \in {3, 4}, q.poll \in Int
  PROVE  Carries(Encode(BuildKissOfDeath(q, "RATE", receive)),
                 q.transmit_timestamp, receive, ZERO)
<1>1. PICK k : k = BuildKissOfDeath(q, "RATE", receive)
  BY Zenon
<1>2. /\ k.leap = LeapUnsynchronised /\ k.version = q.version /\ k.mode = ServerMode
      /\ k.poll \in MIN_POLL .. MAX_POLL
      /\ k.origin_timestamp = q.transmit_timestamp /\ k.receive_timestamp = receive
      /\ k.transmit_timestamp = ZERO
  <2>1. PICK code : code = "RATE"
    BY Zenon
  <2>2. IsKissAnswer(BuildKissOfDeath(q, code, receive), q, code, receive)
    BY KissAnswer, SMT
  <2>3. IsKissAnswer(k, q, code, receive)
    BY <1>1, <2>1, <2>2, Zenon
  <2> QED
    BY <2>3, Zenon DEF IsKissAnswer
<1>3. k.leap \in 0 .. 3 /\ k.version \in {3, 4}
  BY <1>2 DEF LeapUnsynchronised
<1>4. LET p == Parsed(Encode(k))
      IN  /\ p.origin_timestamp = k.origin_timestamp
          /\ p.receive_timestamp = k.receive_timestamp
          /\ p.transmit_timestamp = k.transmit_timestamp
  BY <1>2, <1>3, EncodedIsRead, Zenon
<1> QED
  BY <1>1, <1>2, <1>4, Zenon DEF Carries

\* A server's answer, with the time or without a clock, is an answer to what it holds.
LEMMA AnswersToHeld ==
  ASSUME NEW h, Held(h), NEW answer, now \in Int, skew \in Int,
         answer \in {Finalize(BuildResponse(Parsed(h.request), TRUE, ZERO, h.received),
                              ToTimestamp(now + skew)),
                     BuildKissOfDeath(Parsed(h.request), "RATE", h.received)}
  PROVE  Answer(Encode(answer))
<1>1. PICK i \in Nat, r \in Int :
        /\ Past(i) /\ Received(i, r) /\ IsQuestion(h.request, i)
        /\ h.received = ToTimestamp(r + skew)
  BY Zenon DEF Held
<1>2. PICK q : q = Parsed(h.request)
  BY Zenon
<1>3. q.version \in {3, 4} /\ q.poll \in Int /\ q.transmit_timestamp = ToTimestamp(i)
  BY <1>1, <1>2, RequestIsRead, Zenon DEF IsQuestion
<1>4. LET p == Parsed(Encode(answer))
      IN  /\ p.origin_timestamp = q.transmit_timestamp
          /\ p.receive_timestamp = h.received
          /\ p.transmit_timestamp \in {ZERO, ToTimestamp(now + skew)}
  <2>1. PICK yes \in BOOLEAN : yes = TRUE
    BY Zenon
  <2>2. CASE answer = Finalize(BuildResponse(q, yes, ZERO, h.received), ToTimestamp(now + skew))
    <3>1. PICK stamp : stamp = ToTimestamp(now + skew)
      BY Zenon
    <3>2. Carries(Encode(Finalize(BuildResponse(q, yes, ZERO, h.received), stamp)),
                  q.transmit_timestamp, h.received, stamp)
      BY <1>3, TimeIsCarried, SMT
    <3> QED
      BY <2>2, <3>1, <3>2, Zenon DEF Carries
  <2>3. CASE answer = BuildKissOfDeath(q, "RATE", h.received)
    <3>1. Carries(Encode(BuildKissOfDeath(q, "RATE", h.received)),
                  q.transmit_timestamp, h.received, ZERO)
      BY <1>3, KissIsCarried, SMT
    <3> QED
      BY <2>3, <3>1, Zenon DEF Carries
  <2> QED
    BY <1>2, <2>1, <2>2, <2>3, Zenon
<1>5. IsAnswer(Encode(answer), i, r, now)
  BY <1>1, <1>3, <1>4, Zenon DEF IsAnswer
<1> QED
  BY <1>1, <1>5 DEF Answer, Received

\* Every step keeps what is on its way.
LEMMA NetworkStep ==
  ASSUME TimeHolds, NetworkHolds, HandlingHolds, [ClientNext]_qvars
  PROVE  NetworkHolds'
<1>1. ASSUME network' \subseteq network PROVE NetworkHolds'
  BY <1>1, MailRemains, Zenon DEF NetworkHolds
<1>2. CASE Ask
  <2>1. CASE network' = network
    BY <1>1, <2>1, Zenon
  <2>2. CASE ToTimestamp(now) # BeforeNtpEpoch
    <3>1. PICK i : i = now
      BY Zenon
    <3>2. i \in Nat /\ now' = now /\ ticks' = ticks /\ ticks \in Nat
      BY <1>2, <2>2, <3>1, ToTimestampType DEF TimeHolds, Ask
    <3>3. network' = network \cup {To("server", Encode(Request(ToTimestamp(i))))}
      BY <1>2, <2>2, <3>1, Zenon DEF Ask
    <3>4. Question(Encode(Request(ToTimestamp(i))))'
      BY <3>1, <3>2 DEF Question, IsQuestion, Past
    <3> QED
      BY <3>3, <3>4, MailRemains DEF NetworkHolds, To
  <2> QED
    BY <1>2, <2>1, <2>2, Zenon DEF Ask
<1>3. ASSUME NEW h \in handling, ServerAnswers(h) PROVE NetworkHolds'
  <2>1. PICK answer \in
          {Finalize(BuildResponse(Parsed(h.request), TRUE, ZERO, h.received), ToTimestamp(now + skew)),
           BuildKissOfDeath(Parsed(h.request), "RATE", h.received)} :
          network' = network \cup {To("client", Encode(answer))}
    BY <1>3, Zenon DEF ServerAnswers
  <2>2. now \in Int /\ skew \in Int
    BY Zenon DEF TimeHolds, NearSkews
  <2>3. Answer(Encode(answer))
    BY <2>1, <2>2, AnswersToHeld, Zenon DEF HandlingHolds
  <2>4. Answer(Encode(answer))'
    BY <2>3, MailRemains, Zenon
  <2> QED
    BY <2>1, <2>4, MailRemains DEF NetworkHolds, To
<1>4. CASE TimeOut \/ SocketFails \/ CTick \/ UNCHANGED qvars
  BY <1>1, <1>4, Zenon DEF TimeOut, SocketFails, CTick, qvars
<1>5. ASSUME NEW m, Hear(m) \/ ServerReceives(m) \/ Lose(m) \/ ServerDrops(m) PROVE NetworkHolds'
  BY <1>1, <1>5, Zenon DEF Hear, ServerReceives, Lose, ServerDrops
<1> QED
  BY <1>2, <1>3, <1>4, <1>5, ClientCases, Zenon

\* Every step keeps what the server holds.
LEMMA HandlingStep ==
  ASSUME TimeHolds, NetworkHolds, HandlingHolds, [ClientNext]_qvars
  PROVE  HandlingHolds'
<1>1. ASSUME handling' \subseteq handling PROVE HandlingHolds'
  BY <1>1, MailRemains, Zenon DEF HandlingHolds
<1>2. ASSUME NEW m \in network, ServerReceives(m) PROVE HandlingHolds'
  <2>1. m.to = "server" /\ now + skew >= 0
        /\ handling' = {[request |-> m.data, received |-> ToTimestamp(now + skew)]}
    BY <1>2, Zenon DEF ServerReceives
  <2>2. PICK h : h = [request |-> m.data, received |-> ToTimestamp(now + skew)]
    BY Zenon
  <2>3. PICK i \in Nat : Past(i) /\ IsQuestion(m.data, i)
    BY <2>1, Zenon DEF NetworkHolds, Question
  <2>4. now \in Int /\ Received(i, now)
    BY <2>1, <2>3 DEF Received, Past, TimeHolds
  <2>5. h.request = m.data /\ h.received = ToTimestamp(now + skew)
    BY <2>2, Zenon
  <2>6. Held(h)
    BY <2>3, <2>4, <2>5, Zenon DEF Held
  <2>7. Held(h)'
    BY <2>6, MailRemains, Zenon
  <2> QED
    BY <2>1, <2>2, <2>7, Zenon DEF HandlingHolds
<1>3. CASE Ask \/ TimeOut \/ SocketFails \/ CTick \/ UNCHANGED qvars
  BY <1>1, <1>3, Zenon DEF Ask, TimeOut, SocketFails, CTick, qvars
<1>4. ASSUME NEW m, Hear(m) \/ Lose(m) \/ ServerDrops(m) \/ ServerAnswers(m) PROVE HandlingHolds'
  BY <1>1, <1>4, Zenon DEF Hear, Lose, ServerDrops, ServerAnswers
<1> QED
  BY <1>2, <1>3, <1>4, ClientCases, Zenon

\* An answer that is heard in time, to the question that is asked, gives a report that is
\* right (Report).
LEMMA ReportIsRight ==
  ASSUME TimeHolds, query.at = "waiting", NEW p, NEW i \in Nat, NEW r \in Int, NEW x \in Int,
         Past(i), Received(i, r), r <= x, x <= now,
         p.origin_timestamp = ToTimestamp(i),
         p.receive_timestamp = ToTimestamp(r + skew),
         p.transmit_timestamp = ToTimestamp(x + skew),
         ToTimestamp(i) = ToTimestamp(query.t1)
  PROVE  LET report == Report(p, query.t1, now)
         IN  /\ report.delay_nanos \in -1 .. (now - query.t1) + 1
             /\ 2 * Abs(report.offset_nanos - skew) <= report.delay_nanos + 3
<1> DEFINE N == NANOS_PER_SECOND
           H == TWO_POW_32 \div 2
           t1 == query.t1
           t2 == Unfold(ToTimestamp(r + skew), t1)
           t3 == Unfold(ToTimestamp(x + skew), t1)
<1>1. /\ t1 \in Nat /\ t1 <= now /\ now - t1 <= ticks /\ now <= t1 + QueryTime
      /\ now \in Int /\ skew \in NearSkews /\ ticks \in Nat
  BY Zenon DEF TimeHolds, Past
<1>2. i <= now /\ now - i <= ticks /\ i <= r /\ r <= now /\ r + skew >= 0
  BY Zenon DEF Past, Received
<1>3. skew \in Int /\ -((H - 1) * N) <= skew /\ skew + QueryTime <= H * N /\ QueryTime \in Nat
  BY <1>1, ClientAssumption DEF NearSkews, QueryTime
<1>4. i = t1
  <2>1. ticks < TWO_POW_32 * NANOS_PER_SECOND /\ TWO_POW_32 * NANOS_PER_SECOND \in Nat
    BY NoQuestionIsOld, TimestampAssumption
  <2>2. i - t1 < TWO_POW_32 * NANOS_PER_SECOND /\ t1 - i < TWO_POW_32 * NANOS_PER_SECOND
    BY <1>1, <1>2, <2>1
  <2> QED
    BY <1>1, <2>2, TimestampInjective, Zenon
<1>5. ASSUME NEW y \in Int, t1 <= y, y <= now, y + skew >= 0
      PROVE  Unfold(ToTimestamp(y + skew), t1) \in {(y + skew) - 1, y + skew}
  <2> DEFINE low == (H - 1) * N
             high == H * N
  <2>1. low \in Int /\ high \in Int
    BY TimestampAssumption
  <2> HIDE DEF low, high
  <2>2. t1 - low <= y + skew /\ y + skew <= t1 + high
    BY <1>1, <1>3, <1>5, <2>1 DEF low, high
  <2>3. y + skew \in Nat /\ t1 \in Int
    BY <1>1, <1>3, <1>5
  <2>4. Near(y + skew, t1)
    BY <2>2, <2>3, NearWithin DEF low, high
  <2> DEFINE z == y + skew
  <2>5. z \in Nat /\ t1 \in Int /\ Near(z, t1)
    BY <2>3, <2>4, Zenon
  <2> HIDE DEF z, t1
  <2>6. Unfold(ToTimestamp(z), t1) \in {z - 1, z}
    BY <2>5, UnfoldsBack, Zenon
  <2> QED
    BY <2>6, Zenon DEF z, t1
<1>6. t2 \in {(r + skew) - 1, r + skew} /\ t3 \in {(x + skew) - 1, x + skew}
  <2>1. t1 <= r /\ r <= now /\ r + skew >= 0 /\ t1 <= x /\ x + skew >= 0
    BY <1>1, <1>2, <1>3, <1>4
  <2> QED
    BY <1>5, <2>1, Zenon
<1>7. /\ Report(p, t1, now).delay_nanos = (now - t1) - (t3 - t2)
      /\ Report(p, t1, now).offset_nanos = Half((t2 - t1) + (t3 - now))
  BY Zenon DEF Report
<1> HIDE DEF t1, t2, t3
<1>8. /\ (now - t1) - (t3 - t2) \in -1 .. (now - t1) + 1
      /\ 2 * Abs(Half((t2 - t1) + (t3 - now)) - skew) <= ((now - t1) - (t3 - t2)) + 3
  <2>1. t1 \in Int /\ t1 <= r /\ now \in Int /\ skew \in Int
    BY <1>1, <1>2, <1>3, <1>4 DEF t1
  <2>2. Exchange(t1, r, x, now, skew, t2, t3)
    BY <1>6, <2>1, Zenon DEF Exchange
  <2> QED
    BY <2>2, ReportArithmetic, Zenon
<1> QED
  BY <1>7, <1>8, Zenon DEF t1

\* Every step keeps the reports right.
LEMMA ReportStep ==
  ASSUME ClientInv, [ClientNext]_qvars
  PROVE  OffsetIsWithinHalfTheDelay'
<1>1. ASSUME query' = query, skew' = skew PROVE OffsetIsWithinHalfTheDelay'
  BY <1>1, Zenon DEF ClientInv, OffsetIsWithinHalfTheDelay
<1>2. ASSUME query'.at # "reported" PROVE OffsetIsWithinHalfTheDelay'
  BY <1>2, Zenon DEF OffsetIsWithinHalfTheDelay
<1>3. CASE Ask
  <2>1. query'.at \in {"failed", "waiting"}
    BY <1>3 DEF Ask, Failed
  <2> QED
    BY <1>2, <2>1, Zenon
<1>4. CASE TimeOut \/ SocketFails
  <2>1. query'.at = "failed"
    BY <1>4 DEF TimeOut, SocketFails, Failed
  <2> QED
    BY <1>2, <2>1, Zenon
<1>5. ASSUME NEW data \in Noise, Hear(To("client", data)) PROVE OffsetIsWithinHalfTheDelay'
  <2>1. ~Parses(data) \/ Parsed(data).mode # ServerMode
    BY ClientAssumption, Zenon DEF Parsed
  <2>2. To("client", data).data = data
    BY Zenon DEF To
  <2>3. query'.at = "failed"
    BY <1>5, <2>1, <2>2, Zenon DEF Hear, Failed
  <2> QED
    BY <1>2, <2>3, Zenon
<1>6. ASSUME NEW m \in network, Hear(m) PROVE OffsetIsWithinHalfTheDelay'
  <2> DEFINE p == Parsed(m.data)
             report == Report(p, query.t1, now)
  <2>1. m.to = "client" /\ query.at = "waiting" /\ skew' = skew
    BY <1>6, Zenon DEF Hear
  <2>2. query' = report \/ query'.at = "failed"
    BY <1>6, Zenon DEF Hear, Failed
  <2>3. CASE query' = report
    <3>1. /\ report.told = (p.transmit_timestamp # ZERO)
          /\ report.origin_matched = (p.origin_timestamp = ToTimestamp(query.t1))
          /\ report.t1 = query.t1 /\ report.t4 = now
      BY Zenon DEF Report
    <3> SUFFICES ASSUME report.told, report.origin_matched
                 PROVE  /\ report.delay_nanos \in -1 .. (now - query.t1) + 1
                        /\ 2 * Abs(report.offset_nanos - skew) <= report.delay_nanos + 3
      BY <2>1, <2>3, <3>1, Zenon DEF OffsetIsWithinHalfTheDelay
    <3>2. PICK i \in Nat, r, x \in Int :
            Past(i) /\ Received(i, r) /\ r <= x /\ x <= now /\ IsAnswer(m.data, i, r, x)
      BY <2>1, Zenon DEF ClientInv, NetworkHolds, Answer
    <3>3. /\ p.origin_timestamp = ToTimestamp(i) /\ p.receive_timestamp = ToTimestamp(r + skew)
          /\ p.transmit_timestamp = ToTimestamp(x + skew)
      BY <3>1, <3>2, Zenon DEF IsAnswer
    <3>4. ToTimestamp(i) = ToTimestamp(query.t1)
      BY <3>1, <3>3, Zenon
    <3> HIDE DEF p
    <3> QED
      BY <2>1, <3>2, <3>3, <3>4, ReportIsRight, Zenon DEF ClientInv
  <2> QED
    BY <1>2, <2>2, <2>3, Zenon
<1>7. CASE CTick \/ UNCHANGED qvars
  BY <1>1, <1>7, Zenon DEF CTick, qvars
<1>8. ASSUME NEW m, ServerReceives(m) \/ Lose(m) \/ ServerAnswers(m) \/ ServerDrops(m)
      PROVE  OffsetIsWithinHalfTheDelay'
  BY <1>1, <1>8, Zenon DEF ServerReceives, Lose, ServerAnswers, ServerDrops
<1> QED
  BY <1>3, <1>4, <1>5, <1>6, <1>7, <1>8, ClientCases, Zenon

\* A query is right about the server's clock, to half the delay it reports, whenever the
\* origin matched and the server gave the time: for any clocks less than half an era
\* apart, whatever is lost, repeated, late or from an earlier query.
THEOREM OffsetsAreRight == ClientSpec => []OffsetIsWithinHalfTheDelay
<1>1. ClientInit(Int, NearSkews) => ClientInv
  <2> SUFFICES ASSUME ClientInit(Int, NearSkews)
               PROVE  ClientInv
    BY Zenon
  <2>1. {QueryTimeout, MaxOvertime, MaxTicks, MaxQueries} \subseteq Nat
    BY ClientAssumption, Zenon
  <2>2. TimeHolds
    <3>1. QueryTime \in Nat
      BY <2>1 DEF QueryTime
    <3> QED
      BY <2>1, <3>1 DEF ClientInit, TimeHolds
  <2>3. NetworkHolds /\ HandlingHolds /\ OffsetIsWithinHalfTheDelay
    BY Zenon DEF ClientInit, NetworkHolds, HandlingHolds, OffsetIsWithinHalfTheDelay
  <2> QED
    BY <2>2, <2>3, Zenon DEF ClientInv
<1>2. ClientInv /\ [ClientNext]_qvars => ClientInv'
  BY TimeStep, NetworkStep, HandlingStep, ReportStep, Zenon DEF ClientInv
<1>3. ClientInv => OffsetIsWithinHalfTheDelay
  BY Zenon DEF ClientInv
<1> QED
  BY <1>1, <1>2, <1>3, PTL DEF ClientSpec

-----------------------------------------------------------------------------
(* The clock source: types *)

\* Every step keeps the types.
LEMMA TypeStep ==
  ASSUME CTypeOK, [CNext]_cvars
  PROVE  CTypeOK'
<1> USE DEF CTypeOK, ClockTypeOK, HistoryType
<1>1. CASE ClockTick /\ UNCHANGED history
  BY <1>1, SystemClockAssumption DEF ClockTick, clock, history
<1>2. CASE SetWallClock /\ stepped' = TRUE
           /\ UNCHANGED <<first_offset, base_offset, read_offset, checks>>
  BY <1>2, Zenon DEF SetWallClock, clock
<1>3. CASE CheckReadsWall /\ read_offset' = offset
           /\ UNCHANGED <<stepped, first_offset, base_offset, checks>>
  <2>1. wall \in Int
    BY SystemClockAssumption DEF wall
  <2>2. ((mono \div CheckPeriod) + 1) * CheckPeriod \in Nat
    BY SystemClockAssumption
  <2> QED
    BY <1>3, <2>1, <2>2 DEF CheckReadsWall
<1>4. CASE CheckCompares /\ base_offset' = read_offset /\ checks' = checks + 1
           /\ UNCHANGED <<stepped, first_offset, read_offset>>
  <2>1. now_wall \in Int
    BY <1>4, Zenon DEF CheckCompares
  <2>2. reference' \in NtpTimestamp
    BY <1>4, <2>1, ToTimestampType DEF CheckCompares
  <2>3. synchronised' \in BOOLEAN
    BY <1>4, Zenon DEF CheckCompares
  <2> QED
    BY <1>4, <2>1, <2>2, <2>3 DEF CheckCompares
<1>5. CASE UNCHANGED cvars
  BY <1>5, Zenon DEF cvars, clock, history
<1> QED
  BY <1>1, <1>2, <1>3, <1>4, <1>5, Zenon DEF CNext

-----------------------------------------------------------------------------
(* What jump_state and a check under way know of the wall clock. *)

\* How far ahead the wall clock looks, as jump_state has it.
Apparent == jump_state.last_wall - jump_state.last_mono

\* The two readings of a check belong together, up to the wait between them.
ReadingsMatch ==
  /\ base_offset - Apparent \in 0 .. MaxReadGap
  /\ now_wall # NoReading =>
       /\ now_wall = read_at + read_offset
       /\ mono - read_at \in 0 .. MaxReadGap

\* Every step keeps them together.
LEMMA ReadingsMatchStep ==
  ASSUME CTypeOK, ReadingsMatch, [CNext]_cvars
  PROVE  ReadingsMatch'
<1> USE DEF CTypeOK, ClockTypeOK, HistoryType, ReadingsMatch, Apparent
<1>1. CASE ClockTick /\ UNCHANGED history
  BY <1>1, SystemClockAssumption DEF ClockTick, clock, history
<1>2. CASE SetWallClock /\ stepped' = TRUE
           /\ UNCHANGED <<first_offset, base_offset, read_offset, checks>>
  BY <1>2, Zenon DEF SetWallClock, clock
<1>3. CASE CheckReadsWall /\ read_offset' = offset
           /\ UNCHANGED <<stepped, first_offset, base_offset, checks>>
  BY <1>3, SystemClockAssumption DEF CheckReadsWall, wall
<1>4. CASE CheckCompares /\ base_offset' = read_offset /\ checks' = checks + 1
           /\ UNCHANGED <<stepped, first_offset, read_offset>>
  BY <1>4, SystemClockAssumption DEF CheckCompares
<1>5. CASE UNCHANGED cvars
  BY <1>5, Zenon DEF cvars, clock, history
<1> QED
  BY <1>1, <1>2, <1>3, <1>4, <1>5, Zenon DEF CNext

\* Offsets are integers, and so are all readings.
LEMMA ClockTypes ==
  ASSUME CTypeOK
  PROVE  /\ jump_state.last_wall \in Int /\ jump_state.last_mono \in Int
         /\ mono \in Int /\ read_at \in Int
         /\ now_wall # NoReading => now_wall \in Int
         /\ base_offset \in Int /\ read_offset \in Int /\ first_offset \in Int
         /\ checks \in Nat /\ MaxReadGap \in Nat
         /\ max_forward \in Nat /\ max_backward \in Nat
         /\ checks * max_forward \in Nat /\ checks * max_backward \in Nat
<1>1. Offsets \subseteq Int /\ max_forward \in Nat /\ max_backward \in Nat /\ MaxReadGap \in Nat
  BY SystemClockAssumption, Zenon
<1>2. base_offset \in Int /\ read_offset \in Int /\ first_offset \in Int /\ checks \in Nat
  BY <1>1, Zenon DEF CTypeOK, HistoryType
<1>3. /\ jump_state.last_wall \in Int /\ jump_state.last_mono \in Int
      /\ mono \in Int /\ read_at \in Int
      /\ now_wall # NoReading => now_wall \in Int
  BY DEF CTypeOK, ClockTypeOK
<1> QED
  BY <1>1, <1>2, <1>3

\* What a check takes for the drift is how the wall clock was moved, give or take the
\* waits between the readings of this check and of the last.
LEMMA DriftIsMoved ==
  ASSUME CTypeOK, ReadingsMatch, now_wall # NoReading
  PROVE  /\ Drift \in Int /\ Moved \in Int
         /\ Drift - Moved <= MaxReadGap /\ Moved - Drift <= MaxReadGap
<1>1. /\ jump_state.last_wall \in Int /\ jump_state.last_mono \in Int /\ now_wall \in Int
      /\ mono \in Int /\ read_at \in Int /\ base_offset \in Int /\ read_offset \in Int
      /\ MaxReadGap \in Nat
  BY ClockTypes, Zenon
<1> QED
  BY <1>1 DEF ReadingsMatch, Apparent, Drift, Moved

-----------------------------------------------------------------------------
\* Nobody touched the wall clock, and the source is trusted.
Untouched ==
  ~stepped =>
    /\ offset = first_offset /\ base_offset = first_offset
    /\ now_wall # NoReading => read_offset = first_offset

\* Every step of the others leaves an untouched clock untouched.
LEMMA UntouchedStep ==
  ASSUME Untouched, [CNext]_cvars
  PROVE  Untouched'
BY Zenon DEF Untouched, CNext, cvars, clock, history, ClockTick, SetWallClock, CheckReadsWall,
   CheckCompares

\* No check takes an untouched clock for one that jumped.
LEMMA NoFalseAlarmStep ==
  ASSUME CTypeOK, ReadingsMatch, Untouched, NoFalseAlarm, [CNext]_cvars
  PROVE  NoFalseAlarm'
<1> SUFFICES ASSUME ~stepped', MaxReadGap <= max_backward, MaxReadGap <= max_forward
             PROVE  synchronised'
  BY Zenon DEF NoFalseAlarm
<1>1. ~stepped
  BY Zenon DEF CNext, cvars, history
<1>2. synchronised
  BY <1>1, Zenon DEF NoFalseAlarm
<1>3. CASE CheckCompares
  <2>1. now_wall # NoReading
    BY <1>3, Zenon DEF CheckCompares
  <2>2. Moved = 0
    BY <1>1, <2>1, ClockTypes DEF Untouched, Moved
  <2>3. ~Jumped
    BY <2>1, <2>2, DriftIsMoved, SystemClockAssumption DEF Jumped
  <2> QED
    BY <1>2, <1>3, <2>3, Zenon DEF CheckCompares
<1>4. CASE ~CheckCompares
  BY <1>2, <1>4, Zenon DEF CNext, cvars, clock, ClockTick, SetWallClock, CheckReadsWall
<1> QED
  BY <1>3, <1>4, Zenon

-----------------------------------------------------------------------------
\* The drifts accepted so far add up: every check adds at most a threshold.
DriftsAddUp ==
  mark_unsynchronised_on_jump /\ synchronised =>
    \E gap \in 0 .. MaxReadGap :
      /\ Apparent - (first_offset - gap) <= checks * max_forward
      /\ (first_offset - gap) - Apparent <= checks * max_backward

\* Every step keeps the sum.
LEMMA DriftsAddUpStep ==
  ASSUME CTypeOK, ReadingsMatch, DriftsAddUp, [CNext]_cvars
  PROVE  DriftsAddUp'
<1>1. CASE CheckCompares /\ checks' = checks + 1 /\ UNCHANGED first_offset
  <2> SUFFICES ASSUME mark_unsynchronised_on_jump, synchronised'
               PROVE  \E gap \in 0 .. MaxReadGap :
                        /\ Apparent' - (first_offset - gap) <= checks' * max_forward
                        /\ (first_offset - gap) - Apparent' <= checks' * max_backward
    BY <1>1, Zenon DEF DriftsAddUp
  <2>1. synchronised /\ ~Jumped /\ now_wall # NoReading
    BY <1>1, Zenon DEF CheckCompares
  <2>2. PICK gap \in 0 .. MaxReadGap :
          /\ Apparent - (first_offset - gap) <= checks * max_forward
          /\ (first_offset - gap) - Apparent <= checks * max_backward
    BY <2>1, Zenon DEF DriftsAddUp
  <2> DEFINE f == checks * max_forward
             b == checks * max_backward
  <2>3. /\ max_forward \in Nat /\ max_backward \in Nat /\ checks \in Nat
        /\ first_offset \in Int /\ gap \in Int
        /\ f \in Nat /\ b \in Nat
    BY ClockTypes
  <2>4. checks' * max_forward = f + max_forward /\ checks' * max_backward = b + max_backward
    BY <1>1, <2>3
  <2>5. Drift \in Int /\ Drift <= max_forward /\ -max_backward <= Drift
    BY <2>1, <2>3, DriftIsMoved DEF Jumped
  <2>6. Apparent \in Int /\ Apparent' = Apparent + Drift
    <3>1. /\ jump_state.last_wall \in Int /\ jump_state.last_mono \in Int
          /\ now_wall \in Int /\ mono \in Int
      BY <2>1, ClockTypes, Zenon
    <3>2. jump_state'.last_wall = now_wall /\ jump_state'.last_mono = mono
      BY <1>1, Zenon DEF CheckCompares
    <3> QED
      BY <3>1, <3>2 DEF Apparent, Drift
  <2> HIDE DEF f, b
  <2>7. /\ Apparent' - (first_offset - gap) <= f + max_forward
        /\ (first_offset - gap) - Apparent' <= b + max_backward
    BY <2>2, <2>3, <2>5, <2>6 DEF f, b
  <2> QED
    BY <2>4, <2>7, Zenon
<1>2. CASE UNCHANGED <<synchronised, jump_state, first_offset, checks>>
  BY <1>2, Zenon DEF DriftsAddUp, Apparent
<1> QED
  BY <1>1, <1>2, Zenon DEF CNext, cvars, clock, history, ClockTick, SetWallClock, CheckReadsWall

\* The sum bounds how far the wall clock has really crept.
LEMMA CreepBound ==
  ASSUME CTypeOK, ReadingsMatch, DriftsAddUp
  PROVE  CreepIsBounded
<1> SUFFICES ASSUME mark_unsynchronised_on_jump, synchronised
             PROVE  /\ base_offset - first_offset <= (checks * max_forward) + MaxReadGap
                    /\ first_offset - base_offset <= (checks * max_backward) + MaxReadGap
  BY Zenon DEF CreepIsBounded
<1>1. PICK gap \in 0 .. MaxReadGap :
        /\ Apparent - (first_offset - gap) <= checks * max_forward
        /\ (first_offset - gap) - Apparent <= checks * max_backward
  BY Zenon DEF DriftsAddUp
<1> DEFINE f == checks * max_forward
           b == checks * max_backward
<1>2. /\ f \in Nat /\ b \in Nat /\ first_offset \in Int /\ base_offset \in Int
      /\ Apparent \in Int /\ gap \in Int /\ MaxReadGap \in Nat
  BY ClockTypes DEF Apparent
<1>3. base_offset - Apparent \in 0 .. MaxReadGap
  BY Zenon DEF ReadingsMatch
<1>4. Apparent - (first_offset - gap) <= f /\ (first_offset - gap) - Apparent <= b
  BY <1>1, Zenon
<1> HIDE DEF f, b
<1>5. /\ base_offset - first_offset <= f + MaxReadGap
      /\ first_offset - base_offset <= b + MaxReadGap
  BY <1>2, <1>3, <1>4
<1> QED
  BY <1>5, Zenon DEF f, b

\* A step keeps the reference at the latest check.
LEMMA ReferenceStep ==
  ASSUME CTypeOK, ReferenceIsLatestCheck, [CNext]_cvars
  PROVE  ReferenceIsLatestCheck'
<1>1. CASE CheckCompares
  <2>1. now_wall \in Int /\ jump_state'.last_wall = now_wall
    BY <1>1, Zenon DEF CheckCompares, CTypeOK, ClockTypeOK
  <2> QED
    BY <1>1, <2>1, ToTimestampType, Zenon DEF CheckCompares, ReferenceIsLatestCheck
<1>2. CASE UNCHANGED <<synchronised, jump_state, reference>>
  BY <1>2, Zenon DEF ReferenceIsLatestCheck
<1> QED
  BY <1>1, <1>2, Zenon DEF CNext, cvars, clock, ClockTick, SetWallClock, CheckReadsWall

-----------------------------------------------------------------------------
CInv ==
  /\ CTypeOK
  /\ ReadingsMatch
  /\ Untouched
  /\ NoFalseAlarm
  /\ DriftsAddUp
  /\ ReferenceIsLatestCheck

\* The inductive invariant of the clock and its history.
THEOREM ClockInvariance == CSpec => []CInv
<1>1. CInit => CInv
  <2> SUFFICES ASSUME CInit
               PROVE  CInv
    BY Zenon
  <2>1. PICK first \in Offsets, gap \in 0 .. MaxReadGap :
          /\ ToTimestamp(first - gap) # BeforeNtpEpoch
          /\ reference = ToTimestamp(first - gap)
          /\ jump_state = [last_wall |-> first - gap, last_mono |-> 0]
    BY Zenon DEF CInit, ClockInit
  <2>2. first - gap \in Int
    BY SystemClockAssumption
  <2>3. reference \in NtpTimestamp
    BY <2>1, <2>2, ToTimestampType
  <2>4. CTypeOK
    BY <2>1, <2>2, <2>3, SystemClockAssumption
    DEF CInit, ClockInit, CTypeOK, ClockTypeOK, HistoryType
  <2>5. ReadingsMatch
    BY <2>1, <2>2, <2>4, SystemClockAssumption
    DEF CInit, ClockInit, ReadingsMatch, Apparent, FirstGap, CTypeOK, HistoryType
  <2>6. Untouched /\ NoFalseAlarm
    BY Zenon DEF CInit, ClockInit, Untouched, NoFalseAlarm
  <2>7. DriftsAddUp
    <3>1. 0 * max_forward = 0 /\ 0 * max_backward = 0
      BY SystemClockAssumption
    <3>2. FirstGap \in 0 .. MaxReadGap /\ Apparent = first_offset - FirstGap /\ Apparent \in Int
      BY <2>1, <2>2, <2>4, SystemClockAssumption
      DEF CInit, FirstGap, Apparent, CTypeOK, HistoryType
    <3>3. /\ Apparent - (first_offset - FirstGap) <= checks * max_forward
          /\ (first_offset - FirstGap) - Apparent <= checks * max_backward
      BY <3>1, <3>2 DEF CInit
    <3> QED
      BY <3>2, <3>3, Zenon DEF DriftsAddUp
  <2>8. ReferenceIsLatestCheck
    BY <2>1, Zenon DEF ReferenceIsLatestCheck
  <2> QED
    BY <2>4, <2>5, <2>6, <2>7, <2>8, Zenon DEF CInv
<1>2. CInv /\ [CNext]_cvars => CInv'
  BY TypeStep, ReadingsMatchStep, UntouchedStep, NoFalseAlarmStep, DriftsAddUpStep,
     ReferenceStep, Zenon DEF CInv
<1> QED
  BY <1>1, <1>2, PTL DEF CSpec

\* A clock nobody sets is trusted for good, if the task is never held up between its
\* two clock readings for longer than a threshold.
THEOREM NeverAFalseAlarm == CSpec => []NoFalseAlarm
BY ClockInvariance, PTL DEF CInv

\* A trusted clock has crept no further than the thresholds allow per check.
THEOREM CreepStaysBounded == CSpec => []CreepIsBounded
<1>1. CInv => CreepIsBounded
  BY CreepBound, Zenon DEF CInv
<1> QED
  BY <1>1, ClockInvariance, PTL

\* The reference timestamp of a trusted clock is its latest check.
THEOREM ReferenceIsChecked == CSpec => []ReferenceIsLatestCheck
BY ClockInvariance, PTL DEF CInv

\* A jump above the threshold that a check can see ends the trust.
THEOREM JumpsAreCaught == CSpec => JumpIsCaught
<1> DEFINE Caught ==
      /\ mark_unsynchronised_on_jump
      /\ checks' # checks
      /\ Moved > max_forward + MaxReadGap \/ Moved < -(max_backward + MaxReadGap)
      => ~synchronised'
<1>1. CInv /\ [CNext]_cvars => [Caught]_cvars
  <2> SUFFICES ASSUME CInv, CNext, mark_unsynchronised_on_jump, checks' # checks,
                      Moved > max_forward + MaxReadGap \/ Moved < -(max_backward + MaxReadGap)
               PROVE  ~synchronised'
    BY Zenon
  <2>1. CheckCompares
    BY Zenon DEF CNext, history
  <2>2. now_wall # NoReading
    BY <2>1, Zenon DEF CheckCompares
  <2>3. Jumped
    BY <2>2, DriftIsMoved, SystemClockAssumption DEF CInv, Jumped
  <2> QED
    BY <2>1, <2>3, Zenon DEF CheckCompares
<1> QED
  BY <1>1, ClockInvariance, PTL DEF CSpec, JumpIsCaught
=============================================================================
