------------------------------- MODULE Client -------------------------------
(***************************************************************************)
(* crates/heeler-server/src/client.rs: query sends one request and reports *)
(* delay and offset from the first datagram that comes back.  Between it   *)
(* and the server is a network that loses, delays, repeats and reorders    *)
(* datagrams, and that still holds answers to earlier queries.             *)
(*                                                                         *)
(* `now` is the client's wall clock, read as an instant; the server's is   *)
(* `skew` ahead of it.  Name resolution and the printing of the report     *)
(* (format_report) are left out.                                           *)
(***************************************************************************)
EXTENDS Packet, FiniteSets

CONSTANTS
  NtpVersion,      \* QueryOptions.version
  QueryTimeout,    \* QueryOptions.timeout
  Noise,           \* datagrams from the server's address that are no answers
  \* bounds of the model
  MaxQueries,      \* how often the program is run
  MaxInFlight,     \* datagrams the network holds
  MaxOvertime,     \* how long after its limit recv may return
  MaxTicks         \* the time that passes

ASSUME ClientAssumption ==
  /\ NtpVersion \in {3, 4}
  /\ QueryTimeout \in Nat \ {0}
  /\ MaxQueries \in Nat /\ MaxInFlight \in Nat /\ MaxOvertime \in Nat /\ MaxTicks \in Nat
  /\ \A data \in Noise : Parses(data) => data.flags % 8 # ServerMode

\* No datagram is on its way for a whole era.
ASSUME EraAssumption ==
  MaxTicks + (MaxQueries * (QueryTimeout + MaxOvertime)) < TWO_POW_32 * NANOS_PER_SECOND

VARIABLES
  now, skew,
  ticks,     \* how often the clock has moved
  queries,   \* queries begun so far
  query,     \* the query under way, or its outcome
  network,   \* datagrams sent, each of which may arrive any number of times
  handling   \* requests the server has received and not answered, with their T2

qvars == <<now, skew, ticks, queries, query, network, handling>>

\* The request; the transmit timestamp is T1.
Request(t1_wire) ==
  [leap |-> 0, version |-> NtpVersion, mode |-> ClientMode, stratum |-> 0, poll |-> 6,
   precision |-> -20, reference_id |-> "", reference_timestamp |-> ZERO,
   origin_timestamp |-> ZERO, receive_timestamp |-> ZERO, transmit_timestamp |-> t1_wire]

To(whom, data) == [to |-> whom, data |-> data]
Failed(error) == [at |-> "failed", error |-> error]

ClientInit(start, skews) ==
  /\ now \in start /\ skew \in skews
  /\ ticks = 0 /\ queries = 0
  /\ query = [at |-> "none"]
  /\ network = {}
  /\ handling = {}

-----------------------------------------------------------------------------
\* The first half of query, up to send.  T1 before 1900 cannot be represented.
Ask ==
  /\ query.at # "waiting"
  /\ queries < MaxQueries
  /\ Cardinality(network) < MaxInFlight
  /\ queries' = queries + 1
  /\ LET t1_wire == ToTimestamp(now)
     IN  IF t1_wire = BeforeNtpEpoch
         THEN query' = Failed("Clock") /\ UNCHANGED network
         ELSE /\ query' = [at |-> "waiting", t1 |-> now]
              /\ network' = network \cup {To("server", Encode(Request(t1_wire)))}
  /\ UNCHANGED <<now, skew, ticks, handling>>

\* Division of i128 truncates.
Half(n) == IF n >= 0 THEN n \div 2 ELSE -((-n) \div 2)

\* Mutated form: the two differences of the offset are taken the same way round.
ReportSwapped(response, t1, t4) ==
  LET t2 == Unfold(response.receive_timestamp, t1)
      t3 == Unfold(response.transmit_timestamp, t1)
  IN  [at |-> "reported", t1 |-> t1, t4 |-> t4,
       delay_nanos    |-> (t4 - t1) - (t3 - t2),
       offset_nanos   |-> Half((t2 - t1) + (t4 - t3)),
       told           |-> response.transmit_timestamp # ZERO,
       origin_matched |-> response.origin_timestamp = ToTimestamp(t1)]

Report(response, t1, t4) ==
  LET t2 == Unfold(response.receive_timestamp, t1)
      t3 == Unfold(response.transmit_timestamp, t1)
  IN  [at |-> "reported", t1 |-> t1, t4 |-> t4,
       delay_nanos    |-> (t4 - t1) - (t3 - t2),
       offset_nanos   |-> Half((t2 - t1) + (t3 - t4)),
       told           |-> response.transmit_timestamp # ZERO,
       origin_matched |-> response.origin_timestamp = ToTimestamp(t1)]

\* The second half: the first datagram is the last one looked at, whatever it is.
Hear(m) ==
  /\ query.at = "waiting"
  /\ m.to = "client"
  /\ LET response == Parsed(m.data)
     IN  query' = IF ~Parses(m.data) THEN Failed("Malformed")
                  ELSE IF response.mode # ServerMode THEN Failed("UnexpectedMode")
                  ELSE Report(response, query.t1, now)
  /\ UNCHANGED <<now, skew, ticks, queries, network, handling>>

\* Mutated form: recv waits without a limit.
NeverTimesOut == FALSE /\ UNCHANGED qvars

\* recv gives up; the answer may still be on its way.
TimeOut ==
  /\ query.at = "waiting"
  /\ now >= query.t1 + QueryTimeout
  /\ query' = Failed("Timeout")
  /\ UNCHANGED <<now, skew, ticks, queries, network, handling>>

\* The socket reports an error of its own.
SocketFails ==
  /\ query.at = "waiting"
  /\ query' = Failed("Io")
  /\ UNCHANGED <<now, skew, ticks, queries, network, handling>>

-----------------------------------------------------------------------------
(* The server, as far as a client sees it *)

ServerReceives(m) ==
  /\ m.to = "server"
  /\ now + skew >= 0
  /\ handling = {}
  /\ handling' = {[request |-> m.data, received |-> ToTimestamp(now + skew)]}
  /\ UNCHANGED <<now, skew, ticks, queries, query, network>>

\* An answer with the time, or a Kiss-o'-Death without a clock; the other answers differ
\* in fields that query does not look at.
ServerAnswers(h) ==
  /\ Cardinality(network) < MaxInFlight
  /\ \E answer \in
       {Finalize(BuildResponse(Parsed(h.request), TRUE, ZERO, h.received), ToTimestamp(now + skew)),
        BuildKissOfDeath(Parsed(h.request), "RATE", h.received)} :
       network' = network \cup {To("client", Encode(answer))}
  /\ handling' = handling \ {h}
  /\ UNCHANGED <<now, skew, ticks, queries, query>>

ServerDrops(h) == handling' = handling \ {h} /\ UNCHANGED <<now, skew, ticks, queries, query, network>>

Lose(m) == network' = network \ {m} /\ UNCHANGED <<now, skew, ticks, queries, query, handling>>

\* Time passes.
CTick ==
  /\ IF query.at = "waiting" THEN now < query.t1 + QueryTimeout + MaxOvertime ELSE ticks < MaxTicks
  /\ now' = now + 1 /\ ticks' = ticks + 1
  /\ UNCHANGED <<skew, queries, query, network, handling>>

ClientNext ==
  \/ Ask \/ TimeOut \/ SocketFails \/ CTick
  \/ \E m \in network : Hear(m) \/ ServerReceives(m) \/ Lose(m)
  \/ \E data \in Noise : Hear(To("client", data))
  \/ \E h \in handling : ServerAnswers(h) \/ ServerDrops(h)

\* How far apart the clocks may be for the client to find the era of every answer that
\* is in time: half an era, less the time a query takes and the rest of a second.
NearSkews ==
  LET half == TWO_POW_32 \div 2
  IN  {k \in Int : /\ -((half - 1) * NANOS_PER_SECOND) <= k
                   /\ k + QueryTimeout + MaxOvertime <= half * NANOS_PER_SECOND}

ClientSpec == ClientInit(Int, NearSkews) /\ [][ClientNext]_qvars

-----------------------------------------------------------------------------
Abs(n) == IF n < 0 THEN -n ELSE n

\* What a report is worth: when its origin matched and the server gave the time, the
\* clocks really differ by the offset reported, give or take half the delay reported and
\* the truncations; the delay is never negative beyond them, nor longer than the query took.
\* This holds on both sides of an era boundary, and whichever copies and answers to
\* earlier queries the network still holds (query).
OffsetIsWithinHalfTheDelay ==
  query.at = "reported" /\ query.origin_matched /\ query.told =>
    /\ query.delay_nanos \in -1 .. (query.t4 - query.t1) + 1
    /\ 2 * Abs(query.offset_nanos - skew) <= query.delay_nanos + 3

\* A query ends, whatever the network does.
QueriesEnd == query.at = "waiting" ~> query.at # "waiting"
=============================================================================
