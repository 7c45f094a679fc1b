----------------------------- MODULE Responder ------------------------------
(***************************************************************************)
(* What the server promises its clients, without how: a worker takes a     *)
(* datagram, and either forgets it or answers it once.  There are no       *)
(* counters, no limiter, no housekeeping and no order of checks here;      *)
(* Server implements this specification.                                   *)
(***************************************************************************)
EXTENDS Packet

CONSTANTS
  Workers, Sources, Arrivals,  \* who answers, who asks, and what
  Refused                      \* the sources the access rules deny

VARIABLES
  time,     \* the instant the wall clock shows; it may be set at will
  trusted,  \* is the clock trusted?  Trust is never regained
  task      \* per worker: nothing, a question, or the answer it is about to send

rvars == <<time, trusted, task>>

Nothing == [is |-> "nothing"]
Question(source, data, received, hope) ==
  [is |-> "question", source |-> source, data |-> data, received |-> received, hope |-> hope]
Answer(source, reply) == [is |-> "answer", source |-> source, reply |-> reply]

RInit ==
  /\ time \in Int
  /\ trusted = TRUE
  /\ task = [w \in Workers |-> Nothing]

\* The world goes on.
Pass ==
  /\ time' \in Int
  /\ trusted' \in {FALSE, trusted}
  /\ UNCHANGED task

\* T2 is the clock's reading as the datagram is taken.
Take(w) ==
  /\ task[w] = Nothing
  /\ ToTimestamp(time) # BeforeNtpEpoch
  /\ \E source \in Sources, data \in Arrivals :
       task' = [task EXCEPT ![w] = Question(source, data, ToTimestamp(time), trusted)]
  /\ UNCHANGED <<time, trusted>>

Forget(w) ==
  /\ task' = [task EXCEPT ![w] = Nothing]
  /\ UNCHANGED <<time, trusted>>

\* An answer belongs to its question: the client finds its own transmit timestamp as
\* the origin, and is answered in its version.
Belongs(q, reply) ==
  /\ reply.mode = ServerMode
  /\ reply.version = Parsed(q.data).version
  /\ reply.origin_timestamp = Parsed(q.data).transmit_timestamp
  /\ reply.receive_timestamp = q.received

\* The time, for a source that is not refused, from a clock that can be read at this
\* moment.  A clock that was not trusted as the question came is not called good.
TellsTime(q, reply) ==
  /\ q.source \notin Refused
  /\ reply.transmit_timestamp = ToTimestamp(time)
  /\ \/ q.hope /\ reply.stratum = identity.stratum /\ reply.leap = identity.leap
     \/ ~trusted /\ reply.stratum = UNSYNCHRONISED /\ reply.leap = LeapUnsynchronised

\* A kiss, which tells no time and says why.
Kiss(q, reply) ==
  /\ reply.stratum = KISS_OF_DEATH
  /\ reply.leap = LeapUnsynchronised
  /\ reply.reference_id = IF q.source \in Refused THEN "DENY" ELSE "RATE"
  /\ reply.transmit_timestamp \in {ToTimestamp(time), ZERO}

\* Only requests are answered, never at greater length, and T3 is a new reading.
Reply(w) ==
  LET q == task[w]
      answer == task'[w]
  IN  /\ q.is = "question" /\ IsRequest(q.data)
      /\ answer.is = "answer" /\ answer.source = q.source
      /\ Encode(answer.reply).len <= q.data.len
      /\ Belongs(q, answer.reply)
      /\ TellsTime(q, answer.reply) \/ Kiss(q, answer.reply)
      /\ \A v \in Workers \ {w} : task'[v] = task[v]
      /\ UNCHANGED <<time, trusted>>

RNext == Pass \/ \E w \in Workers : Take(w) \/ Forget(w) \/ Reply(w)

RSpec == RInit /\ [][RNext]_rvars
=============================================================================
