-------------------------- MODULE ServerInvariant ---------------------------
(***************************************************************************)
(* The inductive invariant of the server: what each receive loop holds at  *)
(* each place of handle_datagram and send_kod, what the limiter and        *)
(* housekeeping know of each other, and the books that the counters keep.  *)
(***************************************************************************)
EXTENDS Server

-----------------------------------------------------------------------------
(* What a loop holds, place by place *)

Arrived == {Truncated(d) : d \in Datagrams}

\* The kiss for a source: DENY for those the rules deny, RATE for the others.
KissCode(source) == IF source \in DeniedClients THEN "DENY" ELSE "RATE"

\* A datagram in the hands of a loop.  An alarm it noted as the datagram came still holds.
Carries(r) ==
  /\ r.source \in Clients
  /\ r.receive \in NtpTimestamp
  /\ r.alarm \in BOOLEAN
  /\ r.alarm => ~synchronised

\* Nothing was built from it yet; past the access rules it is not from a denied source.
InHand ==
  [at : {"received", "limiter", "parse"}, source : Clients, data : Arrived,
   receive : NtpTimestamp, alarm : BOOLEAN]
Asked(r) ==
  /\ r \in InHand
  /\ Carries(r)
  /\ r.at # "received" => r.source \notin DeniedClients

Kissing(r) ==
  /\ r.at = "kiss"
  /\ Carries(r)
  /\ r.data \in Arrived
  /\ r.code = KissCode(r.source)

\* The status read lies between the alarm noted before and the one there is now.
Knows(r, trusted) ==
  /\ trusted \in BOOLEAN
  /\ trusted => ~r.alarm
  /\ ~trusted => ~synchronised

Informed(r) ==
  /\ r.at = "status"
  /\ Carries(r)
  /\ r.data \in Arrived /\ IsRequest(r.data)
  /\ r.source \notin DeniedClients
  /\ Knows(r, r.synchronised)

\* The answer is built from that status; with an alarm, from the reference that stays.
Built(r) ==
  /\ r.at = "stamp"
  /\ Carries(r)
  /\ r.data \in Arrived /\ IsRequest(r.data)
  /\ r.source \notin DeniedClients
  /\ \E trusted \in BOOLEAN, ref \in NtpTimestamp :
       /\ Knows(r, trusted)
       /\ r.alarm => ref = reference
       /\ r.reply = BuildResponse(Parsed(r.data), trusted, ref, r.receive)

\* The answer is a kiss with the code for its source, or the time.
Ready(r) ==
  /\ r.at = "send"
  /\ Carries(r)
  /\ r.reply.stratum = KISS_OF_DEATH => r.reply.reference_id = KissCode(r.source)
  /\ r.reply.stratum # KISS_OF_DEATH =>
       /\ r.source \notin DeniedClients
       /\ r.alarm => /\ r.reply.leap = LeapUnsynchronised
                     /\ r.reply.stratum = UNSYNCHRONISED
                     /\ r.reply.reference_timestamp = reference

Holds(r) ==
  \/ r = Waiting
  \/ r = Stopped
  \/ Asked(r)
  \/ Kissing(r)
  \/ Informed(r)
  \/ Built(r)
  \/ Ready(r)

LoopsHold == DOMAIN loop = Loops /\ \A l \in Loops : Holds(loop[l])

-----------------------------------------------------------------------------
(* Where the loops and housekeeping are, and what the limiter knows of them *)

\* A loop waits for the limiter exactly while it is there, with its datagram's source;
\* so denied sources, which never get there, have no entry.
InLimiter(l) ==
  /\ loop[l].at = "limiter" <=> pending[l] # NoRequest
  /\ pending[l] # NoRequest => pending[l].source = loop[l].source
LimiterKnows ==
  /\ DOMAIN pending = Loops
  /\ \A l \in Loops : InLimiter(l)
  /\ DOMAIN clients \cap DeniedClients = {}

HousekeepingHolds ==
  /\ hk \in {"select", "jump", "gauges", "sweep", "mutex", "stopped"}
  /\ hk = "jump" <=> now_wall # NoReading
  /\ hk = "mutex" <=> sweep_now # NoRequest
  /\ shutdown \in BOOLEAN

-----------------------------------------------------------------------------
(* The counters *)

CountersHold ==
  /\ DOMAIN metrics = Counters \cup Gauges
  /\ \A n \in Counters : metrics[n] \in 0 .. CounterModulus - 1
  /\ recv_failed \in 0 .. CounterModulus - 1
  /\ kod_failed \in 0 .. CounterModulus - 1

Multiple(x) == \E k \in Int : x = k * CounterModulus

\* The books: what came in against what became of it, and every refusal with its cause.
AnswersBook ==
  Multiple((metrics.requests_total + recv_failed)
           - (((metrics.responses_total + metrics.packets_dropped_total)
               + metrics.socket_errors_total) + Cardinality(InFlight)))
CausesBook ==
  Multiple(((metrics.requests_total + recv_failed) + (kod_failed + metrics.kod_sent_total))
           - ((((((((metrics.responses_total + metrics.socket_errors_total)
                    + metrics.malformed_packets_total) + metrics.access_denied_total)
                  + metrics.rate_limited_total) + metrics.unsupported_version_total)
                + metrics.unsupported_mode_total) + metrics.clock_errors_total)
              + Cardinality(Undecided)))

-----------------------------------------------------------------------------

LoopInv == LoopsHold /\ LimiterKnows /\ HousekeepingHolds
BookInv == CountersHold /\ AnswersBook /\ CausesBook
ServerInv == LoopInv /\ BookInv
=============================================================================
