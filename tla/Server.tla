------------------------------- MODULE Server -------------------------------
(***************************************************************************)
(* crates/heeler-server/src/server.rs: the receive loops, one per bound    *)
(* socket, the housekeeping task and the shutdown flag, around the shared  *)
(* state: the system clock, the rate limiter and the counters.             *)
(*                                                                         *)
(* A loop handles one datagram at a time.  A step of it ends where the     *)
(* code reads or writes what another task changes: the clock, the          *)
(* limiter's mutex, the status, the reference, the socket.  The counters   *)
(* only grow and are never read by the server, so the increments between   *)
(* two such points are one step (Metrics has them one by one).             *)
(***************************************************************************)
EXTENDS SystemClock, Packet, FiniteSets

CONSTANTS
  Clients, Loops, Datagrams,   \* sources, sockets, and what arrives
  \* ServerState
  max_packet_size,
  DeniedClients,               \* the sources AccessControl::evaluate denies
  send_kod_on_rate_limit,
  send_kod_on_policy_deny,
  SweepTicks,                  \* housekeeping sweeps every that many ticks (30)
  CounterModulus,              \* AtomicU64 counters wrap at 2^64
  MaxRequests,                 \* bound of the model: how often recv_from returns
  \* RateLimiter
  enabled, requests_per_second, burst, global_requests_per_second, global_burst,
  client_entry_ttl, max_client_entries, KOD_INTERVAL, U32, MICRO, NanosPerMicro, U64,
  MaxDelay, NoRequest

ASSUME ServerAssumption ==
  /\ IsFiniteSet(Loops)
  /\ max_packet_size \in Nat /\ max_packet_size >= PACKET_SIZE
  /\ DeniedClients \subseteq Clients
  /\ send_kod_on_rate_limit \in BOOLEAN
  /\ send_kod_on_policy_deny \in BOOLEAN
  /\ SweepTicks \in Nat \ {0}
  /\ CounterModulus \in Nat \ {0}
  /\ MaxRequests \in Nat

VARIABLES
  clients, global, last_forced_sweep, pending, sweep_now,  \* of RateLimiter
  loop,            \* per receive loop: where it is, and the datagram it handles
  hk, ticks,       \* housekeeping: where it is, and its count of ticks
  shutdown,        \* the watch channel's flag
  metrics,         \* the counters and gauges
  recv_failed, kod_failed  \* history: errors of recv_from, and of sending a kiss

Limiter == INSTANCE RateLimiter WITH MaxTime <- MaxMono

ASSUME LimiterAssumption == Limiter!TokenBucketAssumption /\ Limiter!RateLimiterAssumption

limiter == <<clients, global, last_forced_sweep, pending, sweep_now>>
server == <<loop, hk, ticks, shutdown, metrics, recv_failed, kod_failed>>
svars == <<mono, offset, clock, limiter, server>>

Counters ==
  {"requests_total", "responses_total", "packets_dropped_total", "malformed_packets_total",
   "unsupported_version_total", "unsupported_mode_total", "rate_limited_total",
   "access_denied_total", "kod_sent_total", "clock_errors_total", "socket_errors_total",
   "clock_jumps_total"}
Gauges == {"clock_synchronised", "active_rate_limit_entries"}

Counted(names) ==
  metrics' = [n \in DOMAIN metrics |->
                IF n \in names THEN (metrics[n] + 1) % CounterModulus ELSE metrics[n]]

Waiting == [at |-> "select"]
Stopped == [at |-> "stopped"]
InFlight == {l \in Loops : loop[l].at \notin {"select", "stopped"}}

STypeOK ==
  /\ ClockTypeOK
  /\ Limiter!TypeOK
  /\ \A l \in Loops :
       /\ loop[l].at \in {"select", "stopped", "received", "limiter", "kiss", "parse",
                          "status", "stamp", "send"}
       /\ l \in InFlight => /\ loop[l].source \in Clients
                            /\ loop[l].receive \in NtpTimestamp
       /\ (loop[l].at = "limiter") <=> (pending[l] # NoRequest)
  /\ hk \in {"select", "jump", "gauges", "sweep", "mutex", "stopped"}
  /\ (hk = "jump") <=> (now_wall # NoReading)
  /\ (hk = "mutex") <=> (sweep_now # NoRequest)
  /\ shutdown \in BOOLEAN
  /\ \A n \in Counters : metrics[n] \in 0 .. CounterModulus - 1

-----------------------------------------------------------------------------
SInit ==
  /\ ClockInit
  /\ Limiter!Init
  /\ loop = [l \in Loops |-> Waiting]
  /\ hk = "select"
  /\ ticks = 0
  /\ shutdown = FALSE
  /\ metrics = [n \in Counters \cup Gauges |-> IF n = "clock_synchronised" THEN 1 ELSE 0]
  /\ recv_failed = 0
  /\ kod_failed = 0

\* Loop l goes from one place of its code to another, keeping the datagram.
Goes(l, from, to) ==
  /\ loop[l].at = from
  /\ loop' = [loop EXCEPT ![l].at = to]
\* Loop l is done with its datagram.
Finishes(l, from) ==
  /\ loop[l].at = from
  /\ loop' = [loop EXCEPT ![l] = Waiting]

OnlyServes == UNCHANGED <<mono, offset, clock, limiter, hk, ticks, shutdown, recv_failed, kod_failed>>

(* recv_loop.  The select is biased: a loop that sees the flag receives no more. *)

\* recv_from truncates to a buffer one byte larger than max_packet_size.
Truncated(d) ==
  IF d.len > max_packet_size THEN [d EXCEPT !.len = max_packet_size + 1] ELSE d

\* Mutated form: the select is not biased.
SelectsUnbiased(l) ==
  loop[l].at = "select" /\ metrics.requests_total + recv_failed < MaxRequests

Selects(l) ==
  loop[l].at = "select" /\ ~shutdown /\ metrics.requests_total + recv_failed < MaxRequests

\* Mutated form: an unreadable clock goes unnoticed.
ReceiveUnchecked(l, d, c) ==
  /\ Selects(l)
  /\ loop' = [loop EXCEPT ![l] = [at |-> "received", source |-> c, data |-> Truncated(d),
                                  receive |-> ReadClock, alarm |-> ~synchronised]]
  /\ Counted({"requests_total"})
  /\ OnlyServes

Receive(l, d, c) ==
  /\ Selects(l)
  /\ ReadClock # BeforeNtpEpoch
  /\ loop' = [loop EXCEPT ![l] = [at |-> "received", source |-> c, data |-> Truncated(d),
                                  receive |-> ReadClock, alarm |-> ~synchronised]]
  /\ Counted({"requests_total"})
  /\ OnlyServes

ReceiveWithoutClock(l) ==
  /\ Selects(l)
  /\ ReadClock = BeforeNtpEpoch
  /\ Counted({"clock_errors_total", "requests_total", "packets_dropped_total"})
  /\ UNCHANGED loop
  /\ OnlyServes

ReceiveFails(l) ==
  /\ Selects(l)
  /\ recv_failed' = (recv_failed + 1) % CounterModulus
  /\ Counted({"socket_errors_total"})
  /\ UNCHANGED <<mono, offset, clock, limiter, loop, hk, ticks, shutdown, kod_failed>>

(* handle_datagram *)

TooLong(l) == loop[l].data.len > max_packet_size
Denied(l) == loop[l].source \in DeniedClients

DropOversized(l) ==
  /\ Finishes(l, "received")
  /\ TooLong(l)
  /\ Counted({"malformed_packets_total", "packets_dropped_total"})
  /\ OnlyServes

Kisses(l, from, code) ==
  /\ loop[l].at = from
  /\ loop' = [loop EXCEPT ![l] = [at |-> "kiss", source |-> @.source, data |-> @.data,
                                  receive |-> @.receive, alarm |-> @.alarm, code |-> code]]

Deny(l) ==
  /\ loop[l].at = "received" /\ ~TooLong(l)
  /\ Denied(l)
  /\ IF send_kod_on_policy_deny
     THEN Kisses(l, "received", "DENY") /\ Counted({"access_denied_total"})
     ELSE Finishes(l, "received") /\ Counted({"access_denied_total", "packets_dropped_total"})
  /\ OnlyServes

\* Mutated form: the access rules are not consulted first.
AskLimiterFirst(l) ==
  /\ loop[l].at = "received" /\ ~TooLong(l)
  /\ Goes(l, "received", "limiter")
  /\ Limiter!StartCheck(l, loop[l].source)
  /\ UNCHANGED <<offset, clock, hk, ticks, shutdown, metrics, recv_failed, kod_failed>>

\* Instant::now(), then the wait for the limiter's mutex.
AskLimiter(l) ==
  /\ loop[l].at = "received" /\ ~TooLong(l)
  /\ ~Denied(l)
  /\ Goes(l, "received", "limiter")
  /\ Limiter!StartCheck(l, loop[l].source)
  /\ UNCHANGED <<offset, clock, hk, ticks, shutdown, metrics, recv_failed, kod_failed>>

LimiterLeft == UNCHANGED <<offset, clock, hk, ticks, shutdown, recv_failed, kod_failed>>

LimiterAllows(l) ==
  /\ Limiter!CheckDisabled(l) \/ Limiter!CheckKnownAllowed(l) \/ Limiter!CheckNewAllowed(l)
  /\ Goes(l, "limiter", "parse")
  /\ UNCHANGED metrics
  /\ LimiterLeft

LimiterLimits(l) ==
  /\ Limiter!CheckLimitedPerClient(l)
  /\ IF Limiter!SendKod(l) /\ send_kod_on_rate_limit
     THEN Kisses(l, "limiter", "RATE") /\ Counted({"rate_limited_total"})
     ELSE Finishes(l, "limiter") /\ Counted({"rate_limited_total", "packets_dropped_total"})
  /\ LimiterLeft

LimiterOverloaded(l) ==
  /\ Limiter!CheckLimitedGlobal(l) \/ Limiter!CheckTableFull(l)
  /\ Finishes(l, "limiter")
  /\ Counted({"rate_limited_total", "packets_dropped_total"})
  /\ LimiterLeft

\* The counter of a datagram that does not parse or validate.
RejectionCounter(data) ==
  IF ~Parses(data) THEN "malformed_packets_total"
  ELSE CASE Rejection(data) = "UnsupportedVersion" -> "unsupported_version_total"
         [] Rejection(data) = "UnsupportedMode" -> "unsupported_mode_total"
         [] Rejection(data) \in {"TrailingData", "ZeroTransmitTimestamp"} ->
              "malformed_packets_total"

Reject(l) ==
  /\ Finishes(l, "parse")
  /\ ~IsRequest(loop[l].data)
  /\ Counted({RejectionCounter(loop[l].data), "packets_dropped_total"})
  /\ OnlyServes

ReadStatus(l) ==
  /\ loop[l].at = "parse"
  /\ IsRequest(loop[l].data)
  /\ loop' = [loop EXCEPT ![l] = [at |-> "status", source |-> @.source, data |-> @.data,
                                  receive |-> @.receive, alarm |-> @.alarm,
                                  synchronised |-> synchronised]]
  /\ UNCHANGED metrics
  /\ OnlyServes

\* SystemClockSource always has a reference timestamp.
Build(l) ==
  /\ loop[l].at = "status"
  /\ loop' = [loop EXCEPT ![l] =
                [at |-> "stamp", source |-> @.source, data |-> @.data,
                 receive |-> @.receive, alarm |-> @.alarm,
                 reply |-> BuildResponse(Parsed(@.data), @.synchronised, reference, @.receive)]]
  /\ UNCHANGED metrics
  /\ OnlyServes

Stamped(l, reply, transmit) ==
  loop' = [loop EXCEPT ![l] = [at |-> "send", source |-> @.source, receive |-> @.receive,
                               alarm |-> @.alarm, reply |-> Finalize(reply, transmit)]]

\* Mutated form: T2 is used again.
StampReused(l) ==
  /\ loop[l].at = "stamp"
  /\ ReadClock # BeforeNtpEpoch
  /\ Stamped(l, loop[l].reply, loop[l].receive)
  /\ UNCHANGED metrics
  /\ OnlyServes

Stamp(l) ==
  /\ loop[l].at = "stamp"
  /\ ReadClock # BeforeNtpEpoch
  /\ Stamped(l, loop[l].reply, ReadClock)
  /\ UNCHANGED metrics
  /\ OnlyServes

\* Mutated form: the failure of the clock is not counted.
StampWithoutClockUncounted(l) ==
  /\ Finishes(l, "stamp")
  /\ ReadClock = BeforeNtpEpoch
  /\ Counted({"packets_dropped_total"})
  /\ OnlyServes

StampWithoutClock(l) ==
  /\ Finishes(l, "stamp")
  /\ ReadClock = BeforeNtpEpoch
  /\ Counted({"clock_errors_total", "packets_dropped_total"})
  /\ OnlyServes

(* send_kod *)

\* Mutated form: the datagram is forgotten.
DropUnkissedUncounted(l) ==
  /\ Finishes(l, "kiss")
  /\ ~IsRequest(loop[l].data)
  /\ UNCHANGED metrics
  /\ OnlyServes

DropUnkissed(l) ==
  /\ Finishes(l, "kiss")
  /\ ~IsRequest(loop[l].data)
  /\ Counted({"packets_dropped_total"})
  /\ OnlyServes

\* A clock that cannot be read leaves the transmit timestamp zero.
StampKiss(l) ==
  /\ loop[l].at = "kiss"
  /\ IsRequest(loop[l].data)
  /\ Stamped(l, BuildKissOfDeath(Parsed(loop[l].data), loop[l].code, loop[l].receive),
             IF ReadClock = BeforeNtpEpoch THEN ZERO ELSE ReadClock)
  /\ UNCHANGED metrics
  /\ OnlyServes

\* send_to, of either kind of answer.
IsKiss(l) == loop[l].reply.stratum = KISS_OF_DEATH

Send(l) ==
  /\ Finishes(l, "send")
  /\ Counted({"responses_total"} \cup (IF IsKiss(l) THEN {"kod_sent_total"} ELSE {}))
  /\ OnlyServes

SendFails(l) ==
  /\ Finishes(l, "send")
  /\ Counted({"socket_errors_total"})
  /\ kod_failed' = IF IsKiss(l) THEN (kod_failed + 1) % CounterModulus ELSE kod_failed
  /\ UNCHANGED <<mono, offset, clock, limiter, hk, ticks, shutdown, recv_failed>>

StopLoop(l) ==
  /\ shutdown
  /\ Goes(l, "select", "stopped")
  /\ UNCHANGED metrics
  /\ OnlyServes

(* housekeeping_loop *)

OnlyKeepsHouse == UNCHANGED <<loop, shutdown, recv_failed, kod_failed>>

\* A tick: check_jump reads the wall clock.
HkTick ==
  /\ hk = "select" /\ ~shutdown
  /\ CheckReadsWall
  /\ hk' = "jump"
  /\ ticks' = (ticks + 1) % SweepTicks
  /\ UNCHANGED <<limiter, metrics>>
  /\ OnlyKeepsHouse

\* The rest of check_jump, and the status it leaves.
HkJump ==
  /\ hk = "jump"
  /\ CheckCompares
  /\ hk' = "gauges"
  /\ metrics' = [metrics EXCEPT
       !["clock_jumps_total"] = IF Jumped THEN (@ + 1) % CounterModulus ELSE @,
       !["clock_synchronised"] = IF synchronised' THEN 1 ELSE 0]
  /\ UNCHANGED <<limiter, ticks>>
  /\ OnlyKeepsHouse

HkGauges ==
  /\ hk = "gauges"
  /\ metrics' = [metrics EXCEPT !["active_rate_limit_entries"] = Cardinality(DOMAIN clients)]
  /\ hk' = IF ticks = 0 THEN "sweep" ELSE "select"
  /\ UNCHANGED <<mono, offset, clock, limiter, ticks>>
  /\ OnlyKeepsHouse

HkStartSweep ==
  /\ hk = "sweep"
  /\ Limiter!StartSweep
  /\ hk' = "mutex"
  /\ UNCHANGED <<offset, clock, ticks, metrics>>
  /\ OnlyKeepsHouse

HkSweep ==
  /\ hk = "mutex"
  /\ Limiter!Sweep
  /\ hk' = "select"
  /\ UNCHANGED <<offset, clock, ticks, metrics>>
  /\ OnlyKeepsHouse

StopHousekeeping ==
  /\ hk = "select" /\ shutdown
  /\ hk' = "stopped"
  /\ UNCHANGED <<mono, offset, clock, limiter, ticks, metrics>>
  /\ OnlyKeepsHouse

(* The environment *)

Signal ==
  /\ ~shutdown
  /\ shutdown' = TRUE
  /\ UNCHANGED <<mono, offset, clock, limiter, loop, hk, ticks, metrics, recv_failed, kod_failed>>

STick == Limiter!Tick /\ ClockTick /\ UNCHANGED server

SSetWallClock == SetWallClock /\ UNCHANGED <<limiter, server>>

-----------------------------------------------------------------------------
ReceiveSomething(l) ==
  \/ \E d \in Datagrams, c \in Clients : Receive(l, d, c)
  \/ ReceiveWithoutClock(l)
  \/ ReceiveFails(l)

\* What a loop does by itself, once it has received.
LoopStep(l) ==
  \/ DropOversized(l) \/ Deny(l) \/ AskLimiter(l)
  \/ LimiterAllows(l) \/ LimiterLimits(l) \/ LimiterOverloaded(l)
  \/ Reject(l) \/ ReadStatus(l) \/ Build(l) \/ Stamp(l) \/ StampWithoutClock(l)
  \/ DropUnkissed(l) \/ StampKiss(l)
  \/ Send(l) \/ SendFails(l)
  \/ StopLoop(l)

HousekeepingStep ==
  HkTick \/ HkJump \/ HkGauges \/ HkStartSweep \/ HkSweep \/ StopHousekeeping

SNext ==
  \/ \E l \in Loops : ReceiveSomething(l) \/ LoopStep(l)
  \/ HousekeepingStep
  \/ Signal
  \/ STick
  \/ SSetWallClock

SSpec == SInit /\ [][SNext]_svars

\* The runtime schedules every task again and again, and send_to of a UDP socket
\* returns; nothing is assumed of what arrives, of time or of who sets the clock.
SFairSpec ==
  /\ SSpec
  /\ \A l \in Loops : WF_svars(LoopStep(l))
  /\ WF_svars(HousekeepingStep)

-----------------------------------------------------------------------------
\* No datagram is lost or accounted for twice: each one received was answered, dropped,
\* lost by a failing send, or is in the hands of a loop.  (In particular no datagram is
\* answered twice; handle_datagram and send_kod return on some twelve different paths.)
EveryRequestAccounted ==
  (metrics.requests_total + recv_failed) % CounterModulus =
    (((metrics.responses_total + metrics.packets_dropped_total)
      + metrics.socket_errors_total) + Cardinality(InFlight)) % CounterModulus

\* Each datagram that got no time was counted under exactly one cause, whether a
\* Kiss-o'-Death was sent for it, refused to it, or lost.
Undecided ==
  {l \in InFlight : ~(loop[l].at = "kiss" \/ (loop[l].at = "send" /\ IsKiss(l)))}
EveryRefusalHasOneCause ==
  ((metrics.requests_total + recv_failed) + (kod_failed + metrics.kod_sent_total)) % CounterModulus =
    (((((((((metrics.responses_total + metrics.socket_errors_total)
            + metrics.malformed_packets_total) + metrics.access_denied_total)
          + metrics.rate_limited_total) + metrics.unsupported_version_total)
        + metrics.unsupported_mode_total) + metrics.clock_errors_total)
      + Cardinality(Undecided))) % CounterModulus

\* A client whose datagram arrived after the source was given up is never told a
\* stratum of a good server, whatever housekeeping did since; and the reference
\* timestamp it gets is the last good one, which no later check moves.
AlarmIsTold ==
  \A l \in Loops :
    loop[l].at = "send" /\ loop[l].alarm /\ ~IsKiss(l) =>
      /\ loop[l].reply.leap = LeapUnsynchronised
      /\ loop[l].reply.stratum = UNSYNCHRONISED
      /\ loop[l].reply.reference_timestamp = reference

\* A source the access rules deny gets a DENY kiss, if anything, and leaves no trace in
\* the limiter: it cannot fill the table, and its datagrams cost others no tokens.
DeniedGetNothing ==
  /\ DOMAIN clients \cap DeniedClients = {}
  /\ \A l \in Loops :
       /\ pending[l] # NoRequest => pending[l].source \notin DeniedClients
       /\ loop[l].at = "send" /\ loop[l].source \in DeniedClients =>
            IsKiss(l) /\ loop[l].reply.reference_id = "DENY"

\* run_server returns: after the signal every loop and housekeeping stop, although
\* datagrams may keep arriving on every socket.
AllStopped == hk = "stopped" /\ \A l \in Loops : loop[l] = Stopped
ShutdownCompletes == shutdown ~> AllStopped

\* What tests/protocol.rs says of a clock that cannot be read: there is no response.
NoAnswerWithoutClock ==
  \A l \in Loops : loop[l].at = "send" => loop[l].reply.transmit_timestamp # ZERO
=============================================================================
