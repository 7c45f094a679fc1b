-------------------------- MODULE ServerLoopProofs --------------------------
(***************************************************************************)
(* What the receive loops and housekeeping of the server keep to, with any *)
(* number of sockets and clients, any settings that validate accepts and   *)
(* any datagrams: that the server runs its clock and its limiter as their  *)
(* own modules describe them, and that it tells no client more than it     *)
(* knows.                                                                  *)
(***************************************************************************)
EXTENDS ServerInvariant, TLAPS

-----------------------------------------------------------------------------
(* The timestamps of the server *)

\* The fraction of a second never reaches a whole second.
LEMMA FractionType ==
  ASSUME NEW nanos \in Nat
  PROVE  FractionFromNanos(nanos) \in 0 .. TWO_POW_32 - 1
<1> DEFINE n == nanos % NANOS_PER_SECOND
           x == n * TWO_POW_32
           q == x \div NANOS_PER_SECOND
<1>1. NANOS_PER_SECOND \in Nat \ {0} /\ TWO_POW_32 \in Nat \ {0}
  BY TimestampAssumption, Zenon
<1>2. n \in Nat /\ n < NANOS_PER_SECOND
  BY <1>1
<1> HIDE DEF n
<1>3. x \in Nat /\ x < NANOS_PER_SECOND * TWO_POW_32
  BY <1>1, <1>2
<1> HIDE DEF x
<1>4. q \in Nat /\ NANOS_PER_SECOND * q <= x
  BY <1>1, <1>3
<1> HIDE DEF q
<1>5. q < TWO_POW_32
  <2> SUFFICES ASSUME q >= TWO_POW_32
               PROVE  FALSE
    BY <1>1, <1>4
  <2>1. NANOS_PER_SECOND * q >= NANOS_PER_SECOND * TWO_POW_32
    BY <1>1, <1>4
  <2>2. NANOS_PER_SECOND * q \in Nat /\ NANOS_PER_SECOND * TWO_POW_32 \in Nat
    BY <1>1, <1>4
  <2> QED
    BY <1>3, <1>4, <2>1, <2>2
<1> QED
  BY <1>1, <1>4, <1>5 DEF FractionFromNanos, q, x, n

\* An instant since 1900 has a timestamp, which is not the error.
LEMMA ToTimestampType ==
  ASSUME NEW moment \in Int
  PROVE  /\ moment >= 0 => /\ ToTimestamp(moment) \in NtpTimestamp
                            /\ ToTimestamp(moment) # BeforeNtpEpoch
         /\ moment < 0 => ToTimestamp(moment) = BeforeNtpEpoch
<1>1. CASE moment >= 0
  <2> DEFINE s == (moment \div NANOS_PER_SECOND) % TWO_POW_32
             f == FractionFromNanos(moment % NANOS_PER_SECOND)
  <2>1. NANOS_PER_SECOND \in Nat \ {0} /\ TWO_POW_32 \in Nat \ {0} /\ moment \in Nat
    BY <1>1, TimestampAssumption
  <2>2. moment \div NANOS_PER_SECOND \in Nat /\ moment % NANOS_PER_SECOND \in Nat
    BY <2>1
  <2>3. s \in 0 .. TWO_POW_32 - 1
    BY <2>1, <2>2
  <2>4. f \in 0 .. TWO_POW_32 - 1
    BY <2>2, FractionType, Zenon
  <2> HIDE DEF s, f
  <2>5. [seconds |-> s, fraction |-> f] \in NtpTimestamp
    BY <2>3, <2>4, Zenon DEF NtpTimestamp
  <2>6. [seconds |-> s, fraction |-> f] \in [seconds : Nat, fraction : Nat]
    BY <2>1, <2>3, <2>4
  <2>7. ToTimestamp(moment) = [seconds |-> s, fraction |-> f]
    BY <1>1 DEF ToTimestamp, s, f
  <2> QED
    BY <1>1, <2>5, <2>6, <2>7, TimestampAssumption
<1>2. CASE moment < 0
  BY <1>2 DEF ToTimestamp
<1> QED
  BY <1>1, <1>2, Zenon

-----------------------------------------------------------------------------
(* The clock inside the server *)

\* A receive loop reads the clock and never writes it.
LEMMA ClockOfALoop ==
  ASSUME NEW l \in Loops, ReceiveSomething(l) \/ LoopStep(l)
  PROVE  UNCHANGED <<mono, offset, clock>>
<1>1. CASE ReceiveSomething(l)
  BY <1>1, Zenon DEF ReceiveSomething, Receive, ReceiveWithoutClock, ReceiveFails, OnlyServes
<1>2. CASE AskLimiter(l)
  BY <1>2, Zenon DEF AskLimiter, Limiter!StartCheck
<1>3. CASE LimiterAllows(l) \/ LimiterLimits(l) \/ LimiterOverloaded(l)
  BY <1>3, Zenon
  DEF LimiterAllows, LimiterLimits, LimiterOverloaded, LimiterLeft, Limiter!CheckDisabled,
      Limiter!CheckLimitedGlobal, Limiter!CheckKnownAllowed, Limiter!CheckNewAllowed,
      Limiter!CheckLimitedPerClient, Limiter!CheckTableFull, Limiter!PassesGlobal
<1>4. CASE SendFails(l)
  BY <1>4, Zenon DEF SendFails
<1>5. CASE OnlyServes
  BY <1>5, Zenon DEF OnlyServes
<1> QED
  BY <1>1, <1>2, <1>3, <1>4, <1>5, Zenon
  DEF LoopStep, DropOversized, Deny, Reject, ReadStatus, Build, Stamp, StampWithoutClock,
      DropUnkissed, StampKiss, Send, StopLoop

\* Every step of the server is a step of the clock, or leaves it alone.
LEMMA ClockStep ==
  ASSUME [SNext]_svars
  PROVE  [ClockNext]_<<mono, offset, clock>>
<1>1. CASE HousekeepingStep
  BY <1>1, Zenon DEF HousekeepingStep, HkTick, HkJump, HkGauges, HkStartSweep, HkSweep,
     StopHousekeeping, ClockNext, Limiter!StartSweep, Limiter!Sweep
<1>2. CASE Signal \/ STick \/ SSetWallClock
  BY <1>2, Zenon DEF Signal, STick, SSetWallClock, ClockNext
<1>3. CASE UNCHANGED svars
  BY <1>3, Zenon DEF svars
<1> QED
  BY <1>1, <1>2, <1>3, ClockOfALoop, Zenon DEF SNext

\* A step of the clock keeps its types.
LEMMA ClockTypeStep ==
  ASSUME ClockTypeOK, [ClockNext]_<<mono, offset, clock>>
  PROVE  ClockTypeOK'
<1> USE SystemClockAssumption DEF ClockTypeOK, clock
<1>1. CASE ClockTick
  BY <1>1 DEF ClockTick
<1>2. CASE SetWallClock
  BY <1>2, Zenon DEF SetWallClock
<1>3. CASE CheckReadsWall
  <2>1. wall \in Int
    BY DEF wall
  <2>2. ((mono \div CheckPeriod) + 1) * CheckPeriod \in Nat
    OBVIOUS
  <2> QED
    BY <1>3, <2>1, <2>2 DEF CheckReadsWall
<1>4. CASE CheckCompares
  <2>1. now_wall \in Int
    BY <1>4, Zenon DEF CheckCompares
  <2>2. reference' \in NtpTimestamp
    BY <1>4, <2>1, ToTimestampType DEF CheckCompares
  <2>3. synchronised' \in BOOLEAN
    BY <1>4, Zenon DEF CheckCompares
  <2> QED
    BY <1>4, <2>1, <2>2, <2>3 DEF CheckCompares
<1>5. CASE UNCHANGED <<mono, offset, clock>>
  BY <1>5, Zenon
<1> QED
  BY <1>1, <1>2, <1>3, <1>4, <1>5, Zenon DEF ClockNext

\* The clock starts within its types.
LEMMA ClockTypeInit ==
  ASSUME ClockInit
  PROVE  ClockTypeOK
<1>1. PICK first \in Offsets, gap \in 0 .. MaxReadGap :
        /\ ToTimestamp(first - gap) # BeforeNtpEpoch
        /\ reference = ToTimestamp(first - gap)
        /\ jump_state = [last_wall |-> first - gap, last_mono |-> 0]
  BY Zenon DEF ClockInit
<1>2. first - gap \in Int
  BY SystemClockAssumption
<1>3. reference \in NtpTimestamp
  BY <1>1, <1>2, ToTimestampType
<1> QED
  BY <1>1, <1>2, <1>3, SystemClockAssumption DEF ClockInit, ClockTypeOK

\* The clock inside the server, which housekeeping checks between its other work and the
\* loops read at any moment, runs as SystemClock describes it on its own.
THEOREM ServerRunsTheClock == SSpec => ClockSpec
<1>1. SInit => ClockInit
  BY Zenon DEF SInit
<1>2. [SNext]_svars => [ClockNext]_<<mono, offset, clock>>
  BY ClockStep, Zenon
<1> QED
  BY <1>1, <1>2, PTL DEF SSpec, ClockSpec

\* Its variables keep their types throughout.
LEMMA ClockIsTyped == SSpec => []ClockTypeOK
<1>1. SInit => ClockTypeOK
  BY ClockTypeInit, Zenon DEF SInit
<1>2. ClockTypeOK /\ [SNext]_svars => ClockTypeOK'
  BY ClockStep, ClockTypeStep, Zenon
<1> QED
  BY <1>1, <1>2, PTL DEF SSpec

\* Trust is never regained, and without it the reference stays where it is (check_jump).
LEMMA TrustStep ==
  ASSUME ClockTypeOK, [SNext]_svars
  PROVE  /\ synchronised' => synchronised
         /\ ~synchronised => reference' = reference
<1>1. [ClockNext]_<<mono, offset, clock>>
  BY ClockStep, Zenon
<1> QED
  BY <1>1 DEF ClockNext, ClockTick, SetWallClock, CheckReadsWall, CheckCompares, clock, ClockTypeOK

-----------------------------------------------------------------------------
(* What a loop holds, place by place *)

\* Every state of a loop has its place.
LEMMA PlacesOfLoops ==
  ASSUME NEW r, Holds(r)
  PROVE  /\ r.at = "select" => r = Waiting
         /\ r.at = "stopped" => r = Stopped
         /\ r.at \in {"received", "limiter", "parse"} => Asked(r)
         /\ r.at = "kiss" => Kissing(r)
         /\ r.at = "status" => Informed(r)
         /\ r.at = "stamp" => Built(r)
         /\ r.at = "send" => Ready(r)
         /\ r.at \in {"select", "stopped", "received", "limiter", "kiss", "parse", "status",
                      "stamp", "send"}
         /\ r.at \notin {"select", "stopped"} => Carries(r)
         /\ r.at \notin {"select", "stopped", "send"} => r.data \in Arrived
BY DEF Holds, Waiting, Stopped, Asked, InHand, Kissing, Informed, Built, Ready

\* A clock that can be read gives a timestamp.
LEMMA ReadClockType ==
  ASSUME ClockTypeOK, ReadClock # BeforeNtpEpoch
  PROVE  ReadClock \in NtpTimestamp
<1>1. wall \in Int
  BY SystemClockAssumption DEF wall, ClockTypeOK
<1> QED
  BY <1>1, ToTimestampType DEF ReadClock

\* What a loop may hold depends on nothing else that changes but status and reference.
LEMMA HoldsStays ==
  ASSUME UNCHANGED <<synchronised, reference>>, NEW v, Holds(v)
  PROVE  Holds(v)'
BY Zenon DEF Holds, Waiting, Stopped, Asked, InHand, Kissing, Informed, Built, Ready, Carries, Knows

\* A step that changes one loop, and neither status nor reference, is judged by that loop.
LEMMA OneLoopChanges ==
  ASSUME LoopsHold, NEW l \in Loops, NEW r, Holds(r), loop' = [loop EXCEPT ![l] = r],
         UNCHANGED <<synchronised, reference>>
  PROVE  LoopsHold'
<1>1. DOMAIN loop' = Loops
  BY Zenon DEF LoopsHold
<1>2. ASSUME NEW m \in Loops
      PROVE  loop'[m] = IF m = l THEN r ELSE loop[m]
  BY Zenon DEF LoopsHold
<1>3. ASSUME NEW v, Holds(v)
      PROVE  Holds(v)'
  BY <1>3, HoldsStays, Zenon
<1> QED
  BY <1>1, <1>2, <1>3, Zenon DEF LoopsHold

\* The fields of an answer that is sent with the time (build_response).
LEMMA ResponseFields ==
  ASSUME NEW request, NEW trusted, NEW ref, NEW received, NEW transmit, NEW reply,
         reply = Finalize(BuildResponse(request, trusted, ref, received), transmit)
  PROVE  /\ reply.stratum # KISS_OF_DEATH
         /\ trusted => reply.leap = identity.leap /\ reply.stratum = identity.stratum
         /\ ~trusted => reply.leap = LeapUnsynchronised /\ reply.stratum = UNSYNCHRONISED
         /\ reply.mode = ServerMode
         /\ reply.version = request.version
         /\ reply.reference_timestamp = ref
         /\ reply.origin_timestamp = request.transmit_timestamp
         /\ reply.receive_timestamp = received
         /\ reply.transmit_timestamp = transmit
BY PacketAssumption DEF Finalize, BuildResponse, KISS_OF_DEATH, UNSYNCHRONISED

\* The fields of a Kiss-o'-Death (build_kiss_of_death).
LEMMA KissFields ==
  ASSUME NEW request, NEW code, NEW received, NEW transmit, NEW reply,
         reply = Finalize(BuildKissOfDeath(request, code, received), transmit)
  PROVE  /\ reply.stratum = KISS_OF_DEATH
         /\ reply.leap = LeapUnsynchronised
         /\ reply.reference_id = code
         /\ reply.mode = ServerMode
         /\ reply.version = request.version
         /\ reply.origin_timestamp = request.transmit_timestamp
         /\ reply.receive_timestamp = received
         /\ reply.transmit_timestamp = transmit
BY Zenon DEF Finalize, BuildKissOfDeath

\* A loop that serves keeps to what its place allows.
LEMMA LoopsServe ==
  ASSUME ClockTypeOK, LoopsHold, NEW l \in Loops, ReceiveSomething(l) \/ LoopStep(l)
  PROVE  LoopsHold'
<1> DEFINE r == loop[l]
<1>1. Holds(r) /\ DOMAIN loop = Loops
  BY Zenon DEF LoopsHold
<1>2. synchronised \in BOOLEAN /\ reference \in NtpTimestamp
  BY Zenon DEF ClockTypeOK
<1>3. UNCHANGED <<synchronised, reference>>
  BY ClockOfALoop, Zenon DEF clock
<1>4. ASSUME NEW v, Holds(v), loop' = [loop EXCEPT ![l] = v]
      PROVE  LoopsHold'
  BY <1>3, <1>4, OneLoopChanges, Zenon
<1> HIDE DEF r
<1>5. ASSUME NEW from, Finishes(l, from)
      PROVE  LoopsHold'
  BY <1>4, <1>5, Zenon DEF Finishes, Holds
<1>6. ASSUME UNCHANGED loop
      PROVE  LoopsHold'
  <2>1. ASSUME NEW v, Holds(v)
        PROVE  Holds(v)'
    BY <1>3, <2>1, HoldsStays, Zenon
  <2> QED
    BY <1>6, <2>1, Zenon DEF LoopsHold
<1>7. ASSUME NEW d \in Datagrams, NEW c \in Clients, Receive(l, d, c)
      PROVE  LoopsHold'
  <2> DEFINE v == [at |-> "received", source |-> c, data |-> Truncated(d),
                   receive |-> ReadClock, alarm |-> ~synchronised]
  <2>1. ReadClock \in NtpTimestamp
    BY <1>7, ReadClockType, Zenon DEF Receive
  <2>2. Truncated(d) \in Arrived
    BY Zenon DEF Arrived
  <2>3. v \in InHand
    BY <2>1, <2>2, Zenon DEF InHand
  <2>4. Asked(v)
    BY <1>2, <2>1, <2>3, Zenon DEF Asked, Carries
  <2> QED
    BY <1>4, <1>7, <2>4, Zenon DEF Receive, Holds
<1>8. ASSUME NEW from \in {"received", "limiter"}, NEW code, Kisses(l, from, code),
             code = KissCode(r.source)
      PROVE  LoopsHold'
  <2> DEFINE v == [at |-> "kiss", source |-> r.source, data |-> r.data,
                   receive |-> r.receive, alarm |-> r.alarm, code |-> code]
  <2>1. loop' = [loop EXCEPT ![l] = v]
    BY <1>8, Zenon DEF Kisses, r
  <2>2. Asked(r)
    BY <1>1, <1>8, PlacesOfLoops, Zenon DEF Kisses, r
  <2>3. Kissing(v)
    BY <1>8, <2>2, Zenon DEF Asked, InHand, Kissing, Carries
  <2> QED
    BY <1>4, <2>1, <2>3, Zenon DEF Holds
<1>9. CASE Deny(l)
  <2>1. KissCode(r.source) = "DENY"
    BY <1>9, Zenon DEF Deny, Denied, KissCode, r
  <2> QED
    BY <1>5, <1>8, <1>9, <2>1, Zenon DEF Deny
<1>10. ASSUME NEW from \in {"received", "limiter"}, NEW to \in {"limiter", "parse"},
              Goes(l, from, to), r.source \notin DeniedClients
       PROVE  LoopsHold'
  <2> DEFINE v == [r EXCEPT !.at = to]
  <2>1. Asked(r)
    BY <1>1, <1>10, PlacesOfLoops, Zenon DEF Goes, r
  <2>2. v = [at |-> to, source |-> r.source, data |-> r.data, receive |-> r.receive,
             alarm |-> r.alarm]
    BY <2>1 DEF Asked, InHand
  <2>3. v \in InHand
    BY <2>1, <2>2, Zenon DEF Asked, InHand
  <2>4. Asked(v)
    BY <1>10, <2>1, <2>2, <2>3, Zenon DEF Asked, Carries
  <2>5. loop' = [loop EXCEPT ![l] = v]
    BY <1>10, Zenon DEF Goes, r
  <2> QED
    BY <1>4, <2>4, <2>5, Zenon DEF Holds
<1>11. CASE AskLimiter(l)
  BY <1>10, <1>11, Zenon DEF AskLimiter, Denied, r
<1>12. CASE LimiterAllows(l)
  <2>1. r.source \notin DeniedClients
    BY <1>1, <1>12, PlacesOfLoops, Zenon DEF LimiterAllows, Goes, Asked, r
  <2> QED
    BY <1>10, <1>12, <2>1, Zenon DEF LimiterAllows
<1>13. CASE LimiterLimits(l)
  <2>1. r.at = "limiter"
    BY <1>13, Zenon DEF LimiterLimits, Kisses, Finishes, r
  <2>2. KissCode(r.source) = "RATE"
    BY <1>1, <2>1, PlacesOfLoops, Zenon DEF Asked, KissCode
  <2> QED
    BY <1>5, <1>8, <1>13, <2>2, Zenon DEF LimiterLimits
<1>14. CASE ReadStatus(l)
  <2> DEFINE v == [at |-> "status", source |-> r.source, data |-> r.data,
                   receive |-> r.receive, alarm |-> r.alarm, synchronised |-> synchronised]
  <2>1. Asked(r) /\ r.source \notin DeniedClients /\ IsRequest(r.data)
    BY <1>1, <1>14, PlacesOfLoops, Zenon DEF ReadStatus, Asked, r
  <2>2. Carries(v) /\ v.data \in Arrived
    BY <2>1, Zenon DEF Asked, Carries, InHand
  <2>3. Knows(v, synchronised)
    BY <1>2, <2>1, Zenon DEF Asked, Carries, Knows
  <2>4. Informed(v)
    BY <2>1, <2>2, <2>3, Zenon DEF Informed
  <2>5. loop' = [loop EXCEPT ![l] = v]
    BY <1>14, Zenon DEF ReadStatus, r
  <2> QED
    BY <1>4, <2>4, <2>5, Zenon DEF Holds
<1>15. CASE Build(l)
  <2> DEFINE v == [at |-> "stamp", source |-> r.source, data |-> r.data,
                   receive |-> r.receive, alarm |-> r.alarm,
                   reply |-> BuildResponse(Parsed(r.data), r.synchronised, reference, r.receive)]
  <2>1. Informed(r)
    BY <1>1, <1>15, PlacesOfLoops, Zenon DEF Build, r
  <2>2. Carries(v) /\ Knows(v, r.synchronised)
    BY <2>1, Zenon DEF Informed, Carries, Knows
  <2>3. r.synchronised \in BOOLEAN
    BY <2>1, Zenon DEF Informed, Knows
  <2>4. Built(v)
    BY <1>2, <2>1, <2>2, <2>3, Zenon DEF Informed, Built
  <2>5. loop' = [loop EXCEPT ![l] = v]
    BY <1>15, Zenon DEF Build, r
  <2> QED
    BY <1>4, <2>4, <2>5, Zenon DEF Holds
<1>16. ASSUME NEW reply, NEW transmit, Stamped(l, reply, transmit), Carries(r),
              Ready([at |-> "send", source |-> r.source, receive |-> r.receive,
                     alarm |-> r.alarm, reply |-> Finalize(reply, transmit)])
       PROVE  LoopsHold'
  BY <1>4, <1>16, Zenon DEF Stamped, Holds, r
<1>17. CASE Stamp(l)
  <2>1. Built(r)
    BY <1>1, <1>17, PlacesOfLoops, Zenon DEF Stamp, r
  <2>2. PICK trusted \in BOOLEAN, ref \in NtpTimestamp :
          /\ Knows(r, trusted)
          /\ r.alarm => ref = reference
          /\ r.reply = BuildResponse(Parsed(r.data), trusted, ref, r.receive)
    BY <2>1, Zenon DEF Built
  <2> DEFINE reply == Finalize(r.reply, ReadClock)
  <2>3. /\ reply.stratum # KISS_OF_DEATH
        /\ reply.reference_timestamp = ref
        /\ ~trusted => reply.leap = LeapUnsynchronised /\ reply.stratum = UNSYNCHRONISED
    <3>1. reply = Finalize(BuildResponse(Parsed(r.data), trusted, ref, r.receive), ReadClock)
      BY <2>2, Zenon
    <3> HIDE DEF reply
    <3> QED
      BY <3>1, ResponseFields
  <2> HIDE DEF reply
  <2>4. Ready([at |-> "send", source |-> r.source, receive |-> r.receive,
               alarm |-> r.alarm, reply |-> reply])
    BY <2>1, <2>2, <2>3, Zenon DEF Ready, Built, Carries, Knows
  <2> QED
    BY <1>16, <1>17, <2>1, <2>4, Zenon DEF Stamp, Built, reply, r
<1>18. CASE StampKiss(l)
  <2>1. Kissing(r)
    BY <1>1, <1>18, PlacesOfLoops, Zenon DEF StampKiss, r
  <2> DEFINE transmit == IF ReadClock = BeforeNtpEpoch THEN ZERO ELSE ReadClock
             built == BuildKissOfDeath(Parsed(r.data), r.code, r.receive)
             reply == Finalize(built, transmit)
  <2>2. Stamped(l, built, transmit)
    BY <1>18, Zenon DEF StampKiss, r
  <2> HIDE DEF transmit
  <2>3. reply = Finalize(BuildKissOfDeath(Parsed(r.data), r.code, r.receive), transmit)
    BY Zenon
  <2> HIDE DEF built, reply
  <2>4. reply.stratum = KISS_OF_DEATH /\ reply.reference_id = r.code
    BY <2>3, KissFields
  <2>5. Ready([at |-> "send", source |-> r.source, receive |-> r.receive,
               alarm |-> r.alarm, reply |-> reply])
    BY <2>1, <2>4, Zenon DEF Ready, Kissing, Carries
  <2> QED
    BY <1>16, <2>1, <2>2, <2>5, Zenon DEF Kissing, reply
<1>19. CASE StopLoop(l)
  <2>1. [r EXCEPT !.at = "stopped"] = Stopped
    BY <1>1, <1>19, PlacesOfLoops DEF StopLoop, Goes, Waiting, Stopped, r
  <2> QED
    BY <1>4, <1>19, <2>1, Zenon DEF StopLoop, Goes, Holds, r
<1> QED
  BY <1>5, <1>6, <1>7, <1>9, <1>11, <1>12, <1>13, <1>14, <1>15, <1>17, <1>18, <1>19, Zenon
  DEF ReceiveSomething, LoopStep, ReceiveWithoutClock, ReceiveFails, DropOversized,
      LimiterOverloaded, Reject, StampWithoutClock, DropUnkissed, Send, SendFails

\* So does every step: what a loop knows stays true while others go on, since trust is
\* never regained and a reference without trust never moves.
LEMMA LoopsStep ==
  ASSUME ClockTypeOK, ClockTypeOK', LoopsHold, [SNext]_svars
  PROVE  LoopsHold'
<1>1. CASE UNCHANGED loop
  <2>1. /\ synchronised' => synchronised
        /\ ~synchronised => reference' = reference
    BY TrustStep, Zenon
  <2>2. synchronised \in BOOLEAN /\ synchronised' \in BOOLEAN
    BY Zenon DEF ClockTypeOK
  <2>3. ASSUME NEW r, Carries(r)
        PROVE  Carries(r)'
    BY <2>1, <2>2, <2>3, Zenon DEF Carries
  <2>4. ASSUME NEW r, NEW trusted, Knows(r, trusted)
        PROVE  Knows(r, trusted)'
    BY <2>1, <2>2, <2>4, Zenon DEF Knows
  <2>5. ASSUME NEW r, Built(r)
        PROVE  Built(r)'
    BY <2>1, <2>3, <2>4, <2>5, Zenon DEF Built, Carries
  <2>6. ASSUME NEW r, Ready(r)
        PROVE  Ready(r)'
    BY <2>1, <2>3, <2>6, Zenon DEF Ready, Carries
  <2>7. ASSUME NEW r, Holds(r)
        PROVE  Holds(r)'
    BY <2>3, <2>4, <2>5, <2>6, <2>7, Zenon
    DEF Holds, Waiting, Stopped, Asked, InHand, Kissing, Informed
  <2> QED
    BY <1>1, <2>7, Zenon DEF LoopsHold
<1>2. ASSUME NEW l \in Loops, ReceiveSomething(l) \/ LoopStep(l)
      PROVE  LoopsHold'
  BY <1>2, LoopsServe, Zenon
<1> QED
  BY <1>1, <1>2, Zenon
  DEF SNext, HousekeepingStep, HkTick, HkJump, HkGauges, HkStartSweep, HkSweep,
      StopHousekeeping, OnlyKeepsHouse, Signal, STick, SSetWallClock, svars, server

\* Every loop holds what its place allows, throughout.
LEMMA LoopsAlwaysHold == SSpec => []LoopsHold
<1>1. SInit => LoopsHold
  BY Zenon DEF SInit, LoopsHold, Holds
<1>2. ClockTypeOK /\ ClockTypeOK' /\ LoopsHold /\ [SNext]_svars => LoopsHold'
  BY LoopsStep, Zenon
<1> QED
  BY <1>1, <1>2, ClockIsTyped, PTL DEF SSpec

-----------------------------------------------------------------------------
(* The limiter inside the server *)

\* Every step of the server is a step of the limiter, or leaves it alone: a loop enters
\* the limiter with its datagram's source and leaves it by one of the branches of check.
LEMMA LimiterStep ==
  ASSUME LoopsHold, [SNext]_svars
  PROVE  [Limiter!Next]_(Limiter!vars)
<1> USE DEF Limiter!vars, limiter
<1>1. ASSUME NEW l \in Loops, ReceiveSomething(l)
      PROVE  UNCHANGED Limiter!vars
  BY <1>1, Zenon DEF ReceiveSomething, Receive, ReceiveWithoutClock, ReceiveFails, OnlyServes
<1>2. ASSUME NEW l \in Loops, LoopStep(l)
      PROVE  [Limiter!Next]_(Limiter!vars)
  <2>1. CASE AskLimiter(l)
    <3>1. Limiter!StartCheck(l, loop[l].source) /\ loop[l].at = "received"
      BY <2>1, Zenon DEF AskLimiter
    <3>2. loop[l].source \in Clients
      BY <3>1, PlacesOfLoops, Zenon DEF LoopsHold, Carries
    <3> QED
      BY <3>1, <3>2, Zenon DEF Limiter!Next
  <2>2. CASE LimiterAllows(l) \/ LimiterLimits(l) \/ LimiterOverloaded(l)
    BY <2>2, Zenon DEF LimiterAllows, LimiterLimits, LimiterOverloaded, Limiter!Next, Limiter!Check
  <2>3. CASE SendFails(l)
    BY <2>3, Zenon DEF SendFails
  <2>4. CASE OnlyServes
    BY <2>4, Zenon DEF OnlyServes
  <2> QED
    BY <1>2, <2>1, <2>2, <2>3, <2>4, Zenon
    DEF LoopStep, DropOversized, Deny, Reject, ReadStatus, Build, Stamp, StampWithoutClock,
        DropUnkissed, StampKiss, Send, StopLoop
<1>3. CASE HousekeepingStep
  BY <1>3, Zenon DEF HousekeepingStep, HkTick, HkJump, HkGauges, HkStartSweep, HkSweep,
     StopHousekeeping, CheckReadsWall, CheckCompares, Limiter!Next
<1>4. CASE Signal \/ STick \/ SSetWallClock
  BY <1>4, Zenon DEF Signal, STick, SSetWallClock, SetWallClock, Limiter!Next
<1>5. CASE UNCHANGED svars
  BY <1>5, Zenon DEF svars
<1> QED
  BY <1>1, <1>2, <1>3, <1>4, <1>5, Zenon DEF SNext

\* The limiter inside the server runs as RateLimiter describes it on its own, so that all
\* that is proved of RateLimiter holds of the server.
THEOREM ServerRunsTheLimiter == SSpec => Limiter!Spec
<1>1. SInit => Limiter!Init
  BY Zenon DEF SInit
<1>2. LoopsHold /\ [SNext]_svars => [Limiter!Next]_(Limiter!vars)
  BY LimiterStep, Zenon
<1> QED
  BY <1>1, <1>2, LoopsAlwaysHold, PTL DEF SSpec, Limiter!Spec

-----------------------------------------------------------------------------
(* Where the loops and housekeeping are, and what the limiter knows of them *)

\* A value read is not the absence of one.
LEMMA ReadingsAreReadings ==
  /\ NoReading \notin Int
  /\ NoRequest \notin Nat
  /\ \A c \in Clients, t \in Nat : [source |-> c, now |-> t] # NoRequest
<1>1. NoReading \notin Int
  BY SystemClockAssumption, Zenon
<1>2. NoRequest \notin Nat /\ NoRequest \notin [source : Clients, now : Nat]
  BY LimiterAssumption, Zenon DEF Limiter!RateLimiterAssumption
<1>3. \A c \in Clients, t \in Nat : [source |-> c, now |-> t] \in [source : Clients, now : Nat]
  BY Zenon
<1> QED
  BY <1>1, <1>2, <1>3, Zenon

\* Who is in the limiter, seen from the loop that moves.
LEMMA LimiterKnowsServe ==
  ASSUME ClockTypeOK, LoopsHold, LimiterKnows,
         NEW l \in Loops, ReceiveSomething(l) \/ LoopStep(l)
  PROVE  LimiterKnows'
<1>1. DOMAIN loop = Loops /\ DOMAIN pending = Loops
  BY Zenon DEF LoopsHold, LimiterKnows
<1>2. InLimiter(l) /\ DOMAIN clients \cap DeniedClients = {}
  BY Zenon DEF LimiterKnows
\* A step that leaves the limiter alone and moves a loop neither into it nor out of it.
<1>3. ASSUME NEW v, v.at # "limiter", loop[l].at # "limiter", loop' = [loop EXCEPT ![l] = v],
             UNCHANGED limiter
      PROVE  LimiterKnows'
  BY <1>1, <1>3, Zenon DEF LimiterKnows, InLimiter, limiter
<1>4. ASSUME OnlyServes, UNCHANGED loop
      PROVE  LimiterKnows'
  BY <1>4, Zenon DEF OnlyServes, LimiterKnows, InLimiter, limiter
<1>5. ASSUME NEW from, from # "limiter", Finishes(l, from), UNCHANGED limiter
      PROVE  LimiterKnows'
  BY <1>3, <1>5, Zenon DEF Finishes, Waiting
<1>6. CASE ReceiveSomething(l)
  BY <1>3, <1>4, <1>6, Zenon
  DEF ReceiveSomething, Receive, ReceiveWithoutClock, ReceiveFails, Selects, OnlyServes,
      LimiterKnows, InLimiter, limiter
<1>7. CASE Deny(l)
  BY <1>3, <1>5, <1>7, Zenon DEF Deny, Kisses, OnlyServes
<1>8. CASE AskLimiter(l)
  <2>1. loop[l].source \in Clients /\ mono \in Nat
    <3>1. Holds(loop[l]) /\ loop[l].at = "received"
      BY <1>8, Zenon DEF LoopsHold, AskLimiter
    <3>2. Asked(loop[l])
      BY <3>1, PlacesOfLoops, Zenon
    <3>3. mono \in Nat
      BY SystemClockAssumption DEF ClockTypeOK
    <3> QED
      BY <3>2, <3>3, Zenon DEF Asked, Carries
  <2>2. loop' = [loop EXCEPT ![l].at = "limiter"] /\ UNCHANGED clients
    BY <1>8, Zenon DEF AskLimiter, Goes, Limiter!StartCheck
  <2>3. pending' = [pending EXCEPT ![l] = [source |-> loop[l].source, now |-> mono]]
    BY <1>8, Zenon DEF AskLimiter, Limiter!StartCheck
  <2>4. loop[l] \in InHand
    BY <1>8, PlacesOfLoops, Zenon DEF AskLimiter, LoopsHold, Asked
  <2>5. loop'[l].at = "limiter" /\ loop'[l].source = loop[l].source
    BY <1>1, <2>2, <2>4, Zenon DEF InHand
  <2>6. InLimiter(l)'
    BY <1>1, <2>1, <2>3, <2>5, ReadingsAreReadings, Zenon DEF InLimiter
  <2> QED
    BY <1>1, <2>2, <2>3, <2>6, Zenon DEF LimiterKnows, InLimiter
<1>9. CASE LimiterAllows(l) \/ LimiterLimits(l) \/ LimiterOverloaded(l)
  <2>1. Limiter!Check(l)
    BY <1>9, Zenon DEF LimiterAllows, LimiterLimits, LimiterOverloaded, Limiter!Check
  <2>2. pending' = [pending EXCEPT ![l] = NoRequest] /\ pending[l] # NoRequest
    BY <2>1, Zenon
    DEF Limiter!Check, Limiter!CheckDisabled, Limiter!CheckLimitedGlobal, Limiter!PassesGlobal,
        Limiter!CheckKnownAllowed, Limiter!CheckLimitedPerClient, Limiter!CheckTableFull,
        Limiter!CheckNewAllowed, Limiter!Returns
  <2>3. \E v : v.at # "limiter" /\ loop' = [loop EXCEPT ![l] = v]
    <3>1. CASE LimiterAllows(l)
      <4>1. loop[l] \in InHand
        BY <3>1, PlacesOfLoops, Zenon DEF LimiterAllows, Goes, LoopsHold, Asked
      <4> QED
        BY <3>1, <4>1, Zenon DEF LimiterAllows, Goes, InHand
    <3> QED
      BY <1>9, <3>1, Zenon DEF LimiterLimits, LimiterOverloaded, Finishes, Kisses, Waiting
  <2>4. \A m \in Loops : InLimiter(m)'
    BY <1>1, <2>2, <2>3, Zenon DEF LimiterKnows, InLimiter
  <2>5. pending[l].source \notin DeniedClients
    BY <1>2, <2>2, PlacesOfLoops, Zenon DEF InLimiter, LoopsHold, Asked
  <2>6. DOMAIN clients' \subseteq DOMAIN clients \cup {pending[l].source}
    <3>1. \A now : Limiter!KeptForNew(now) \subseteq DOMAIN clients
      BY Zenon DEF Limiter!KeptForNew, Limiter!Retained
    <3>2. CASE UNCHANGED clients
      BY <3>2, Zenon
    <3> QED
      BY <2>1, <3>1, <3>2, Zenon
      DEF Limiter!Check, Limiter!CheckDisabled, Limiter!CheckLimitedGlobal, Limiter!PassesGlobal,
          Limiter!CheckKnownAllowed, Limiter!CheckLimitedPerClient, Limiter!CheckTableFull,
          Limiter!CheckNewAllowed
  <2> QED
    BY <1>1, <1>2, <2>2, <2>4, <2>5, <2>6, Zenon DEF LimiterKnows
<1>10. CASE Stamp(l) \/ StampKiss(l)
  BY <1>3, <1>10, Zenon DEF Stamp, StampKiss, Stamped, OnlyServes
<1>11. CASE ReadStatus(l) \/ Build(l)
  BY <1>3, <1>11, Zenon DEF ReadStatus, Build, OnlyServes
<1>12. CASE StopLoop(l)
  <2>1. [loop[l] EXCEPT !.at = "stopped"] = Stopped
    BY <1>12, PlacesOfLoops DEF StopLoop, Goes, Waiting, Stopped, LoopsHold
  <2> QED
    BY <1>3, <1>12, <2>1, Zenon DEF StopLoop, Goes, Stopped, OnlyServes
<1> QED
  BY <1>5, <1>6, <1>7, <1>8, <1>9, <1>10, <1>11, <1>12, Zenon
  DEF LoopStep, DropOversized, Reject, StampWithoutClock, DropUnkissed, Send, SendFails, OnlyServes

\* The other steps move no loop and add no client.
LEMMA LimiterKnowsStep ==
  ASSUME ClockTypeOK, LoopsHold, LimiterKnows, [SNext]_svars
  PROVE  LimiterKnows'
<1>1. ASSUME UNCHANGED <<loop, pending>>, DOMAIN clients' \subseteq DOMAIN clients
      PROVE  LimiterKnows'
  BY <1>1, Zenon DEF LimiterKnows, InLimiter
<1>2. CASE HkSweep
  BY <1>1, <1>2, Zenon DEF HkSweep, Limiter!Sweep, Limiter!Retained, OnlyKeepsHouse
<1>3. CASE HkStartSweep
  BY <1>1, <1>3, Zenon DEF HkStartSweep, Limiter!StartSweep, OnlyKeepsHouse
<1>4. CASE STick
  BY <1>1, <1>4, Zenon DEF STick, Limiter!Tick, server
<1>5. ASSUME NEW l \in Loops, ReceiveSomething(l) \/ LoopStep(l)
      PROVE  LimiterKnows'
  BY <1>5, LimiterKnowsServe, Zenon
<1> QED
  BY <1>1, <1>2, <1>3, <1>4, <1>5, Zenon
  DEF SNext, HousekeepingStep, HkTick, HkJump, HkGauges, StopHousekeeping, OnlyKeepsHouse,
      Signal, SSetWallClock, svars, server, limiter

\* Housekeeping holds a reading of the wall clock only inside check_jump, and one of the
\* monotonic clock only as it waits for the mutex.
LEMMA HousekeepingHoldsStep ==
  ASSUME ClockTypeOK, HousekeepingHolds, [SNext]_svars
  PROVE  HousekeepingHolds'
<1> USE DEF HousekeepingHolds
<1>1. ASSUME NEW l \in Loops, ReceiveSomething(l) \/ LoopStep(l)
      PROVE  UNCHANGED <<hk, shutdown, now_wall, sweep_now>>
  <2>1. CASE ReceiveSomething(l)
    BY <2>1, Zenon DEF ReceiveSomething, Receive, ReceiveWithoutClock, ReceiveFails, OnlyServes,
       clock, limiter
  <2>2. CASE AskLimiter(l)
    BY <2>2, Zenon DEF AskLimiter, Limiter!StartCheck, clock
  <2>3. CASE LimiterAllows(l) \/ LimiterLimits(l) \/ LimiterOverloaded(l)
    BY <2>3, Zenon
    DEF LimiterAllows, LimiterLimits, LimiterOverloaded, LimiterLeft, Limiter!CheckDisabled,
        Limiter!CheckLimitedGlobal, Limiter!CheckKnownAllowed, Limiter!CheckNewAllowed,
        Limiter!CheckLimitedPerClient, Limiter!CheckTableFull, Limiter!PassesGlobal, clock
  <2>4. CASE SendFails(l)
    BY <2>4, Zenon DEF SendFails, clock, limiter
  <2>5. CASE OnlyServes
    BY <2>5, Zenon DEF OnlyServes, clock, limiter
  <2> QED
    BY <1>1, <2>1, <2>2, <2>3, <2>4, <2>5, Zenon
    DEF LoopStep, DropOversized, Deny, Reject, ReadStatus, Build, Stamp, StampWithoutClock,
        DropUnkissed, StampKiss, Send, StopLoop
<1>2. CASE HkTick
  <2>1. wall \in Int
    BY SystemClockAssumption DEF ClockTypeOK, wall
  <2> QED
    BY <1>2, <2>1, ReadingsAreReadings, Zenon DEF HkTick, CheckReadsWall, OnlyKeepsHouse, limiter
<1>3. CASE HkJump
  BY <1>3, Zenon DEF HkJump, CheckCompares, OnlyKeepsHouse, limiter
<1>4. CASE HkGauges \/ StopHousekeeping
  BY <1>4, Zenon DEF HkGauges, StopHousekeeping, OnlyKeepsHouse, limiter, clock
<1>5. CASE HkStartSweep
  <2>1. mono \in Nat
    BY SystemClockAssumption DEF ClockTypeOK
  <2> QED
    BY <1>5, <2>1, ReadingsAreReadings, Zenon DEF HkStartSweep, Limiter!StartSweep, OnlyKeepsHouse, clock
<1>6. CASE HkSweep
  BY <1>6, Zenon DEF HkSweep, Limiter!Sweep, OnlyKeepsHouse, clock
<1>7. CASE Signal \/ STick \/ SSetWallClock
  BY <1>7, Zenon
  DEF Signal, STick, ClockTick, Limiter!Tick, SSetWallClock, SetWallClock, clock, limiter, server
<1>8. CASE UNCHANGED svars
  BY <1>8, Zenon DEF svars, clock, limiter, server
<1> QED
  BY <1>1, <1>2, <1>3, <1>4, <1>5, <1>6, <1>7, <1>8, Zenon DEF SNext, HousekeepingStep

-----------------------------------------------------------------------------
(* The invariant of the loops, and what follows from it *)

\* It holds as the server starts: no loop has a datagram in hand.
LEMMA LoopInvInit ==
  ASSUME SInit
  PROVE  LoopInv
<1>1. \A l \in Loops : loop[l] = Waiting /\ loop[l].at = "select"
  BY Zenon DEF SInit, Waiting
<1>2. LoopsHold
  BY <1>1, Zenon DEF SInit, LoopsHold, Holds
<1>3. LimiterKnows
  BY <1>1, Zenon DEF SInit, Limiter!Init, LimiterKnows, InLimiter
<1>4. HousekeepingHolds
  BY Zenon DEF SInit, ClockInit, Limiter!Init, HousekeepingHolds
<1> QED
  BY <1>2, <1>3, <1>4, Zenon DEF LoopInv

\* What the loops, the limiter and housekeeping know of each other holds throughout,
\* however they interleave.
THEOREM LoopInvariance == SSpec => []LoopInv
<1>1. SInit => LoopInv
  BY LoopInvInit, Zenon
<1>2. ClockTypeOK /\ ClockTypeOK' /\ LoopInv /\ [SNext]_svars => LoopInv'
  <2>1. SUFFICES ASSUME ClockTypeOK, ClockTypeOK', LoopInv, [SNext]_svars PROVE LoopInv'
    BY Zenon
  <2>2. LoopsHold /\ LimiterKnows /\ HousekeepingHolds
    BY <2>1, Zenon DEF LoopInv
  <2>3. LoopsHold'
    BY <2>1, <2>2, LoopsStep, Zenon
  <2>4. LimiterKnows'
    BY <2>1, <2>2, LimiterKnowsStep, Zenon
  <2>5. HousekeepingHolds'
    BY <2>1, <2>2, HousekeepingHoldsStep, Zenon
  <2> QED
    BY <2>3, <2>4, <2>5, Zenon DEF LoopInv
<1> QED
  BY <1>1, <1>2, ClockIsTyped, PTL DEF SSpec

\* A client whose datagram came after the clock was given up is told so, whatever
\* housekeeping did while its answer was put together.
THEOREM AlarmsAreTold == SSpec => []AlarmIsTold
<1>1. LoopInv => AlarmIsTold
  <2>1. ASSUME LoopInv, NEW l \in Loops, loop[l].at = "send"
        PROVE  Ready(loop[l])
    BY <2>1, PlacesOfLoops, Zenon DEF LoopInv, LoopsHold
  <2> QED
    BY <2>1, Zenon DEF AlarmIsTold, Ready, IsKiss
<1> QED
  BY <1>1, LoopInvariance, PTL

\* A source that the access rules deny gets a DENY kiss at most, and neither an entry nor
\* a token of the limiter.
THEOREM DeniedGetNoService == SSpec => []DeniedGetNothing
<1>1. LoopInv => DeniedGetNothing
  <2>1. SUFFICES ASSUME LoopInv PROVE DeniedGetNothing
    BY Zenon
  <2>2. LoopsHold /\ LimiterKnows
    BY <2>1, Zenon DEF LoopInv
  <2>3. ASSUME NEW l \in Loops, pending[l] # NoRequest
        PROVE  pending[l].source \notin DeniedClients
    <3>1. loop[l].at = "limiter" /\ pending[l].source = loop[l].source
      BY <2>2, <2>3, Zenon DEF LimiterKnows, InLimiter
    <3>2. Asked(loop[l])
      BY <2>2, <3>1, PlacesOfLoops, Zenon DEF LoopsHold
    <3> QED
      BY <3>1, <3>2, Zenon DEF Asked
  <2>4. ASSUME NEW l \in Loops, loop[l].at = "send", loop[l].source \in DeniedClients
        PROVE  IsKiss(l) /\ loop[l].reply.reference_id = "DENY"
    <3>1. Ready(loop[l])
      BY <2>2, <2>4, PlacesOfLoops, Zenon DEF LoopsHold
    <3> QED
      BY <2>4, <3>1, Zenon DEF Ready, KissCode, IsKiss
  <2> QED
    BY <2>2, <2>3, <2>4, Zenon DEF LimiterKnows, DeniedGetNothing
<1> QED
  BY <1>1, LoopInvariance, PTL
=============================================================================
