---------------------------- MODULE ServerProofs ----------------------------
(***************************************************************************)
(* What the server guarantees with any number of sockets and clients, any  *)
(* settings that validate accepts and any datagrams: seen from outside it  *)
(* keeps the promise of Responder, its counters add up, and what is proved *)
(* of RateLimiter on its own holds of the limiter that the server runs.    *)
(***************************************************************************)
EXTENDS ServerPromise, ServerLoopProofs, ServerBookProofs

-----------------------------------------------------------------------------
(* The promise *)

\* Responder reads packets and the clock as the server does.
LEMMA SamePackets ==
  /\ \A data : Promise!IsRequest(data) <=> IsRequest(data)
  /\ \A data : Promise!Parsed(data) = Parsed(data)
  /\ \A instant : Promise!ToTimestamp(instant) = ToTimestamp(instant)
  /\ \A p : Promise!Encode(p).len = PACKET_SIZE
<1>1. \A data : Promise!Parsed(data) = Parsed(data)
  BY Zenon DEF Promise!Parsed, Parsed, Promise!I8, I8
<1>2. \A data : Promise!Rejection(data) = Rejection(data)
  BY <1>1, Zenon DEF Promise!Rejection, Rejection, Promise!TrailingBytes, TrailingBytes,
     Promise!ClientMode, ClientMode, Promise!ZERO, ZERO
<1>3. \A data : Promise!IsRequest(data) <=> IsRequest(data)
  BY <1>2, Zenon DEF Promise!IsRequest, IsRequest, Promise!Parses, Parses
<1>4. \A instant : Promise!ToTimestamp(instant) = ToTimestamp(instant)
  BY Zenon DEF Promise!ToTimestamp, ToTimestamp, Promise!FractionFromNanos, FractionFromNanos
<1>5. \A p : Promise!Encode(p).len = PACKET_SIZE
  BY Zenon DEF Promise!Encode
<1> QED
  BY <1>1, <1>3, <1>4, <1>5, Zenon

\* A step of one loop changes at most its own task.
LEMMA OneTaskChanges ==
  ASSUME LoopsHold, NEW l \in Loops, NEW v, loop' = [loop EXCEPT ![l] = v]
  PROVE  /\ tasks' = [tasks EXCEPT ![l] = Task(v)]
         /\ tasks[l] = Task(loop[l]) /\ tasks'[l] = Task(v)
         /\ \A m \in Loops \ {l} : tasks'[m] = tasks[m]
<1>1. \A m \in Loops : loop'[m] = IF m = l THEN v ELSE loop[m]
  BY Zenon DEF LoopsHold
<1>2. tasks = [m \in Loops |-> Task(loop[m])] /\ tasks' = [m \in Loops |-> Task(loop'[m])]
  BY Zenon DEF tasks
<1>3. \A m \in Loops : Task(loop'[m]) = IF m = l THEN Task(v) ELSE Task(loop[m])
  BY <1>1
<1> QED
  BY <1>2, <1>3, Zenon

\* While it works on a question, a loop's task is the same.
LEMMA SameTask ==
  ASSUME LoopsHold, NEW l \in Loops, NEW v, loop' = [loop EXCEPT ![l] = v],
         Task(v) = Task(loop[l])
  PROVE  UNCHANGED tasks
<1>1. tasks' = [tasks EXCEPT ![l] = Task(loop[l])]
  BY OneTaskChanges, Zenon
<1>2. tasks = [m \in Loops |-> Task(loop[m])]
  BY Zenon DEF tasks
<1> QED
  BY <1>1, <1>2, Zenon

\* An answer in the place of a question is one that Responder gives.
LEMMA AnswerIsAReply ==
  ASSUME LoopsHold, NEW l \in Loops, NEW v, loop' = [loop EXCEPT ![l] = v],
         UNCHANGED <<wall, synchronised>>, NEW q, NEW answer,
         Task(loop[l]) = q, Task(v) = answer,
         q.is = "question", IsRequest(q.data), PACKET_SIZE <= q.data.len,
         answer.is = "answer", answer.source = q.source, Promise!Belongs(q, answer.reply),
         Promise!TellsTime(q, answer.reply) \/ Promise!Kiss(q, answer.reply)
  PROVE  Promise!Reply(l)
<1>1. tasks[l] = q /\ tasks'[l] = answer /\ \A m \in Loops \ {l} : tasks'[m] = tasks[m]
  BY OneTaskChanges, Zenon
<1>2. Promise!IsRequest(q.data)
  BY SamePackets, Zenon
<1>3. Promise!Encode(answer.reply).len <= q.data.len
  BY SamePackets, Zenon
<1> QED
  BY <1>1, <1>2, <1>3, Zenon DEF Promise!Reply

\* The clock stands still for a loop.
LEMMA ClockStands ==
  ASSUME OnlyServes
  PROVE  UNCHANGED <<wall, synchronised>>
BY Zenon DEF OnlyServes, clock, wall

\* So the answer with the time is one.
LEMMA TimeIsAReply ==
  ASSUME LoopsHold, NEW l \in Loops, Stamp(l)
  PROVE  Promise!Reply(l)
<1> DEFINE r == loop[l]
           reply == Finalize(r.reply, ReadClock)
           v == [at |-> "send", source |-> r.source, receive |-> r.receive,
                 alarm |-> r.alarm, reply |-> reply]
           q == [is |-> "question", source |-> r.source, data |-> r.data,
                 received |-> r.receive, hope |-> ~r.alarm]
           answer == [is |-> "answer", source |-> r.source, reply |-> reply]
<1>1. loop' = [loop EXCEPT ![l] = v] /\ r.at = "stamp" /\ OnlyServes
  BY Zenon DEF Stamp, Stamped
<1> HIDE DEF r, reply
<1>2. Built(r)
  BY <1>1, PlacesOfLoops, Zenon DEF LoopsHold, r
<1>3. PICK trusted \in BOOLEAN, ref \in NtpTimestamp :
        /\ Knows(r, trusted)
        /\ r.reply = BuildResponse(Parsed(r.data), trusted, ref, r.receive)
  BY <1>2, Zenon DEF Built
<1>4. reply = Finalize(BuildResponse(Parsed(r.data), trusted, ref, r.receive), ToTimestamp(wall))
  BY <1>3, Zenon DEF reply, ReadClock
<1>5. /\ trusted => reply.leap = identity.leap /\ reply.stratum = identity.stratum
      /\ ~trusted => reply.leap = LeapUnsynchronised /\ reply.stratum = UNSYNCHRONISED
      /\ reply.mode = ServerMode
      /\ reply.version = Parsed(r.data).version
      /\ reply.origin_timestamp = Parsed(r.data).transmit_timestamp
      /\ reply.receive_timestamp = r.receive
      /\ reply.transmit_timestamp = ToTimestamp(wall)
  BY <1>4, ResponseFields
<1>6. Task(r) = q /\ Task(v) = answer
  BY <1>1, Zenon DEF Task
<1>7. IsRequest(r.data) /\ r.source \notin DeniedClients
  BY <1>2, Zenon DEF Built
<1>8. PACKET_SIZE <= r.data.len
  BY <1>7, PacketAssumption, Zenon DEF IsRequest, Parses
<1>9. Promise!Belongs(q, reply)
  BY <1>5, SamePackets, Zenon DEF Promise!Belongs, Promise!ServerMode, ServerMode
<1>10. Promise!TellsTime(q, reply)
  BY <1>3, <1>5, <1>7, SamePackets, Zenon
  DEF Promise!TellsTime, Knows, Promise!UNSYNCHRONISED, UNSYNCHRONISED,
      Promise!LeapUnsynchronised, LeapUnsynchronised
<1>11. /\ q.is = "question" /\ q.data = r.data
       /\ answer.is = "answer" /\ answer.source = q.source /\ answer.reply = reply
  BY Zenon
<1> HIDE DEF q, answer, v
<1>12. Task(loop[l]) = q
  BY <1>6, Zenon DEF r
<1>13. UNCHANGED <<wall, synchronised>>
  BY <1>1, ClockStands, Zenon
<1> QED
  BY <1>1, <1>6, <1>7, <1>8, <1>9, <1>10, <1>11, <1>12, <1>13, AnswerIsAReply, Zenon

\* And so is a Kiss-o'-Death, even if its time of sending is left zero.
LEMMA KissIsAReply ==
  ASSUME LoopsHold, NEW l \in Loops, StampKiss(l)
  PROVE  Promise!Reply(l)
<1> DEFINE r == loop[l]
           transmit == IF ReadClock = BeforeNtpEpoch THEN ZERO ELSE ReadClock
           reply == Finalize(BuildKissOfDeath(Parsed(r.data), r.code, r.receive), transmit)
           v == [at |-> "send", source |-> r.source, receive |-> r.receive,
                 alarm |-> r.alarm, reply |-> reply]
           q == [is |-> "question", source |-> r.source, data |-> r.data,
                 received |-> r.receive, hope |-> ~r.alarm]
           answer == [is |-> "answer", source |-> r.source, reply |-> reply]
<1>1. loop' = [loop EXCEPT ![l] = v] /\ r.at = "kiss" /\ IsRequest(r.data) /\ OnlyServes
  BY Zenon DEF StampKiss, Stamped
<1>2. transmit \in {ToTimestamp(wall), ZERO}
  BY Zenon DEF ReadClock
<1> HIDE DEF r, transmit
<1>3. reply = Finalize(BuildKissOfDeath(Parsed(r.data), r.code, r.receive), transmit)
  BY Zenon
<1> HIDE DEF reply
<1>4. Kissing(r)
  BY <1>1, PlacesOfLoops, Zenon DEF LoopsHold, r
<1>5. /\ reply.stratum = KISS_OF_DEATH
      /\ reply.leap = LeapUnsynchronised
      /\ reply.reference_id = r.code
      /\ reply.mode = ServerMode
      /\ reply.version = Parsed(r.data).version
      /\ reply.origin_timestamp = Parsed(r.data).transmit_timestamp
      /\ reply.receive_timestamp = r.receive
      /\ reply.transmit_timestamp = transmit
  BY <1>3, KissFields
<1>6. Task(r) = q /\ Task(v) = answer
  BY <1>1, Zenon DEF Task
<1>7. PACKET_SIZE <= r.data.len
  BY <1>1, PacketAssumption, Zenon DEF IsRequest, Parses
<1>8. Promise!Belongs(q, reply)
  BY <1>5, SamePackets, Zenon DEF Promise!Belongs, Promise!ServerMode, ServerMode
<1>9. Promise!Kiss(q, reply)
  BY <1>2, <1>4, <1>5, SamePackets, Zenon
  DEF Promise!Kiss, Kissing, KissCode, Promise!KISS_OF_DEATH, KISS_OF_DEATH,
      Promise!LeapUnsynchronised, LeapUnsynchronised, Promise!ZERO, ZERO
<1>10. /\ q.is = "question" /\ q.data = r.data
       /\ answer.is = "answer" /\ answer.source = q.source /\ answer.reply = reply
  BY Zenon
<1> HIDE DEF q, answer, v
<1>11. Task(loop[l]) = q
  BY <1>6, Zenon DEF r
<1>12. UNCHANGED <<wall, synchronised>>
  BY <1>1, ClockStands, Zenon
<1> QED
  BY <1>1, <1>6, <1>7, <1>8, <1>9, <1>10, <1>11, <1>12, AnswerIsAReply, Zenon

\* Every step of the server is one that Responder takes, or changes nothing it sees.
LEMMA PromiseStep ==
  ASSUME ClockTypeOK, ClockTypeOK', LoopsHold, [SNext]_svars
  PROVE  [Promise!RNext]_(Promise!rvars)
<1>1. ASSUME UNCHANGED loop
      PROVE  Promise!Pass
  <2>1. wall' \in Int
    BY SystemClockAssumption DEF ClockTypeOK, wall
  <2>2. synchronised' \in {FALSE, synchronised}
    BY TrustStep, Zenon DEF ClockTypeOK
  <2>3. UNCHANGED tasks
    BY <1>1, Zenon DEF tasks, Task
  <2> QED
    BY <2>1, <2>2, <2>3, Zenon DEF Promise!Pass
<1>2. ASSUME NEW l \in Loops, ReceiveSomething(l) \/ LoopStep(l)
      PROVE  [Promise!RNext]_(Promise!rvars)
  <2>1. UNCHANGED <<wall, synchronised>>
    BY <1>2, ClockOfALoop, Zenon DEF wall, clock
  <2>2. ASSUME UNCHANGED tasks
        PROVE  UNCHANGED Promise!rvars
    BY <2>1, <2>2, Zenon DEF Promise!rvars
  <2>3. ASSUME NEW v, loop' = [loop EXCEPT ![l] = v], Task(v) = Task(loop[l])
        PROVE  UNCHANGED Promise!rvars
    BY <2>2, <2>3, SameTask, Zenon
  <2>4. ASSUME NEW from, Finishes(l, from)
        PROVE  Promise!Forget(l)
    <3>1. Task(Waiting) = Promise!Nothing
      BY Zenon DEF Task, Waiting, Promise!Nothing
    <3> QED
      BY <2>1, <2>4, <3>1, OneTaskChanges, Zenon DEF Finishes, Promise!Forget
  <2>5. ASSUME NEW d \in Datagrams, NEW c \in Clients, Receive(l, d, c)
        PROVE  Promise!Take(l)
    <3> DEFINE v == [at |-> "received", source |-> c, data |-> Truncated(d),
                     receive |-> ReadClock, alarm |-> ~synchronised]
    <3>1. loop' = [loop EXCEPT ![l] = v] /\ loop[l].at = "select"
      BY <2>5, Zenon DEF Receive, Selects
    <3>2. ReadClock = Promise!ToTimestamp(wall) /\ ReadClock # BeforeNtpEpoch
      BY <2>5, SamePackets, Zenon DEF Receive, ReadClock
    <3> DEFINE hope == ~v.alarm
    <3>3. Task(v) = [is |-> "question", source |-> c, data |-> Truncated(d),
                     received |-> ReadClock, hope |-> hope]
      BY Zenon DEF Task
    <3>4. hope = synchronised
      BY Zenon DEF ClockTypeOK
    <3>5. Task(v) = Promise!Question(c, Truncated(d), Promise!ToTimestamp(wall), synchronised)
      <4> HIDE DEF hope, v
      <4> QED
        BY <3>2, <3>3, <3>4, Zenon DEF Promise!Question
    <3>6. tasks' = [tasks EXCEPT ![l] = Task(v)]
      BY <3>1, OneTaskChanges, Zenon
    <3>7. tasks[l] = Promise!Nothing
      BY <3>1, Zenon DEF tasks, Task, Promise!Nothing
    <3>8. Truncated(d) \in {Truncated(e) : e \in Datagrams}
      BY Zenon
    <3> QED
      BY <2>1, <3>2, <3>5, <3>6, <3>7, <3>8, Zenon DEF Promise!Take
  <2>6. ASSUME NEW from, NEW code, Kisses(l, from, code), from \in {"received", "limiter"}
        PROVE  UNCHANGED Promise!rvars
    <3> DEFINE v == [at |-> "kiss", source |-> loop[l].source, data |-> loop[l].data,
                     receive |-> loop[l].receive, alarm |-> loop[l].alarm, code |-> code]
    <3>1. loop' = [loop EXCEPT ![l] = v] /\ loop[l].at = from
      BY <2>6, Zenon DEF Kisses
    <3>2. Task(v) = Task(loop[l])
      BY <2>6, <3>1, Zenon DEF Task
    <3> QED
      BY <2>3, <3>1, <3>2, Zenon
  <2>7. ASSUME NEW from \in {"received", "limiter"}, NEW to \in {"limiter", "parse"},
               Goes(l, from, to)
        PROVE  UNCHANGED Promise!rvars
    <3> DEFINE v == [loop[l] EXCEPT !.at = to]
    <3>1. loop' = [loop EXCEPT ![l] = v] /\ loop[l].at = from
      BY <2>7, Zenon DEF Goes
    <3>2. loop[l] \in InHand
      BY <3>1, PlacesOfLoops, Zenon DEF LoopsHold, Asked
    <3>3. Task(v) = Task(loop[l])
      BY <3>1, <3>2, Zenon DEF Task, InHand
    <3> QED
      BY <2>3, <3>1, <3>3, Zenon
  <2>8. CASE ReadStatus(l)
    <3> DEFINE v == [at |-> "status", source |-> loop[l].source, data |-> loop[l].data,
                     receive |-> loop[l].receive, alarm |-> loop[l].alarm,
                     synchronised |-> synchronised]
    <3>1. loop' = [loop EXCEPT ![l] = v] /\ loop[l].at = "parse"
      BY <2>8, Zenon DEF ReadStatus
    <3>2. Task(v) = Task(loop[l])
      BY <3>1, Zenon DEF Task
    <3> QED
      BY <2>3, <3>1, <3>2, Zenon
  <2>9. CASE Build(l)
    <3> DEFINE reply == BuildResponse(Parsed(loop[l].data), loop[l].synchronised, reference,
                                      loop[l].receive)
               v == [at |-> "stamp", source |-> loop[l].source, data |-> loop[l].data,
                     receive |-> loop[l].receive, alarm |-> loop[l].alarm, reply |-> reply]
    <3>1. loop' = [loop EXCEPT ![l] = v] /\ loop[l].at = "status"
      BY <2>9, Zenon DEF Build
    <3> HIDE DEF reply
    <3>2. Task(v) = Task(loop[l])
      BY <3>1, Zenon DEF Task
    <3> QED
      BY <2>3, <3>1, <3>2, Zenon
  <2>10. CASE StopLoop(l)
    <3>1. loop' = [loop EXCEPT ![l] = Stopped] /\ loop[l] = Waiting
      <4>1. loop[l] = Waiting
        BY <2>10, PlacesOfLoops, Zenon DEF StopLoop, Goes, LoopsHold
      <4>2. [loop[l] EXCEPT !.at = "stopped"] = Stopped
        BY <4>1 DEF Waiting, Stopped
      <4> QED
        BY <2>10, <4>1, <4>2, Zenon DEF StopLoop, Goes
    <3>2. Task(Stopped) = Task(Waiting)
      BY Zenon DEF Task, Waiting, Stopped
    <3> QED
      BY <2>3, <3>1, <3>2, Zenon
  <2>11. CASE Stamp(l) \/ StampKiss(l)
    BY <2>11, TimeIsAReply, KissIsAReply, Zenon DEF Promise!RNext
  <2>12. CASE ReceiveWithoutClock(l) \/ ReceiveFails(l)
    BY <1>1, <2>12, Zenon DEF ReceiveWithoutClock, ReceiveFails, Promise!RNext
  <2>13. CASE ReceiveSomething(l)
    BY <2>5, <2>12, <2>13, Zenon DEF ReceiveSomething, Promise!RNext
  <2>14. CASE LoopStep(l)
    <3>1. Deny(l) => (\E from : Finishes(l, from)) \/ Kisses(l, "received", "DENY")
      BY Zenon DEF Deny
    <3>2. LimiterLimits(l) => (\E from : Finishes(l, from)) \/ Kisses(l, "limiter", "RATE")
      BY Zenon DEF LimiterLimits
    <3>3. DropOversized(l) \/ LimiterOverloaded(l) \/ Reject(l) \/ StampWithoutClock(l)
          \/ DropUnkissed(l) \/ Send(l) \/ SendFails(l) => \E from : Finishes(l, from)
      BY Zenon DEF DropOversized, LimiterOverloaded, Reject, StampWithoutClock, DropUnkissed, Send,
         SendFails
    <3>4. AskLimiter(l) => Goes(l, "received", "limiter")
      BY Zenon DEF AskLimiter
    <3>5. LimiterAllows(l) => Goes(l, "limiter", "parse")
      BY Zenon DEF LimiterAllows
    <3>6. (\E from : Finishes(l, from)) => Promise!RNext
      BY <2>4, Zenon DEF Promise!RNext
    <3> QED
      BY <2>6, <2>7, <2>8, <2>9, <2>10, <2>11, <2>14, <3>1, <3>2, <3>3, <3>4, <3>5, <3>6, Zenon
      DEF LoopStep
  <2> QED
    BY <1>2, <2>13, <2>14, Zenon
<1> QED
  BY <1>1, <1>2, Zenon
  DEF SNext, HousekeepingStep, HkTick, HkJump, HkGauges, HkStartSweep, HkSweep,
      StopHousekeeping, OnlyKeepsHouse, Signal, STick, SSetWallClock, svars, server,
      Promise!RNext

\* The server implements Responder, with any number of sockets, for any datagrams and
\* whatever the wall clock does: only requests are answered, each at most once, in their
\* version and with their transmit timestamp as the origin; T2 and T3 are readings of the
\* clock at their moments; and no clock is called good that was given up by the time the
\* datagram came.
THEOREM ServerKeepsPromise == SSpec => KeepsPromise
<1>1. SInit => Promise!RInit
  <2>1. SUFFICES ASSUME SInit PROVE Promise!RInit
    BY Zenon
  <2>2. ClockTypeOK
    BY <2>1, ClockTypeInit, Zenon DEF SInit
  <2>3. wall \in Int
    BY <2>2, SystemClockAssumption DEF ClockTypeOK, wall
  <2>4. synchronised = TRUE
    BY <2>1, Zenon DEF SInit, ClockInit
  <2>5. tasks = [l \in Loops |-> Promise!Nothing]
    BY <2>1, Zenon DEF SInit, tasks, Task, Waiting, Promise!Nothing
  <2> QED
    BY <2>3, <2>4, <2>5, Zenon DEF Promise!RInit
<1>2. ClockTypeOK /\ ClockTypeOK' /\ LoopsHold /\ [SNext]_svars
        => [Promise!RNext]_(Promise!rvars)
  BY PromiseStep, Zenon
<1> QED
  BY <1>1, <1>2, ClockIsTyped, LoopsAlwaysHold, PTL DEF SSpec, KeepsPromise, Promise!RSpec

-----------------------------------------------------------------------------
(* The invariant, and the counters *)

\* The inductive invariant of the server holds throughout.
THEOREM ServerInvariance == SSpec => []ServerInv
<1>1. SInit => BookInv
  BY BookInvInit, Zenon
<1>2. LoopInv /\ BookInv /\ [SNext]_svars => BookInv'
  BY BooksStep, Zenon DEF LoopInv, BookInv
<1>3. LoopInv /\ BookInv <=> ServerInv
  BY Zenon DEF ServerInv
<1> QED
  BY <1>1, <1>2, <1>3, LoopInvariance, PTL DEF SSpec

\* No datagram is lost or counted twice, with any number of sockets and however their
\* loops interleave: what was received was answered, dropped, lost by a failing send, or
\* is in the hands of a loop, up to the width of the counters.
THEOREM RequestsAreAccounted == SSpec => []EveryRequestAccounted
<1>1. ServerInv => EveryRequestAccounted
  BY AnswersAreBooked, Zenon DEF ServerInv
<1> QED
  BY <1>1, ServerInvariance, PTL

\* Every datagram that got no time was counted under exactly one cause: too long, denied,
\* limited, malformed, of a version or mode not served, or no clock to answer by.
THEOREM RefusalsHaveOneCause == SSpec => []EveryRefusalHasOneCause
<1>1. ServerInv => EveryRefusalHasOneCause
  BY CausesAreBooked, Zenon DEF ServerInv
<1> QED
  BY <1>1, ServerInvariance, PTL

-----------------------------------------------------------------------------
(* The limiter *)

LimiterFacts == INSTANCE RateLimiterProofs WITH MaxTime <- MaxMono

\* The facts about RateLimiter are about the limiter of the server.
LEMMA SameLimiter ==
  /\ Limiter!Init <=> LimiterFacts!Init
  /\ [Limiter!Next]_(Limiter!vars) <=> [LimiterFacts!Next]_(LimiterFacts!vars)
<1>1. Limiter!Init <=> LimiterFacts!Init
  BY Zenon DEF Limiter!Init, LimiterFacts!Init, Limiter!NewBucket, LimiterFacts!NewBucket
<1>2. [Limiter!Next]_(Limiter!vars) <=> [LimiterFacts!Next]_(LimiterFacts!vars)
  BY Zenon
  DEF Limiter!Init, LimiterFacts!Init, Limiter!Next, LimiterFacts!Next, Limiter!vars,
      LimiterFacts!vars, Limiter!Tick, LimiterFacts!Tick, Limiter!StartCheck,
      LimiterFacts!StartCheck, Limiter!Check, LimiterFacts!Check,
      Limiter!CheckDisabled, LimiterFacts!CheckDisabled, Limiter!CheckLimitedGlobal,
      LimiterFacts!CheckLimitedGlobal, Limiter!CheckKnownAllowed,
      LimiterFacts!CheckKnownAllowed, Limiter!CheckLimitedPerClient,
      LimiterFacts!CheckLimitedPerClient, Limiter!CheckTableFull,
      LimiterFacts!CheckTableFull, Limiter!CheckNewAllowed,
      LimiterFacts!CheckNewAllowed, Limiter!StartSweep, LimiterFacts!StartSweep,
      Limiter!Sweep, LimiterFacts!Sweep, Limiter!PassesGlobal,
      LimiterFacts!PassesGlobal, Limiter!ChargeGlobal, LimiterFacts!ChargeGlobal,
      Limiter!GlobalPasses, LimiterFacts!GlobalPasses, Limiter!GlobalTakes,
      LimiterFacts!GlobalTakes, Limiter!Returns, LimiterFacts!Returns,
      Limiter!ClientTakes, LimiterFacts!ClientTakes, Limiter!ClientAfterTake,
      LimiterFacts!ClientAfterTake, Limiter!FreshEntry, LimiterFacts!FreshEntry,
      Limiter!NoteForcedSweep, LimiterFacts!NoteForcedSweep, Limiter!KeptForNew,
      LimiterFacts!KeptForNew, Limiter!ForcesSweep, LimiterFacts!ForcesSweep,
      Limiter!ForcedSweepDue, LimiterFacts!ForcedSweepDue, Limiter!TableIsFull,
      LimiterFacts!TableIsFull, Limiter!Retained, LimiterFacts!Retained,
      Limiter!Expired, LimiterFacts!Expired, Limiter!NewBucket,
      LimiterFacts!NewBucket, Limiter!AfterTake, LimiterFacts!AfterTake,
      Limiter!TakeSucceeds, LimiterFacts!TakeSucceeds, Limiter!RefilledTokens,
      LimiterFacts!RefilledTokens, Limiter!RefillAmount, LimiterFacts!RefillAmount,
      Limiter!SaturatingSince, LimiterFacts!SaturatingSince, Limiter!Second,
      LimiterFacts!Second, Limiter!Cardinality, LimiterFacts!Cardinality,
      Limiter!IsFiniteSet, LimiterFacts!IsFiniteSet
<1> QED
  BY <1>1, <1>2, Zenon

\* The settings the server hands to its limiter are what RateLimiter assumes.
LEMMA LimiterSettings == LimiterFacts!RateLimiterAssumption /\ LimiterFacts!TokenBucketAssumption
BY LimiterAssumption, Zenon
DEF LimiterFacts!RateLimiterAssumption, LimiterFacts!TokenBucketAssumption,
    Limiter!RateLimiterAssumption, Limiter!TokenBucketAssumption,
    Limiter!IsFiniteSet, LimiterFacts!IsFiniteSet

\* What is proved of RateLimiter holds inside the server, however loops, housekeeping and
\* shutdown go on around it: first, the types of its state.
LEMMA LimiterIsTyped == SSpec => []Limiter!TypeOK
<1>1. Limiter!TypeOK <=> LimiterFacts!TypeOK
  BY Zenon DEF Limiter!TypeOK, LimiterFacts!TypeOK, Limiter!Bucket, LimiterFacts!Bucket,
     Limiter!ClientEntry, LimiterFacts!ClientEntry
<1>2. LimiterFacts!Spec => []LimiterFacts!TypeOK
  BY LimiterSettings, LimiterFacts!TypeCorrect, Zenon
<1> QED
  BY <1>1, <1>2, SameLimiter, ServerRunsTheLimiter, PTL DEF Limiter!Spec, LimiterFacts!Spec

\* The server never tracks more than max_client_entries clients, however many sockets
\* receive at once (rate_limit.rs, "Memory is bounded").
THEOREM ServerTableIsBounded == SSpec => []Limiter!TableBound
<1>1. Limiter!TableBound <=> LimiterFacts!TableBound
  BY Zenon DEF Limiter!TableBound, LimiterFacts!TableBound, Limiter!Cardinality,
     LimiterFacts!Cardinality, Limiter!IsFiniteSet, LimiterFacts!IsFiniteSet
<1>2. LimiterFacts!Spec => []LimiterFacts!TableBound
  BY LimiterSettings, LimiterFacts!TableIsBounded, Zenon
<1> QED
  BY <1>1, <1>2, SameLimiter, ServerRunsTheLimiter, PTL DEF Limiter!Spec, LimiterFacts!Spec

\* All the state of the server keeps its type: in particular a loop waits for the limiter
\* exactly while the limiter has its call, housekeeping holds a reading of a clock exactly
\* between two steps of the code, and no counter leaves its width.
THEOREM ServerTypeCorrect == SSpec => []STypeOK
<1>1. ClockTypeOK /\ Limiter!TypeOK /\ ServerInv => STypeOK
  <2>1. SUFFICES ASSUME ClockTypeOK, Limiter!TypeOK, ServerInv PROVE STypeOK
    BY Zenon
  <2>2. LoopsHold /\ LimiterKnows /\ HousekeepingHolds /\ CountersHold
    BY <2>1, Zenon DEF ServerInv, LoopInv, BookInv
  <2>3. ASSUME NEW l \in Loops
        PROVE  /\ loop[l].at \in {"select", "stopped", "received", "limiter", "kiss", "parse",
                                  "status", "stamp", "send"}
               /\ l \in InFlight => loop[l].source \in Clients /\ loop[l].receive \in NtpTimestamp
               /\ (loop[l].at = "limiter") <=> (pending[l] # NoRequest)
    <3>1. Holds(loop[l]) /\ InLimiter(l)
      BY <2>2, Zenon DEF LoopsHold, LimiterKnows
    <3>2. loop[l].at \in {"select", "stopped", "received", "limiter", "kiss", "parse",
                          "status", "stamp", "send"}
      BY <3>1, PlacesOfLoops, Zenon
    <3>3. loop[l].at \notin {"select", "stopped"} => Carries(loop[l])
      BY <3>1, PlacesOfLoops, Zenon
    <3> QED
      BY <3>1, <3>2, <3>3, Zenon DEF InFlight, Carries, InLimiter
  <2>4. \A n \in Counters : metrics[n] \in 0 .. CounterModulus - 1
    BY <2>2, Zenon DEF CountersHold
  <2> QED
    BY <2>1, <2>2, <2>3, <2>4, Zenon DEF STypeOK, HousekeepingHolds
<1> QED
  BY <1>1, ClockIsTyped, LimiterIsTyped, ServerInvariance, PTL
=============================================================================
