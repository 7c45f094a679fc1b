------------------------- MODULE RateHistoryProofs -------------------------
(***************************************************************************)
(* Proofs about the histories of the rate limiter.                         *)
(*                                                                         *)
(* KodHistory: the Kiss-o'-Death throttle, for every interval and every    *)
(* width of limited_count that the interval divides.                       *)
(*                                                                         *)
(* RateHistory: the bound on forced scans, and the rate the limiter        *)
(* enforces, globally and per client.                                      *)
(*                                                                         *)
(* UseHistory: for how long an entry stays in the table after its last     *)
(* use.                                                                    *)
(***************************************************************************)
EXTENDS RateHistory, KodHistory, UseHistory, RateLimiterProofs

\* The books of one try_take: what is left in the bucket and what was spent are
\* covered by what was there and by the elapsed time at the given rate.
LEMMA TakeAccount ==
  ASSUME NEW b \in Bucket, NEW rate \in Nat, NEW size \in Nat, NEW now \in Nat
  PROVE  NanosPerMicro * AfterTake(b, rate, size, now).micro_tokens
           + (IF TakeSucceeds(b, rate, size, now) THEN Second ELSE 0)
         <= NanosPerMicro * b.micro_tokens + rate * SaturatingSince(now, b.last_refill)
<1> DEFINE e == SaturatingSince(now, b.last_refill)
           r == RefillAmount(e, rate)
           t == RefilledTokens(b, rate, size, now)
<1>1. b.micro_tokens \in Nat /\ b.last_refill \in Nat
  BY Zenon DEF Bucket
<1>2. e \in Nat
  BY <1>1, SaturatingSinceType, Zenon
<1>3. t \in Nat /\ t <= b.micro_tokens + r
  BY RefilledTokensType, Zenon
<1>4. TakeSucceeds(b, rate, size, now) <=> t >= MICRO
  BY Zenon DEF TakeSucceeds
<1>5. AfterTake(b, rate, size, now).micro_tokens = IF t >= MICRO THEN t - MICRO ELSE t
  BY <1>4, Zenon DEF AfterTake
<1> HIDE DEF e, t
<1>6. r \in Nat /\ NanosPerMicro * r <= e * rate
  BY <1>2, RefillAmountBound, Zenon
<1> HIDE DEF r
<1>7. NanosPerMicro * t <= NanosPerMicro * b.micro_tokens + NanosPerMicro * r
  BY <1>1, <1>3, <1>6, TokenBucketAssumption
<1>8. NanosPerMicro * t <= NanosPerMicro * b.micro_tokens + rate * e
  BY <1>1, <1>2, <1>3, <1>6, <1>7, TokenBucketAssumption
<1>9. CASE t >= MICRO
  <2>1. NanosPerMicro * (t - MICRO) + Second = NanosPerMicro * t
    BY <1>3, <1>9, TokenBucketAssumption DEF Second
  <2> QED
    BY <1>4, <1>5, <1>8, <1>9, <2>1, Zenon DEF e
<1>10. CASE ~(t >= MICRO)
  <2>1. NanosPerMicro * t + 0 = NanosPerMicro * t
    BY <1>3, TokenBucketAssumption
  <2> QED
    BY <1>4, <1>5, <1>8, <1>10, <2>1, Zenon DEF e
<1> QED
  BY <1>9, <1>10, Zenon

\* A fresh bucket always has a token: the debug_assert of RateLimiter::check.
LEMMA FreshBucketHasToken ==
  ASSUME NEW now \in Nat, enabled
  PROVE  TakeSucceeds(NewBucket(burst, now), requests_per_second, burst, now)
<1> DEFINE b == NewBucket(burst, now)
<1>1. b \in Bucket /\ b.micro_tokens = burst * MICRO
  BY NewBucketType, RateLimiterAssumption, Zenon DEF NewBucket
<1>2. RefillAmount(SaturatingSince(now, b.last_refill), requests_per_second) \in Nat
  BY <1>1, SaturatingSinceType, RefillAmountBound, RateLimiterAssumption, Zenon DEF Bucket
<1>3. burst * MICRO \in Nat /\ burst * MICRO >= MICRO
  <2>1. burst \in Nat \ {0} /\ MICRO \in Nat \ {0}
    BY RateLimiterAssumption, TokenBucketAssumption, Zenon
  <2> QED
    BY <2>1
<1> QED
  BY <1>1, <1>2, <1>3 DEF TakeSucceeds, RefilledTokens

\* A step with history is a step of the limiter.
LEMMA HStepIsStep == [HNext]_hvars => [Next]_vars
BY Zenon DEF HNext, HCheck, Next, Check, hvars

\* A behaviour with history is a behaviour of the limiter.
LEMMA HSpecIsSpec == HSpec => Spec
<1>1. HInit => Init
  BY Zenon DEF HInit
<1> QED
  BY <1>1, HStepIsStep, PTL DEF HSpec, Spec

\* The history variables keep their types.
HistoryType ==
  /\ admitted \in [Clients -> Nat]
  /\ spent \in Nat
  /\ rewound \in Nat
  /\ forced \in Nat

\* Every step keeps those types.
LEMMA HistoryTypeStep ==
  ASSUME TypeOK, HistoryType, [HNext]_hvars
  PROVE  HistoryType'
<1>1. CASE UNCHANGED history
  BY <1>1, Zenon DEF history, HistoryType
<1>2. ASSUME NEW l \in Loops, HCheck(l)
      PROVE  HistoryType'
  <2>1. pending[l] # NoRequest
    BY <1>2, Zenon DEF HCheck, CheckLimitedGlobal, CheckKnownAllowed,
       CheckLimitedPerClient, CheckTableFull, CheckNewAllowed, PassesGlobal
  <2>2. pending[l].source \in Clients /\ pending[l].now \in Nat
    BY <2>1, PendingType, Zenon
  <2>3. admitted' \in [Clients -> Nat]
    BY <1>2, <2>2 DEF HCheck, Admit, HistoryType
  <2>4. SaturatingSince(global.last_refill, pending[l].now) \in Nat
    BY <2>2, SaturatingSinceType, Zenon DEF TypeOK, Bucket
  <2>5. spent' \in Nat /\ rewound' \in Nat
    BY <1>2, <2>4 DEF HCheck, NoteGlobal, HistoryType
  <2>6. forced' \in Nat
    BY <1>2 DEF HCheck, NoteScan, HistoryType
  <2> QED
    BY <2>3, <2>5, <2>6, Zenon DEF HistoryType
<1> QED
  BY <1>1, <1>2, Zenon DEF HNext, hvars

-----------------------------------------------------------------------------
\* Forced scans are at least a second apart on the clock readings they carry, the
\* latest of which is last_forced_sweep.
ScanAccount == forced * Second <= last_forced_sweep /\ last_forced_sweep <= mono

\* Every step keeps the count of scans within the time that passed.
LEMMA ScanAccountStep ==
  ASSUME IInv, HistoryType, ScanAccount, [HNext]_hvars
  PROVE  ScanAccount'
<1> USE DEF IInv
<1>0. Second \in Nat /\ forced \in Nat /\ last_forced_sweep \in Nat /\ mono \in Nat
  BY TokenBucketAssumption DEF Second, HistoryType, TypeOK
<1>1. ASSUME NEW l \in Loops, NoteForcedSweep(pending[l].now), NoteScan(pending[l].now),
             pending[l] # NoRequest, UNCHANGED mono
      PROVE  ScanAccount'
  <2> DEFINE now == pending[l].now
  <2>1. now \in Nat /\ now <= mono
    BY <1>1, PendingType, Zenon DEF ReadingsArePast
  <2>2. CASE ForcesSweep(now)
    <3>1. last_forced_sweep' = now /\ forced' = forced + 1
      BY <1>0, <1>1, <2>2, Zenon DEF NoteForcedSweep, NoteScan
    <3>2. Second + last_forced_sweep <= now
      BY <1>0, <2>1, <2>2, TokenBucketAssumption
      DEF ForcesSweep, ForcedSweepDue, SaturatingSince, Second
    <3>3. (forced + 1) * Second = forced * Second + Second
      BY <1>0
    <3> QED
      BY <1>0, <1>1, <2>1, <3>1, <3>2, <3>3 DEF ScanAccount
  <2>3. CASE ~ForcesSweep(now)
    BY <1>0, <1>1, <2>3 DEF NoteForcedSweep, NoteScan, ScanAccount
  <2> QED
    BY <2>2, <2>3, Zenon
<1>2. ASSUME UNCHANGED <<forced, last_forced_sweep>>, mono' = mono \/ mono' = mono + 1
      PROVE  ScanAccount'
  BY <1>0, <1>2 DEF ScanAccount
<1> QED
  BY <1>1, <1>2, Zenon DEF HNext, HCheck, history, hvars, vars, Tick, StartCheck, StartSweep, Sweep,
     CheckLimitedGlobal, CheckKnownAllowed, CheckLimitedPerClient,
     CheckTableFull, CheckNewAllowed, PassesGlobal

-----------------------------------------------------------------------------
\* The books of the global bucket.
GlobalAccount ==
  /\ spent * Second + NanosPerMicro * global.micro_tokens
       <= global_burst * Second
          + global_requests_per_second * (global.last_refill + rewound)
  /\ global.last_refill <= mono

\* Every step keeps the books of the global bucket.
LEMMA GlobalAccountStep ==
  ASSUME IInv, HistoryType, GlobalAccount, [HNext]_hvars
  PROVE  GlobalAccount'
<1> USE DEF IInv
<1>0. /\ Second \in Nat /\ spent \in Nat /\ rewound \in Nat /\ mono \in Nat
      /\ global \in Bucket /\ global.micro_tokens \in Nat /\ global.last_refill \in Nat
      /\ global_burst \in Nat /\ global_requests_per_second \in Nat
  BY TokenBucketAssumption, RateLimiterAssumption DEF Second, HistoryType, TypeOK, Bucket
<1>1. ASSUME NEW l \in Loops, ChargeGlobal(pending[l].now), NoteGlobal(pending[l].now),
             pending[l] # NoRequest, UNCHANGED mono
      PROVE  GlobalAccount'
  <2> DEFINE now == pending[l].now
             rate == global_requests_per_second
             e == SaturatingSince(now, global.last_refill)
             back == SaturatingSince(global.last_refill, now)
             after == AfterTake(global, rate, global_burst, now)
             cost == IF GlobalTakes(now) THEN Second ELSE 0
  <2>1. now \in Nat /\ now <= mono
    BY <1>1, PendingType, Zenon DEF ReadingsArePast
  <2>2. CASE rate = 0
    BY <1>1, <2>2 DEF ChargeGlobal, NoteGlobal, GlobalAccount
  <2>3. CASE rate > 0
    <3>1. global' = after /\ after.last_refill = now /\ after.micro_tokens \in Nat
      <4>1. global' = after
        BY <1>1, <2>3, Zenon DEF ChargeGlobal
      <4> HIDE DEF now
      <4>2. after \in Bucket /\ after.last_refill = now
        <5>1. global \in Bucket /\ rate \in Nat /\ global_burst \in Nat /\ now \in Nat
          BY <1>0, <2>1, Zenon
        <5> QED
          BY ONLY <5>1, AfterTakeType, Zenon
      <4> QED
        BY <4>1, <4>2, Zenon DEF Bucket
    <3>2. rewound' = rewound + back /\ spent' = spent + (IF GlobalTakes(now) THEN 1 ELSE 0)
      BY <1>1, <2>3, Zenon DEF NoteGlobal
    <3>3. e \in Nat /\ back \in Nat /\ now + back = global.last_refill + e
      BY <1>0, <2>1 DEF SaturatingSince
    <3>4. NanosPerMicro * after.micro_tokens + cost
            <= NanosPerMicro * global.micro_tokens + rate * e
      BY <1>0, <2>1, TakeAccount, Zenon DEF GlobalTakes
    <3>5. cost \in Nat /\ spent' * Second = spent * Second + cost
      BY <1>0, <3>2
    <3> HIDE DEF e, back, after, cost, now
    <3>6. now + rewound' = global.last_refill + rewound + e
      BY <1>0, <2>1, <3>2, <3>3
    <3>7. rate * (now + rewound') = rate * (global.last_refill + rewound) + rate * e
      BY <1>0, <2>1, <3>3, <3>6
    <3>8. /\ NanosPerMicro * after.micro_tokens \in Nat
          /\ NanosPerMicro * global.micro_tokens \in Nat
          /\ spent * Second \in Nat /\ global_burst * Second \in Nat
          /\ rate * e \in Nat /\ rate * (global.last_refill + rewound) \in Nat
      BY <1>0, <3>1, <3>3, TokenBucketAssumption
    <3>9. spent' * Second + NanosPerMicro * after.micro_tokens
            <= global_burst * Second + rate * (now + rewound')
      BY <3>4, <3>5, <3>7, <3>8 DEF GlobalAccount
    <3> QED
      BY <1>1, <2>1, <3>1, <3>9, Zenon DEF GlobalAccount
  <2> QED
    BY <1>0, <2>2, <2>3
<1>2. ASSUME UNCHANGED <<global, spent, rewound>>, mono' = mono \/ mono' = mono + 1
      PROVE  GlobalAccount'
  BY <1>0, <1>2 DEF GlobalAccount
<1> QED
  BY <1>1, <1>2, Zenon DEF HNext, HCheck, history, hvars, vars, Tick, StartCheck, StartSweep, Sweep,
     CheckLimitedGlobal, CheckKnownAllowed, CheckLimitedPerClient,
     CheckTableFull, CheckNewAllowed, PassesGlobal

-----------------------------------------------------------------------------
\* All of it together is inductive, for any number of loops.
HInv == IInv /\ HistoryType /\ ScanAccount /\ GlobalAccount

\* The invariant of the limiter with history.
THEOREM HInvariance == HSpec => []HInv
<1>1. HInit => HistoryType /\ ScanAccount /\ GlobalAccount
  <2> SUFFICES ASSUME HInit PROVE HistoryType /\ ScanAccount /\ GlobalAccount
    BY Zenon
  <2>1. Second \in Nat /\ NanosPerMicro * (global_burst * MICRO) = global_burst * Second
    BY TokenBucketAssumption, RateLimiterAssumption DEF Second
  <2>2. global_burst * Second \in Nat
    BY <2>1, RateLimiterAssumption
  <2>3. HistoryType /\ ScanAccount
    BY <2>1 DEF HInit, Init, HistoryType, ScanAccount
  <2>4. GlobalAccount
    BY <2>1, <2>2, RateLimiterAssumption DEF HInit, Init, GlobalAccount, NewBucket
  <2> QED
    BY <2>3, <2>4, Zenon
<1>2. IInv /\ HistoryType /\ ScanAccount /\ GlobalAccount /\ [HNext]_hvars
        => HistoryType' /\ ScanAccount' /\ GlobalAccount'
  BY HistoryTypeStep, ScanAccountStep, GlobalAccountStep, Zenon DEF IInv
<1>3. HSpec => []IInv
  BY HSpecIsSpec, Invariance, PTL
<1> QED
  BY <1>1, <1>2, <1>3, PTL DEF HSpec, HInv

\* At most one forced scan per second, over the whole life of the limiter.
THEOREM ForcedScansAreRare == HSpec => []ForcedScanBound
<1>1. HInv => ForcedScanBound
  <2> SUFFICES ASSUME HInv PROVE ForcedScanBound
    BY Zenon
  <2>1. Second \in Nat /\ forced \in Nat /\ last_forced_sweep \in Nat /\ mono \in Nat
    BY TokenBucketAssumption DEF HInv, IInv, Second, HistoryType, TypeOK
  <2>2. forced * Second \in Nat
    BY <2>1
  <2> QED
    BY <2>1, <2>2 DEF HInv, ScanAccount, ForcedScanBound
<1> QED
  BY <1>1, HInvariance, PTL

\* The global bucket enforces its rate up to the rewound time, for any number of
\* loops.
THEOREM GlobalRateIsBounded == HSpec => []GlobalRateBound
<1>1. HInv => GlobalRateBound
  <2> SUFFICES ASSUME HInv PROVE GlobalRateBound
    BY Zenon
  <2>1. /\ Second \in Nat /\ spent \in Nat /\ rewound \in Nat /\ mono \in Nat
        /\ global.micro_tokens \in Nat /\ global.last_refill \in Nat
        /\ global_burst \in Nat /\ global_requests_per_second \in Nat
    BY TokenBucketAssumption, RateLimiterAssumption
    DEF HInv, IInv, Second, HistoryType, TypeOK, Bucket
  <2>2. /\ spent * Second \in Nat /\ NanosPerMicro * global.micro_tokens \in Nat
        /\ global_burst * Second \in Nat
    BY <2>1, TokenBucketAssumption
  <2>3. global_requests_per_second * (global.last_refill + rewound)
          <= global_requests_per_second * (mono + rewound)
    BY <2>1 DEF HInv, GlobalAccount
  <2>4. /\ global_requests_per_second * (global.last_refill + rewound) \in Nat
        /\ global_requests_per_second * (mono + rewound) \in Nat
    BY <2>1
  <2> QED
    BY <2>2, <2>3, <2>4 DEF HInv, GlobalAccount, GlobalRateBound
<1> QED
  BY <1>1, HInvariance, PTL

-----------------------------------------------------------------------------
\* With one loop a waiting check carries the latest reading of all, and the clock has
\* run at most MaxDelay past it.
InOrder ==
  \A l \in Loops : pending[l] # NoRequest =>
    /\ mono <= pending[l].now + MaxDelay
    /\ global.last_refill <= pending[l].now
    /\ \A c \in DOMAIN clients : clients[c].bucket.last_refill <= pending[l].now

\* An entry's two times are one and the same.
EntryTimes ==
  \A c \in DOMAIN clients :
    /\ clients[c].last_seen = clients[c].bucket.last_refill
    /\ clients[c].last_seen <= mono

\* The books of a client: those of its bucket while it has one.  A client that was
\* forgotten has been idle for so long that it has earned a full bucket.
ClientAccount(c) ==
  IF c \in DOMAIN clients
  THEN admitted[c] * Second + NanosPerMicro * clients[c].bucket.micro_tokens
         <= burst * Second + requests_per_second * clients[c].bucket.last_refill
  ELSE \/ admitted[c] = 0
       \/ admitted[c] * Second + requests_per_second * MaxDelay
            <= requests_per_second * mono

ClientAccounts == \A c \in Clients : ClientAccount(c)

OneLoopInv == InOrder /\ EntryTimes /\ rewound = 0

\* An entry after a step is the one before it, or one that a check just touched.
LEMMA EntryStep ==
  ASSUME IInv, [HNext]_hvars, NEW c \in DOMAIN clients'
  PROVE  \/ c \in DOMAIN clients /\ clients'[c] = clients[c]
         \/ \E l \in Loops :
              /\ pending[l] # NoRequest
              /\ clients'[c].bucket.last_refill = pending[l].now
              /\ clients'[c].last_seen = pending[l].now
<1> USE DEF IInv
<1>1. ASSUME NEW l \in Loops, CheckKnownAllowed(l) \/ CheckLimitedPerClient(l)
      PROVE  \/ c \in DOMAIN clients /\ clients'[c] = clients[c]
             \/ /\ pending[l] # NoRequest
                /\ clients'[c].bucket.last_refill = pending[l].now
                /\ clients'[c].last_seen = pending[l].now
  BY <1>1 DEF CheckKnownAllowed, CheckLimitedPerClient, PassesGlobal, ClientAfterTake, AfterTake
<1>2. ASSUME NEW l \in Loops, CheckTableFull(l)
      PROVE  c \in DOMAIN clients /\ clients'[c] = clients[c]
  BY <1>2, KeptSubset, Zenon DEF CheckTableFull
<1>3. ASSUME NEW l \in Loops, CheckNewAllowed(l)
      PROVE  \/ c \in DOMAIN clients /\ clients'[c] = clients[c]
             \/ /\ pending[l] # NoRequest
                /\ clients'[c].bucket.last_refill = pending[l].now
                /\ clients'[c].last_seen = pending[l].now
  BY <1>3, KeptSubset, Zenon DEF CheckNewAllowed, PassesGlobal, FreshEntry, AfterTake
<1>4. CASE Sweep
  BY <1>4, KeptSubset, Zenon DEF Sweep
<1>5. CASE UNCHANGED clients
  BY <1>5, Zenon
<1> QED
  BY <1>1, <1>2, <1>3, <1>4, <1>5, Zenon
  DEF HNext, HCheck, hvars, vars, Tick, StartCheck, StartSweep, CheckLimitedGlobal

\* The times of the entries stay in step.
LEMMA EntryTimesStep ==
  ASSUME IInv, EntryTimes, [HNext]_hvars
  PROVE  EntryTimes'
<1>1. mono \in Nat /\ mono' \in Nat /\ mono <= mono'
  <2>1. mono' = mono \/ mono' = mono + 1
    BY Zenon DEF HNext, HCheck, hvars, vars, Tick, StartCheck, StartSweep, Sweep,
       CheckLimitedGlobal, CheckKnownAllowed, CheckLimitedPerClient, CheckTableFull,
       CheckNewAllowed, PassesGlobal
  <2> QED
    BY <2>1 DEF IInv, TypeOK
<1>2. SUFFICES ASSUME NEW c \in DOMAIN clients'
               PROVE  /\ clients'[c].last_seen = clients'[c].bucket.last_refill
                      /\ clients'[c].last_seen <= mono'
  BY Zenon DEF EntryTimes
<1>3. CASE c \in DOMAIN clients /\ clients'[c] = clients[c]
  <2>1. clients[c].last_seen \in Nat
    BY <1>3, Zenon DEF IInv, TypeOK, ClientEntry
  <2> QED
    BY <1>1, <1>3, <2>1 DEF EntryTimes
<1>4. ASSUME NEW l \in Loops, pending[l] # NoRequest,
             clients'[c].bucket.last_refill = pending[l].now,
             clients'[c].last_seen = pending[l].now
      PROVE  /\ clients'[c].last_seen = clients'[c].bucket.last_refill
             /\ clients'[c].last_seen <= mono'
  BY <1>1, <1>4, PendingType DEF IInv, ReadingsArePast
<1> QED
  BY <1>3, <1>4, EntryStep, Zenon

\* With one loop, readings are used in the order they were taken.
LEMMA InOrderStep ==
  ASSUME OneLoop, HInv, EntryTimes, InOrder, [HNext]_hvars
  PROVE  InOrder'
<1> USE DEF HInv, IInv
<1>0. mono \in Nat /\ global.last_refill \in Nat /\ MaxDelay \in Nat
  BY RateLimiterAssumption DEF TypeOK, Bucket
<1>1. CASE Tick
  <2> SUFFICES ASSUME NEW l \in Loops, pending[l] # NoRequest
               PROVE  mono + 1 <= pending[l].now + MaxDelay
    BY <1>1, Zenon DEF Tick, InOrder
  <2> QED
    BY <1>0, <1>1, PendingType DEF Tick
<1>2. ASSUME NEW l \in Loops, NEW c \in Clients, StartCheck(l, c)
      PROVE  InOrder'
  <2>1. \A k \in Loops : k = l
    BY Zenon DEF OneLoop
  <2>2. pending'[l].now = mono
    BY <1>2, Zenon DEF StartCheck, TypeOK
  <2>3. global.last_refill <= mono
    BY Zenon DEF GlobalAccount
  <2>4. \A d \in DOMAIN clients : clients[d].bucket.last_refill <= mono
    BY Zenon DEF EntryTimes
  <2> QED
    BY <1>0, <1>2, <2>1, <2>2, <2>3, <2>4 DEF StartCheck, InOrder
<1>3. ASSUME NEW l \in Loops, HCheck(l)
      PROVE  InOrder'
  <2>1. Returns(l)
    BY <1>3, Zenon DEF HCheck, CheckLimitedGlobal, CheckKnownAllowed,
       CheckLimitedPerClient, CheckTableFull, CheckNewAllowed, PassesGlobal
  <2>2. \A k \in Loops : pending'[k] = NoRequest
    BY <2>1, Zenon DEF Returns, OneLoop, TypeOK
  <2> QED
    BY <2>2, Zenon DEF InOrder
<1>4. CASE StartSweep
  BY <1>4, Zenon DEF StartSweep, InOrder
<1>5. CASE Sweep
  BY <1>5, KeptSubset, Zenon DEF Sweep, InOrder
<1>6. CASE UNCHANGED hvars
  BY <1>6, Zenon DEF hvars, vars, InOrder
<1> QED
  BY <1>1, <1>2, <1>3, <1>4, <1>5, <1>6, Zenon DEF HNext

\* With one loop last_refill of the global bucket never moves back.
LEMMA NoRewindStep ==
  ASSUME HInv, InOrder, rewound = 0, [HNext]_hvars
  PROVE  rewound' = 0
<1> USE DEF HInv, IInv
<1>1. ASSUME NEW l \in Loops, HCheck(l)
      PROVE  rewound' = 0
  <2>1. pending[l] # NoRequest
    BY <1>1, Zenon DEF HCheck, CheckLimitedGlobal, CheckKnownAllowed,
       CheckLimitedPerClient, CheckTableFull, CheckNewAllowed, PassesGlobal
  <2>2. SaturatingSince(global.last_refill, pending[l].now) = 0
    BY <2>1, PendingType DEF InOrder, SaturatingSince, TypeOK, Bucket
  <2> QED
    BY <1>1, <2>2 DEF HCheck, NoteGlobal
<1> QED
  BY <1>1, Zenon DEF HNext, hvars, history

\* The one-loop invariant is inductive.
LEMMA OneLoopInvStep ==
  ASSUME OneLoop, HInv, OneLoopInv, [HNext]_hvars
  PROVE  OneLoopInv'
BY EntryTimesStep, InOrderStep, NoRewindStep, Zenon DEF OneLoopInv, HInv

\* With one loop, the one-loop invariant holds throughout.
THEOREM OneLoopInvariance == ASSUME OneLoop PROVE HSpec => []OneLoopInv
<1>1. HInit => OneLoopInv
  BY Zenon DEF HInit, Init, OneLoopInv, InOrder, EntryTimes
<1>2. HInv /\ OneLoopInv /\ [HNext]_hvars => OneLoopInv'
  BY OneLoopInvStep, Zenon
<1> QED
  BY <1>1, <1>2, HInvariance, PTL DEF HSpec

\* With one receive loop the global bucket enforces exactly the configured rate.
THEOREM GlobalRateIsSustained == ASSUME OneLoop PROVE HSpec => []GlobalSustainedRate
<1>1. HInv /\ GlobalRateBound /\ OneLoopInv => GlobalSustainedRate
  BY DEF HInv, IInv, TypeOK, OneLoopInv, GlobalRateBound, GlobalSustainedRate
<1> QED
  BY <1>1, OneLoopInvariance, HInvariance, GlobalRateIsBounded, PTL

-----------------------------------------------------------------------------
\* The types the books of a client are about.
LEMMA ClientTypes ==
  ASSUME HInv, NEW c \in Clients
  PROVE  /\ Second \in Nat /\ mono \in Nat /\ admitted[c] \in Nat
         /\ burst \in Nat /\ requests_per_second \in Nat /\ MaxDelay \in Nat
         /\ client_entry_ttl \in Nat
         /\ c \in DOMAIN clients => /\ clients[c].bucket \in Bucket
                                   /\ clients[c].bucket.micro_tokens \in Nat
                                   /\ clients[c].bucket.last_refill \in Nat
                                   /\ clients[c].last_seen \in Nat
BY TokenBucketAssumption, RateLimiterAssumption
DEF HInv, IInv, HistoryType, TypeOK, ClientEntry, Bucket, Second

\* A client idle for the time to live has earned a full bucket.
LEMMA IdleEarnsBurst ==
  ASSUME HInv, OneLoopInv, EntriesOutliveRefill, NEW c \in Clients, c \in DOMAIN clients,
         ClientAccount(c), mono >= clients[c].last_seen + client_entry_ttl
  PROVE  admitted[c] * Second + requests_per_second * MaxDelay <= requests_per_second * mono
<1> DEFINE rate == requests_per_second
           seen == clients[c].last_seen
           wait == client_entry_ttl - MaxDelay
           left == NanosPerMicro * clients[c].bucket.micro_tokens
<1>1. /\ Second \in Nat /\ mono \in Nat /\ admitted[c] \in Nat /\ burst \in Nat
      /\ rate \in Nat /\ MaxDelay \in Nat /\ client_entry_ttl \in Nat /\ seen \in Nat
      /\ clients[c].bucket.micro_tokens \in Nat
  BY ClientTypes, Zenon
<1>2. wait \in Nat /\ burst * Second <= rate * wait
  BY <1>1 DEF EntriesOutliveRefill
<1>3. left \in Nat
  BY <1>1, TokenBucketAssumption
<1>4. admitted[c] * Second + left <= burst * Second + rate * seen
  BY Zenon DEF ClientAccount, OneLoopInv, EntryTimes
<1>5. seen + wait + MaxDelay <= mono
  BY <1>1, <1>2
<1> HIDE DEF wait, left, seen, rate
<1>6. rate * (seen + wait + MaxDelay) <= rate * mono
  BY <1>1, <1>2, <1>5
<1>7. rate * (seen + wait + MaxDelay) = rate * seen + rate * wait + rate * MaxDelay
  BY <1>1, <1>2
<1>8. /\ admitted[c] * Second \in Nat /\ burst * Second \in Nat /\ rate * seen \in Nat
      /\ rate * wait \in Nat /\ rate * MaxDelay \in Nat /\ rate * mono \in Nat
  BY <1>1, <1>2
<1>9. admitted[c] * Second + rate * MaxDelay <= rate * mono
  BY <1>2, <1>3, <1>4, <1>6, <1>7, <1>8
<1> QED
  BY <1>9, Zenon DEF rate

\* The account of a client that a step leaves alone stays in order.
LEMMA UntouchedAccount ==
  ASSUME HInv, NEW c \in Clients, ClientAccount(c), admitted'[c] = admitted[c],
         mono' = mono \/ mono' = mono + 1,
         \/ c \in DOMAIN clients /\ c \in DOMAIN clients' /\ clients'[c] = clients[c]
         \/ c \notin DOMAIN clients /\ c \notin DOMAIN clients'
  PROVE  ClientAccount(c)'
<1>1. /\ Second \in Nat /\ mono \in Nat /\ admitted[c] \in Nat
      /\ requests_per_second \in Nat /\ MaxDelay \in Nat
  BY ClientTypes, Zenon
<1>2. CASE c \in DOMAIN clients /\ c \in DOMAIN clients' /\ clients'[c] = clients[c]
  BY <1>2, Zenon DEF ClientAccount
<1>3. CASE c \notin DOMAIN clients /\ c \notin DOMAIN clients'
  <2>1. requests_per_second * mono <= requests_per_second * mono'
    BY <1>1
  <2>2. /\ requests_per_second * mono \in Nat /\ requests_per_second * mono' \in Nat
        /\ admitted[c] * Second + requests_per_second * MaxDelay \in Nat
    BY <1>1
  <2> QED
    BY <1>3, <2>1, <2>2 DEF ClientAccount
<1> QED
  BY <1>2, <1>3, Zenon

\* A check of a known client keeps that client's account.
LEMMA KnownAccount ==
  ASSUME HInv, OneLoopInv, NEW l \in Loops, pending[l] # NoRequest,
         NEW c \in Clients, c = pending[l].source, c \in DOMAIN clients, ClientAccount(c),
         c \in DOMAIN clients',
         clients'[c].bucket = ClientAfterTake(clients[c], pending[l].now),
         admitted'[c] = admitted[c] + (IF ClientTakes(clients[c], pending[l].now) THEN 1 ELSE 0)
  PROVE  ClientAccount(c)'
<1> DEFINE rate == requests_per_second
           b == clients[c].bucket
           now == pending[l].now
           after == AfterTake(b, rate, burst, now)
           cost == IF TakeSucceeds(b, rate, burst, now) THEN Second ELSE 0
           e == SaturatingSince(now, b.last_refill)
<1>1. /\ Second \in Nat /\ admitted[c] \in Nat /\ burst \in Nat /\ rate \in Nat
      /\ b \in Bucket /\ b.micro_tokens \in Nat /\ b.last_refill \in Nat
  BY ClientTypes, Zenon
<1>2. now \in Nat /\ b.last_refill <= now
  BY PendingType, Zenon DEF HInv, IInv, OneLoopInv, InOrder
<1>3. clients'[c].bucket = after
  BY Zenon DEF ClientAfterTake
<1>4. cost \in Nat /\ admitted'[c] * Second = admitted[c] * Second + cost
  BY <1>1 DEF ClientTakes
<1>5. admitted[c] * Second + NanosPerMicro * b.micro_tokens
        <= burst * Second + rate * b.last_refill
  BY Zenon DEF ClientAccount
<1> HIDE DEF now, b, rate
<1>6. after \in Bucket /\ after.last_refill = now
  <2>1. b \in Bucket /\ rate \in Nat /\ burst \in Nat /\ now \in Nat
    BY <1>1, <1>2, Zenon
  <2> QED
    BY ONLY <2>1, AfterTakeType, Zenon
<1>7. NanosPerMicro * after.micro_tokens + cost <= NanosPerMicro * b.micro_tokens + rate * e
  BY ONLY <1>1, <1>2, TakeAccount, Zenon
<1>8. e \in Nat /\ now = b.last_refill + e
  BY <1>1, <1>2 DEF SaturatingSince
<1>9. after.micro_tokens \in Nat
  BY <1>6, Zenon DEF Bucket
<1> HIDE DEF after, cost, e
<1>10. rate * now = rate * b.last_refill + rate * e
  BY <1>1, <1>8
<1>11. /\ NanosPerMicro * after.micro_tokens \in Nat /\ NanosPerMicro * b.micro_tokens \in Nat
       /\ admitted[c] * Second \in Nat /\ burst * Second \in Nat
       /\ rate * b.last_refill \in Nat /\ rate * e \in Nat
  BY <1>1, <1>8, <1>9, TokenBucketAssumption
<1>12. admitted'[c] * Second + NanosPerMicro * after.micro_tokens <= burst * Second + rate * now
  BY <1>4, <1>5, <1>7, <1>10, <1>11
<1> QED
  BY <1>3, <1>6, <1>12, Zenon DEF ClientAccount, rate

\* The first request of a new or forgotten client opens an account in order.
LEMMA NewAccount ==
  ASSUME HInv, OneLoopInv, NEW l \in Loops, pending[l] # NoRequest, enabled,
         NEW c \in Clients, c \notin DOMAIN clients, ClientAccount(c),
         c \in DOMAIN clients', clients'[c] = FreshEntry(pending[l].now),
         admitted'[c] = admitted[c] + 1
  PROVE  ClientAccount(c)'
<1> DEFINE rate == requests_per_second
           now == pending[l].now
           b == NewBucket(burst, now)
           after == AfterTake(b, rate, burst, now)
<1>1. /\ Second \in Nat /\ mono \in Nat /\ admitted[c] \in Nat /\ burst \in Nat
      /\ rate \in Nat /\ MaxDelay \in Nat
  BY ClientTypes, Zenon
<1>2. now \in Nat /\ mono <= now + MaxDelay
  BY PendingType, Zenon DEF HInv, IInv, OneLoopInv, InOrder
<1>3. clients'[c].bucket = after
  BY DEF FreshEntry
<1>4. \/ admitted[c] = 0
      \/ admitted[c] * Second + rate * MaxDelay <= rate * mono
  BY Zenon DEF ClientAccount
<1>5. TakeSucceeds(b, rate, burst, now)
  BY <1>2, FreshBucketHasToken, Zenon
<1> HIDE DEF now, rate
<1>6. b \in Bucket /\ b.last_refill = now /\ b.micro_tokens = burst * MICRO
  BY ONLY <1>1, <1>2, NewBucketType, Zenon DEF NewBucket
<1> HIDE DEF b
<1>7. after \in Bucket /\ after.last_refill = now
  <2>1. b \in Bucket /\ rate \in Nat /\ burst \in Nat /\ now \in Nat
    BY <1>1, <1>2, <1>6, Zenon
  <2> QED
    BY ONLY <2>1, AfterTakeType, Zenon
<1>8. SaturatingSince(now, b.last_refill) = 0
  BY <1>2, <1>6 DEF SaturatingSince
<1>9. NanosPerMicro * after.micro_tokens + Second <= NanosPerMicro * (burst * MICRO) + rate * 0
  BY ONLY <1>1, <1>2, <1>5, <1>6, <1>8, TakeAccount, Zenon
<1>10. NanosPerMicro * (burst * MICRO) = burst * Second /\ rate * 0 = 0
  BY <1>1, TokenBucketAssumption DEF Second
<1>11. after.micro_tokens \in Nat
  BY <1>7, Zenon DEF Bucket
<1> HIDE DEF after
<1>12. admitted[c] * Second <= rate * now
  <2>1. CASE admitted[c] = 0
    <3>1. admitted[c] * Second = 0 /\ rate * now \in Nat
      BY <1>1, <1>2, <2>1
    <3> QED
      BY <3>1
  <2>2. CASE admitted[c] * Second + rate * MaxDelay <= rate * mono
    <3>1. rate * mono <= rate * (now + MaxDelay)
      BY <1>1, <1>2
    <3>2. rate * (now + MaxDelay) = rate * now + rate * MaxDelay
      BY <1>1, <1>2
    <3>3. /\ admitted[c] * Second \in Nat /\ rate * MaxDelay \in Nat
          /\ rate * mono \in Nat /\ rate * now \in Nat
      BY <1>1, <1>2
    <3> QED
      BY <2>2, <3>1, <3>2, <3>3
  <2> QED
    BY <1>4, <2>1, <2>2, Zenon
<1>13. (admitted[c] + 1) * Second = admitted[c] * Second + Second
  BY <1>1
<1>14. /\ admitted[c] * Second \in Nat /\ burst * Second \in Nat /\ rate * now \in Nat
       /\ NanosPerMicro * after.micro_tokens \in Nat
  BY <1>1, <1>2, <1>11, TokenBucketAssumption
<1>15. admitted'[c] * Second + NanosPerMicro * after.micro_tokens <= burst * Second + rate * now
  BY <1>1, <1>9, <1>10, <1>12, <1>13, <1>14
<1> QED
  BY <1>3, <1>7, <1>15, Zenon DEF ClientAccount, rate

\* Every step keeps every client's account.
LEMMA ClientAccountsStep ==
  ASSUME enabled, EntriesOutliveRefill, HInv, OneLoopInv, ClientAccounts, [HNext]_hvars
  PROVE  ClientAccounts'
<1> SUFFICES ASSUME NEW c \in Clients
             PROVE  ClientAccount(c)'
  BY Zenon DEF ClientAccounts
<1>0. ClientAccount(c) /\ admitted \in [Clients -> Nat]
  BY Zenon DEF ClientAccounts, HInv, HistoryType
<1>1. ASSUME c \in DOMAIN clients, c \notin DOMAIN clients',
             admitted'[c] = admitted[c], mono' = mono,
             mono >= clients[c].last_seen + client_entry_ttl
      PROVE  ClientAccount(c)'
  BY <1>0, <1>1, IdleEarnsBurst, Zenon DEF ClientAccount
<1>2. ASSUME NEW l \in Loops, CheckKnownAllowed(l), Admit(pending[l].source)
      PROVE  ClientAccount(c)'
  <2>1. /\ pending[l] # NoRequest /\ pending[l].source \in Clients
        /\ pending[l].source \in DOMAIN clients
        /\ ClientTakes(clients[pending[l].source], pending[l].now)
        /\ DOMAIN clients' = DOMAIN clients /\ mono' = mono
    BY <1>2, PendingType, Zenon DEF CheckKnownAllowed, PassesGlobal, HInv, IInv
  <2>2. CASE c = pending[l].source
    <3>1. clients'[c].bucket = ClientAfterTake(clients[c], pending[l].now)
      BY <1>2, <2>1, <2>2, Zenon DEF CheckKnownAllowed
    <3>2. admitted'[c] = admitted[c] + 1
      BY <1>0, <1>2, <2>2, Zenon DEF Admit
    <3> QED
      BY <1>0, <2>1, <2>2, <3>1, <3>2, KnownAccount, Zenon
  <2>3. CASE c # pending[l].source
    <3>1. c \in DOMAIN clients => clients'[c] = clients[c]
      BY <1>2, <2>3, Zenon DEF CheckKnownAllowed
    <3>2. admitted'[c] = admitted[c]
      BY <1>0, <1>2, <2>3, Zenon DEF Admit
    <3> QED
      BY <1>0, <2>1, <3>1, <3>2, UntouchedAccount, Zenon
  <2> QED
    BY <2>2, <2>3, Zenon
<1>3. ASSUME NEW l \in Loops, CheckLimitedPerClient(l), UNCHANGED admitted
      PROVE  ClientAccount(c)'
  <2>1. /\ pending[l] # NoRequest /\ pending[l].source \in Clients
        /\ pending[l].source \in DOMAIN clients
        /\ ~ClientTakes(clients[pending[l].source], pending[l].now)
        /\ DOMAIN clients' = DOMAIN clients /\ mono' = mono
    BY <1>3, PendingType, Zenon DEF CheckLimitedPerClient, PassesGlobal, HInv, IInv
  <2>2. CASE c = pending[l].source
    <3>1. clients'[c].bucket = ClientAfterTake(clients[c], pending[l].now)
      BY <1>3, <2>1, <2>2, Zenon DEF CheckLimitedPerClient
    <3>2. admitted'[c] = admitted[c] + 0
      BY <1>0, <1>3
    <3> QED
      BY <1>0, <2>1, <2>2, <3>1, <3>2, KnownAccount, Zenon
  <2>3. CASE c # pending[l].source
    <3>1. c \in DOMAIN clients => clients'[c] = clients[c]
      BY <1>3, <2>3, Zenon DEF CheckLimitedPerClient
    <3> QED
      BY <1>0, <1>3, <2>1, <3>1, UntouchedAccount, Zenon
  <2> QED
    BY <2>2, <2>3, Zenon
<1>4. ASSUME NEW now \in Nat, now <= mono, c \in DOMAIN clients, c \notin DOMAIN clients',
             c \notin Retained(now), admitted'[c] = admitted[c], mono' = mono
      PROVE  ClientAccount(c)'
  <2>1. Expired(c, now)
    BY <1>4, Zenon DEF Retained
  <2>2. mono >= clients[c].last_seen + client_entry_ttl
    BY <1>4, <2>1, ExpiredIsIdle, Zenon DEF HInv, IInv
  <2> QED
    BY <1>1, <1>4, <2>2, Zenon
<1>5. ASSUME NEW l \in Loops, CheckTableFull(l), UNCHANGED admitted
      PROVE  ClientAccount(c)'
  <2> DEFINE now == pending[l].now
  <2>1. /\ pending[l] # NoRequest /\ mono' = mono
        /\ clients' = [d \in KeptForNew(now) |-> clients[d]]
    BY <1>5, Zenon DEF CheckTableFull, PassesGlobal
  <2>2. now \in Nat /\ now <= mono
    BY <2>1, PendingType, Zenon DEF HInv, IInv, ReadingsArePast
  <2>3. CASE c \in DOMAIN clients /\ c \notin KeptForNew(now)
    BY <1>4, <1>5, <2>1, <2>2, <2>3, Zenon DEF KeptForNew
  <2>4. CASE c \notin DOMAIN clients \/ c \in KeptForNew(now)
    BY <1>0, <1>5, <2>1, <2>4, KeptSubset, UntouchedAccount, Zenon
  <2> QED
    BY <2>3, <2>4, Zenon
<1>6. ASSUME NEW l \in Loops, CheckNewAllowed(l), Admit(pending[l].source)
      PROVE  ClientAccount(c)'
  <2> DEFINE now == pending[l].now
             src == pending[l].source
  <2>1. /\ pending[l] # NoRequest /\ mono' = mono /\ src \notin DOMAIN clients
        /\ clients' = [d \in KeptForNew(now) \cup {src} |->
                         IF d = src THEN FreshEntry(now) ELSE clients[d]]
    BY <1>6, Zenon DEF CheckNewAllowed, PassesGlobal
  <2>2. now \in Nat /\ now <= mono
    BY <2>1, PendingType, Zenon DEF HInv, IInv, ReadingsArePast
  <2>3. CASE c = src
    <3>1. admitted'[c] = admitted[c] + 1
      BY <1>0, <1>6, <2>3, Zenon DEF Admit
    <3> QED
      BY <1>0, <2>1, <2>3, <3>1, NewAccount, Zenon
  <2>4. CASE c # src
    <3>1. admitted'[c] = admitted[c]
      BY <1>0, <1>6, <2>4, Zenon DEF Admit
    <3>2. CASE c \in DOMAIN clients /\ c \notin KeptForNew(now)
      BY <1>4, <2>1, <2>2, <2>4, <3>1, <3>2, Zenon DEF KeptForNew
    <3>3. CASE c \notin DOMAIN clients \/ c \in KeptForNew(now)
      BY <1>0, <2>1, <2>4, <3>1, <3>3, KeptSubset, UntouchedAccount, Zenon
    <3> QED
      BY <3>2, <3>3, Zenon
  <2> QED
    BY <2>3, <2>4, Zenon
<1>7. ASSUME Sweep, UNCHANGED history
      PROVE  ClientAccount(c)'
  <2>1. /\ sweep_now \in Nat /\ sweep_now <= mono /\ mono' = mono
        /\ clients' = [d \in Retained(sweep_now) |-> clients[d]]
        /\ admitted' = admitted
    BY <1>7, Zenon DEF Sweep, history, HInv, IInv, TypeOK, ReadingsArePast
  <2>2. CASE c \in DOMAIN clients /\ c \notin Retained(sweep_now)
    BY <1>4, <2>1, <2>2, Zenon
  <2>3. CASE c \notin DOMAIN clients \/ c \in Retained(sweep_now)
    BY <1>0, <2>1, <2>3, KeptSubset, UntouchedAccount, Zenon
  <2> QED
    BY <2>2, <2>3, Zenon
<1>8. ASSUME UNCHANGED <<clients, admitted>>, mono' = mono \/ mono' = mono + 1
      PROVE  ClientAccount(c)'
  BY <1>0, <1>8, UntouchedAccount, Zenon
<1> QED
  BY <1>2, <1>3, <1>5, <1>6, <1>7, <1>8, Zenon
  DEF HNext, HCheck, history, hvars, vars, Tick, StartCheck, StartSweep,
      CheckLimitedGlobal

\* With one receive loop, and entries that outlive the refill of their bucket, every
\* client is held to its burst plus its sustained rate, across evictions.
THEOREM ClientRateIsSustained == ASSUME OneLoop PROVE HSpec => []ClientSustainedRate
<1> DEFINE Accounts == EntriesOutliveRefill => ClientAccounts
<1>1. HInit => Accounts
  BY Zenon DEF HInit, Init, ClientAccounts, ClientAccount
<1>2. HInv /\ OneLoopInv /\ Accounts /\ [HNext]_hvars => Accounts'
  BY ClientAccountsStep, RateHistoryAssumption, Zenon DEF EntriesOutliveRefill
<1>3. HInv /\ OneLoopInv /\ Accounts => ClientSustainedRate
  <2> SUFFICES ASSUME HInv, OneLoopInv, ClientAccounts, NEW c \in Clients
               PROVE  admitted[c] * Second <= burst * Second + requests_per_second * mono
    BY Zenon DEF ClientSustainedRate
  <2>1. /\ admitted[c] * Second \in Nat /\ burst * Second \in Nat
        /\ requests_per_second * mono \in Nat /\ requests_per_second * MaxDelay \in Nat
    BY ClientTypes
  <2>2. CASE c \in DOMAIN clients
    <3> DEFINE b == clients[c].bucket
    <3>1. /\ b.last_refill \in Nat /\ mono \in Nat /\ requests_per_second \in Nat
          /\ b.micro_tokens \in Nat
      BY <2>2, ClientTypes, Zenon
    <3>2. b.last_refill <= mono
      BY <2>2, Zenon DEF OneLoopInv, EntryTimes
    <3>3. admitted[c] * Second + NanosPerMicro * b.micro_tokens
            <= burst * Second + requests_per_second * b.last_refill
      BY <2>2, Zenon DEF ClientAccounts, ClientAccount
    <3> HIDE DEF b
    <3>4. requests_per_second * b.last_refill <= requests_per_second * mono
      BY <3>1, <3>2
    <3>5. NanosPerMicro * b.micro_tokens \in Nat /\ requests_per_second * b.last_refill \in Nat
      BY <3>1, TokenBucketAssumption
    <3> QED
      BY <2>1, <3>3, <3>4, <3>5
  <2>3. CASE c \notin DOMAIN clients
    <3>1. \/ admitted[c] = 0
          \/ admitted[c] * Second + requests_per_second * MaxDelay
               <= requests_per_second * mono
      BY <2>3, Zenon DEF ClientAccounts, ClientAccount
    <3>2. admitted[c] = 0 => admitted[c] * Second = 0
      BY ClientTypes
    <3> QED
      BY <2>1, <3>1, <3>2
  <2> QED
    BY <2>2, <2>3, Zenon
<1> QED
  BY <1>1, <1>2, <1>3, HInvariance, OneLoopInvariance, PTL DEF HSpec

-----------------------------------------------------------------------------

\* A remainder is determined by one decomposition.
LEMMA ModUnique ==
  ASSUME NEW k \in Nat \ {0}, NEW q \in Nat, NEW r \in Nat, r < k
  PROVE  (k * q + r) % k = r
<1> DEFINE a == k * q + r
           p == a \div k
           s == a % k
<1>1. a \in Nat
  OBVIOUS
<1> HIDE DEF a
<1>2. p \in Nat /\ s \in Nat /\ s < k /\ a = k * p + s
  BY <1>1
<1>3. k * q + r = k * p + s
  BY <1>2, Zenon DEF a
<1> HIDE DEF p, s
<1>4. CASE p = q
  <2>1. k * q \in Nat
    OBVIOUS
  <2>2. r = s
    BY <1>2, <1>3, <1>4, <2>1
  <2> QED
    BY <2>2, Zenon DEF s, a
<1>5. CASE p > q
  <2>1. PICK d \in Nat : p = q + 1 + d
    <3>1. p - q - 1 \in Nat /\ p = q + 1 + (p - q - 1)
      BY <1>2, <1>5
    <3> QED
      BY <3>1, Zenon
  <2>2. k * p = k * q + k + k * d
    BY <2>1
  <2>3. k * q \in Nat /\ k * d \in Nat
    BY <2>1
  <2> QED
    BY <1>2, <1>3, <2>2, <2>3
<1>6. CASE p < q
  <2>1. PICK d \in Nat : q = p + 1 + d
    <3>1. q - p - 1 \in Nat /\ q = p + 1 + (q - p - 1)
      BY <1>2, <1>6
    <3> QED
      BY <3>1, Zenon
  <2>2. k * q = k * p + k + k * d
    BY <1>2, <2>1
  <2>3. k * p \in Nat /\ k * d \in Nat
    BY <1>2, <2>1
  <2> QED
    BY <1>2, <1>3, <2>2, <2>3
<1> QED
  BY <1>2, <1>4, <1>5, <1>6

\* How a remainder moves when the number grows by one.
LEMMA ModSucc ==
  ASSUME NEW k \in Nat \ {0}, NEW a \in Nat
  PROVE  (a + 1) % k = IF (a % k) + 1 = k THEN 0 ELSE (a % k) + 1
<1> DEFINE q == a \div k
           r == a % k
<1>1. q \in Nat /\ r \in Nat /\ r < k /\ a = k * q + r
  OBVIOUS
<1> HIDE DEF q, r
<1>2. CASE r + 1 = k
  <2>1. a + 1 = k * (q + 1) + 0
    BY <1>1, <1>2
  <2>2. (k * (q + 1) + 0) % k = 0
    BY <1>1, ModUnique
  <2> QED
    BY <1>2, <2>1, <2>2, Zenon DEF r
<1>3. CASE r + 1 # k
  <2>1. r + 1 \in Nat /\ r + 1 < k
    BY <1>1, <1>3
  <2>2. a + 1 = k * q + (r + 1)
    BY <1>1
  <2>3. (k * q + (r + 1)) % k = r + 1
    BY <1>1, <2>1, ModUnique, Zenon
  <2> QED
    BY <1>3, <2>2, <2>3, Zenon DEF r
<1> QED
  BY <1>2, <1>3, Zenon

\* limited_count walks round the interval even where it wraps.
LEMMA CountPhase ==
  ASSUME NEW n \in 0 .. U32 - 1
  PROVE  ((n + 1) % U32) % KOD_INTERVAL =
           IF (n % KOD_INTERVAL) + 1 = KOD_INTERVAL THEN 0 ELSE (n % KOD_INTERVAL) + 1
<1>1. n \in Nat /\ U32 \in Nat \ {0} /\ KOD_INTERVAL \in Nat \ {0} /\ U32 % KOD_INTERVAL = 0
  BY RateLimiterAssumption
<1>2. (n + 1) % KOD_INTERVAL =
        IF (n % KOD_INTERVAL) + 1 = KOD_INTERVAL THEN 0 ELSE (n % KOD_INTERVAL) + 1
  <2>1. n \in Nat /\ KOD_INTERVAL \in Nat \ {0}
    BY <1>1, Zenon
  <2> QED
    BY ONLY <2>1, ModSucc, Zenon
<1>3. CASE n + 1 < U32
  <2>1. (n + 1) % U32 = n + 1
    BY <1>1, <1>3
  <2> QED
    BY <1>2, <2>1, Zenon
<1>4. CASE n + 1 = U32
  <2>1. (n + 1) % U32 = 0 /\ 0 % KOD_INTERVAL = 0
    BY <1>1, <1>4
  <2>2. (n + 1) % KOD_INTERVAL = 0
    BY <1>1, <1>4, Zenon
  <2>3. n % KOD_INTERVAL \in Nat
    BY <1>1
  <2>4. (n % KOD_INTERVAL) + 1 = KOD_INTERVAL
    BY <1>2, <2>2, <2>3
  <2> QED
    BY <2>1, <2>4, Zenon
<1> QED
  BY <1>1, <1>3, <1>4

-----------------------------------------------------------------------------
\* A step with history is a step of the limiter.
LEMMA KStepIsStep == [KNext]_kvars => [Next]_vars
BY Zenon DEF KNext, KCheck, Next, Check, kvars

\* A behaviour with history is a behaviour of the limiter.
LEMMA KSpecIsSpec == KSpec => Spec
<1>1. KInit => Init
  BY Zenon DEF KInit
<1> QED
  BY <1>1, KStepIsStep, PTL DEF KSpec, Spec

\* The history variables keep their types.
KHistoryType ==
  /\ allowed \in [Clients -> Nat]
  /\ limited \in [Clients -> Nat]
  /\ kods \in [Clients -> Nat]

\* Every step keeps those types.
LEMMA KHistoryTypeStep ==
  ASSUME TypeOK, KHistoryType, [KNext]_kvars
  PROVE  KHistoryType'
<1>1. CASE UNCHANGED khistory
  BY <1>1, Zenon DEF khistory, KHistoryType
<1>2. ASSUME NEW l \in Loops, KCheck(l)
      PROVE  KHistoryType'
  <2>0. pending[l].source \in Clients
    <3>1. pending[l] # NoRequest
      BY <1>2, Zenon DEF KCheck, CheckLimitedGlobal, CheckKnownAllowed,
         CheckLimitedPerClient, CheckTableFull, CheckNewAllowed, PassesGlobal
    <3> QED
      BY <3>1, PendingType, Zenon
  <2>1. CASE NoteAllowed(pending[l].source)
    BY <2>0, <2>1 DEF NoteAllowed, KHistoryType
  <2>2. CASE NoteLimited(pending[l].source, SendKod(l))
    <3>1. (IF SendKod(l) THEN 1 ELSE 0) \in Nat
      BY Zenon
    <3> QED
      BY <2>0, <2>2, <3>1 DEF NoteLimited, KHistoryType
  <2> QED
    BY <1>1, <1>2, <2>1, <2>2, Zenon DEF KCheck
<1> QED
  BY <1>1, <1>2, Zenon DEF KNext, kvars

\* How many more limited requests the client's latest Kiss-o'-Death has to cover.
Covers(n) == IF n % KOD_INTERVAL = 0 THEN 0 ELSE KOD_INTERVAL - (n % KOD_INTERVAL)

\* The books of a client: the Allowed that opened the current run of limited requests
\* is held back until the first Kiss-o'-Death of the run uses it.
KodAccount(c) ==
  IF c \in DOMAIN clients
  THEN /\ allowed[c] >= 1
       /\ KOD_INTERVAL * kods[c]
            <= limited[c] + (KOD_INTERVAL - 1) * (allowed[c] - 1)
               + Covers(clients[c].limited_count)
  ELSE KOD_INTERVAL * kods[c] <= limited[c] + (KOD_INTERVAL - 1) * allowed[c]

KInv == KHistoryType /\ \A c \in Clients : KodAccount(c)

\* The types the books are about.
LEMMA KodTypes ==
  ASSUME TypeOK, KHistoryType, NEW c \in Clients
  PROVE  /\ allowed[c] \in Nat /\ limited[c] \in Nat /\ kods[c] \in Nat
         /\ KOD_INTERVAL \in Nat \ {0}
         /\ KOD_INTERVAL * kods[c] \in Nat
         /\ (KOD_INTERVAL - 1) * allowed[c] \in Nat
         /\ c \in DOMAIN clients => /\ clients[c].limited_count \in 0 .. U32 - 1
                                   /\ clients[c].limited_count \in Nat
BY RateLimiterAssumption DEF TypeOK, ClientEntry, KHistoryType

\* What a Kiss-o'-Death still covers is less than the interval.
LEMMA CoversBound ==
  ASSUME NEW n \in Nat
  PROVE  Covers(n) \in Nat /\ Covers(n) <= KOD_INTERVAL - 1
<1>1. n % KOD_INTERVAL \in Nat /\ n % KOD_INTERVAL < KOD_INTERVAL
  BY RateLimiterAssumption
<1> QED
  BY <1>1, RateLimiterAssumption DEF Covers

\* An account in order is within the throttle.
LEMMA AccountThrottles ==
  ASSUME TypeOK, KHistoryType, NEW c \in Clients, KodAccount(c)
  PROVE  KOD_INTERVAL * kods[c] <= limited[c] + (KOD_INTERVAL - 1) * allowed[c]
<1>1. /\ allowed[c] \in Nat /\ limited[c] \in Nat /\ KOD_INTERVAL \in Nat \ {0}
      /\ KOD_INTERVAL * kods[c] \in Nat
  BY KodTypes, Zenon
<1>2. CASE c \in DOMAIN clients
  <2> DEFINE n == clients[c].limited_count
  <2>1. n \in Nat
    BY <1>2, KodTypes, Zenon
  <2> HIDE DEF n
  <2>2. Covers(n) \in Nat /\ Covers(n) <= KOD_INTERVAL - 1
    BY <2>1, CoversBound, Zenon
  <2>3. (KOD_INTERVAL - 1) * allowed[c]
          = (KOD_INTERVAL - 1) * (allowed[c] - 1) + (KOD_INTERVAL - 1)
    BY <1>1
  <2>4. (KOD_INTERVAL - 1) * (allowed[c] - 1) \in Int
    BY <1>1
  <2>5. KOD_INTERVAL * kods[c]
          <= limited[c] + (KOD_INTERVAL - 1) * (allowed[c] - 1) + Covers(n)
    BY <1>2, Zenon DEF KodAccount, n
  <2> QED
    BY <1>1, <2>2, <2>3, <2>4, <2>5
<1>3. CASE c \notin DOMAIN clients
  BY <1>3, Zenon DEF KodAccount
<1> QED
  BY <1>2, <1>3, Zenon

\* A request let through closes the run of limited ones.
LEMMA AllowedAccount ==
  ASSUME TypeOK, KHistoryType, NEW c \in Clients, KodAccount(c),
         c \in DOMAIN clients', clients'[c].limited_count = 0,
         allowed'[c] = allowed[c] + 1, limited'[c] = limited[c], kods'[c] = kods[c]
  PROVE  KodAccount(c)'
<1>1. KOD_INTERVAL * kods[c] <= limited[c] + (KOD_INTERVAL - 1) * allowed[c]
  BY AccountThrottles, Zenon
<1>2. Covers(0) = 0
  BY RateLimiterAssumption DEF Covers
<1>3. /\ allowed[c] \in Nat /\ limited[c] \in Nat
      /\ (KOD_INTERVAL - 1) * allowed[c] \in Nat
  BY KodTypes, Zenon
<1>4. allowed'[c] - 1 = allowed[c] /\ allowed'[c] >= 1
  BY <1>3
<1> QED
  BY <1>1, <1>2, <1>3, <1>4 DEF KodAccount

\* One more limited request uses up one of the cover, or opens the next interval.
LEMMA CoversStep ==
  ASSUME NEW n \in 0 .. U32 - 1, NEW m, m = (n + 1) % U32
  PROVE  IF n % KOD_INTERVAL = 0
         THEN Covers(n) = 0 /\ Covers(m) = KOD_INTERVAL - 1
         ELSE Covers(n) \in Nat /\ Covers(m) = Covers(n) - 1
<1> DEFINE r == n % KOD_INTERVAL
           s == m % KOD_INTERVAL
<1>0. KOD_INTERVAL \in Nat \ {0} /\ n \in Nat /\ m \in Nat
  BY RateLimiterAssumption
<1>1. s = IF r + 1 = KOD_INTERVAL THEN 0 ELSE r + 1
  BY CountPhase, Zenon
<1>2. (r = 0 => Covers(n) = 0) /\ (r # 0 => Covers(n) = KOD_INTERVAL - r)
  BY <1>0, Zenon DEF Covers
<1>3. (s = 0 => Covers(m) = 0) /\ (s # 0 => Covers(m) = KOD_INTERVAL - s)
  BY <1>0, Zenon DEF Covers
<1>4. KOD_INTERVAL \in Nat \ {0} /\ r \in Nat /\ r < KOD_INTERVAL
  BY <1>0
<1> HIDE DEF r, s
<1>5. IF r = 0 THEN Covers(n) = 0 /\ Covers(m) = KOD_INTERVAL - 1
               ELSE Covers(n) \in Nat /\ Covers(m) = Covers(n) - 1
  BY ONLY <1>1, <1>2, <1>3, <1>4
<1> QED
  BY <1>5, Zenon DEF r

\* A limited request extends the run, with a Kiss-o'-Death when the last one is used up.
LEMMA LimitedAccount ==
  ASSUME TypeOK, KHistoryType, NEW c \in Clients, c \in DOMAIN clients, KodAccount(c),
         c \in DOMAIN clients',
         clients'[c].limited_count = (clients[c].limited_count + 1) % U32,
         allowed'[c] = allowed[c], limited'[c] = limited[c] + 1,
         kods'[c] = kods[c] + (IF clients[c].limited_count % KOD_INTERVAL = 0 THEN 1 ELSE 0)
  PROVE  KodAccount(c)'
<1> DEFINE K == KOD_INTERVAL
           n == clients[c].limited_count
           m == clients'[c].limited_count
           paid == limited[c] + (K - 1) * (allowed[c] - 1)
<1>1. /\ allowed[c] \in Nat /\ limited[c] \in Nat /\ kods[c] \in Nat
      /\ K \in Nat \ {0} /\ n \in 0 .. U32 - 1
  BY KodTypes, Zenon
<1>2. m = (n + 1) % U32
  BY Zenon
<1>3. allowed[c] >= 1 /\ K * kods[c] <= paid + Covers(n)
  BY Zenon DEF KodAccount
<1>4. paid \in Int
  BY <1>1
<1>5. limited'[c] + (K - 1) * (allowed'[c] - 1) = paid + 1
  BY <1>1
<1>6. kods'[c] = IF n % K = 0 THEN kods[c] + 1 ELSE kods[c]
  BY <1>1
<1> HIDE DEF K, n, m, paid
<1>7. IF n % K = 0 THEN Covers(n) = 0 /\ Covers(m) = K - 1
                   ELSE Covers(n) \in Nat /\ Covers(m) = Covers(n) - 1
  BY ONLY <1>1, <1>2, CoversStep, Zenon DEF K
<1>8. K * (kods[c] + 1) = K * kods[c] + K /\ K * kods[c] \in Nat
  BY ONLY <1>1
<1>9. K * kods'[c] <= paid + 1 + Covers(m)
  BY ONLY <1>1, <1>3, <1>4, <1>6, <1>7, <1>8
<1> QED
  BY <1>3, <1>5, <1>9, Zenon DEF KodAccount, K, m

\* The account of a client that a step leaves alone, or forgets, stays in order.
LEMMA IdleAccount ==
  ASSUME TypeOK, KHistoryType, NEW c \in Clients, KodAccount(c),
         allowed'[c] = allowed[c], limited'[c] = limited[c], kods'[c] = kods[c],
         c \in DOMAIN clients' => c \in DOMAIN clients /\ clients'[c] = clients[c]
  PROVE  KodAccount(c)'
<1>1. CASE c \in DOMAIN clients'
  BY <1>1, Zenon DEF KodAccount
<1>2. CASE c \notin DOMAIN clients'
  BY <1>2, AccountThrottles, Zenon DEF KodAccount
<1> QED
  BY <1>1, <1>2, Zenon

\* Every step keeps every account.
LEMMA KInvStep ==
  ASSUME TypeOK, KInv, [KNext]_kvars
  PROVE  KInv'
<1>0. KHistoryType
  BY Zenon DEF KInv
<1>1. KHistoryType'
  BY <1>0, KHistoryTypeStep, Zenon
<1> SUFFICES ASSUME NEW c \in Clients
             PROVE  KodAccount(c)'
  BY <1>1, Zenon DEF KInv
<1>2. KodAccount(c)
  BY Zenon DEF KInv
<1>3. ASSUME UNCHANGED khistory,
             c \in DOMAIN clients' => c \in DOMAIN clients /\ clients'[c] = clients[c]
      PROVE  KodAccount(c)'
  BY <1>0, <1>2, <1>3, IdleAccount, Zenon DEF khistory
<1>4. CASE UNCHANGED khistory /\ UNCHANGED clients
  BY <1>3, <1>4, Zenon
<1>5. CASE UNCHANGED khistory /\ Sweep
  BY <1>3, <1>5, KeptSubset, Zenon DEF Sweep
<1>6. ASSUME NEW l \in Loops, KCheck(l)
      PROVE  KodAccount(c)'
  <2> DEFINE src == pending[l].source
             now == pending[l].now
  <2>1. ASSUME NoteAllowed(src), src \in DOMAIN clients', clients'[src].limited_count = 0,
               c # src /\ c \in DOMAIN clients' => c \in DOMAIN clients /\ clients'[c] = clients[c]
        PROVE  KodAccount(c)'
    <3>1. CASE c = src
      <4>1. allowed'[c] = allowed[c] + 1 /\ limited'[c] = limited[c] /\ kods'[c] = kods[c]
        BY <1>0, <2>1, <3>1, Zenon DEF NoteAllowed, KHistoryType
      <4> QED
        BY <1>0, <1>2, <2>1, <3>1, <4>1, AllowedAccount, Zenon
    <3>2. CASE c # src
      <4>1. allowed'[c] = allowed[c] /\ limited'[c] = limited[c] /\ kods'[c] = kods[c]
        BY <1>0, <2>1, <3>2, Zenon DEF NoteAllowed, KHistoryType
      <4> QED
        BY <1>0, <1>2, <2>1, <3>2, <4>1, IdleAccount, Zenon
    <3> QED
      BY <3>1, <3>2, Zenon
  <2>2. CASE CheckKnownAllowed(l) /\ NoteAllowed(src)
    BY <2>1, <2>2, Zenon DEF CheckKnownAllowed
  <2>3. CASE CheckNewAllowed(l) /\ NoteAllowed(src)
    BY <2>1, <2>3, KeptSubset, Zenon DEF CheckNewAllowed, FreshEntry
  <2>4. CASE CheckLimitedPerClient(l) /\ NoteLimited(src, SendKod(l))
    <3>1. CASE c = src
      <4>1. /\ c \in DOMAIN clients /\ c \in DOMAIN clients'
            /\ clients'[c].limited_count = (clients[c].limited_count + 1) % U32
        BY <2>4, <3>1, Zenon DEF CheckLimitedPerClient
      <4>2. /\ allowed'[c] = allowed[c] /\ limited'[c] = limited[c] + 1
            /\ kods'[c] = kods[c] + (IF clients[c].limited_count % KOD_INTERVAL = 0 THEN 1 ELSE 0)
        BY <1>0, <2>4, <3>1, Zenon DEF NoteLimited, SendKod, KHistoryType
      <4> QED
        BY <1>0, <1>2, <4>1, <4>2, LimitedAccount, Zenon
    <3>2. CASE c # src
      <4>1. c \in DOMAIN clients' => c \in DOMAIN clients /\ clients'[c] = clients[c]
        BY <2>4, <3>2, Zenon DEF CheckLimitedPerClient
      <4>2. allowed'[c] = allowed[c] /\ limited'[c] = limited[c] /\ kods'[c] = kods[c]
        BY <1>0, <2>4, <3>2, Zenon DEF NoteLimited, KHistoryType
      <4> QED
        BY <1>0, <1>2, <4>1, <4>2, IdleAccount, Zenon
    <3> QED
      BY <3>1, <3>2, Zenon
  <2>5. CASE CheckTableFull(l) /\ UNCHANGED khistory
    BY <1>3, <2>5, KeptSubset, Zenon DEF CheckTableFull
  <2>6. CASE CheckLimitedGlobal(l) /\ UNCHANGED khistory
    BY <1>3, <2>6, Zenon DEF CheckLimitedGlobal
  <2> QED
    BY <1>6, <2>2, <2>3, <2>4, <2>5, <2>6, Zenon DEF KCheck
<1> QED
  BY <1>4, <1>5, <1>6, Zenon DEF KNext, kvars, vars, Tick, StartCheck, StartSweep

\* The throttle holds for every client, however many loops feed the limiter, and
\* across evictions and wraps of limited_count.
THEOREM KodIsThrottled == KSpec => []KodThrottle
<1>1. KInit => KInv
  <2> SUFFICES ASSUME KInit PROVE KInv
    BY Zenon
  <2>1. ASSUME NEW c \in Clients
        PROVE  KodAccount(c)
    BY RateLimiterAssumption DEF KInit, Init, KodAccount
  <2> QED
    BY <2>1, Zenon DEF KInit, KInv, KHistoryType
<1>2. TypeOK /\ KInv /\ [KNext]_kvars => KInv'
  BY KInvStep, Zenon
<1>3. TypeOK /\ KInv => KodThrottle
  BY AccountThrottles, Zenon DEF KInv, KodThrottle
<1>4. KSpec => []TypeOK
  BY KSpecIsSpec, TypeCorrect, PTL
<1> QED
  BY <1>1, <1>2, <1>3, <1>4, PTL DEF KSpec
-----------------------------------------------------------------------------
\* A step with the history of use is a step of the limiter.
LEMMA UStepIsStep == [UNext]_uvars => [Next]_vars
BY Zenon DEF UNext, UCheck, Next, Check, uvars

\* A behaviour with the history of use is a behaviour of the limiter.
LEMMA USpecIsSpec == USpec => Spec
<1>1. UInit => Init
  BY Zenon DEF UInit
<1> QED
  BY <1>1, UStepIsStep, PTL DEF USpec, Spec

\* No check has waited for the mutex longer than MaxDelay, and so the reading it is
\* about to store in last_seen is at most that far behind the use it records.
WaitsAreShort ==
  \A l \in Loops : pending[l] # NoRequest => mono <= pending[l].now + MaxDelay
SeenNearUse == \A c \in DOMAIN clients : used[c] <= clients[c].last_seen + MaxDelay
UInv == used \in [Clients -> Nat] /\ WaitsAreShort /\ SeenNearUse

\* The history of use keeps its type.
LEMMA UsedTypeStep ==
  ASSUME IInv, used \in [Clients -> Nat], [UNext]_uvars
  PROVE  used' \in [Clients -> Nat]
<1>1. CASE UNCHANGED used
  BY <1>1, Zenon
<1>2. ASSUME NEW c, Use(c)
      PROVE  used' \in [Clients -> Nat]
  <2>1. mono \in Nat
    BY DEF IInv, TypeOK
  <2> QED
    BY <1>2, <2>1 DEF Use
<1> QED
  BY <1>1, <1>2, Zenon DEF UNext, UCheck, uvars

\* The clock does not run past a waiting check.
LEMMA WaitsStep ==
  ASSUME IInv, WaitsAreShort, [UNext]_uvars
  PROVE  WaitsAreShort'
<1> USE DEF IInv
<1>0. mono \in Nat /\ MaxDelay \in Nat
  BY RateLimiterAssumption DEF TypeOK
<1>1. CASE Tick
  <2> SUFFICES ASSUME NEW l \in Loops, pending[l] # NoRequest
               PROVE  mono + 1 <= pending[l].now + MaxDelay
    BY <1>1, Zenon DEF Tick, WaitsAreShort
  <2> QED
    BY <1>0, <1>1, PendingType DEF Tick
<1>2. ASSUME NEW l \in Loops, NEW c \in Clients, StartCheck(l, c)
      PROVE  WaitsAreShort'
  <2>1. mono <= mono + MaxDelay
    BY <1>0
  <2>2. \A k \in Loops : pending'[k] = IF k = l THEN [source |-> c, now |-> mono] ELSE pending[k]
    BY <1>2, Zenon DEF StartCheck, TypeOK
  <2>3. mono' = mono
    BY <1>2, Zenon DEF StartCheck
  <2> QED
    BY <2>1, <2>2, <2>3 DEF WaitsAreShort
<1>3. ASSUME NEW l \in Loops, UCheck(l)
      PROVE  WaitsAreShort'
  <2>1. Returns(l) /\ mono' = mono
    BY <1>3, Zenon DEF UCheck, CheckLimitedGlobal, CheckKnownAllowed,
       CheckLimitedPerClient, CheckTableFull, CheckNewAllowed, PassesGlobal
  <2>2. \A k \in Loops : pending'[k] = NoRequest \/ pending'[k] = pending[k]
    BY <2>1, Zenon DEF Returns, TypeOK
  <2> QED
    BY <2>1, <2>2, Zenon DEF WaitsAreShort
<1>4. CASE StartSweep \/ Sweep \/ UNCHANGED uvars
  BY <1>4, Zenon DEF StartSweep, Sweep, uvars, vars, WaitsAreShort
<1> QED
  BY <1>1, <1>2, <1>3, <1>4, Zenon DEF UNext

\* An entry after a step is the one before it, with its use, or one that a check just
\* used.
LEMMA UseStep ==
  ASSUME IInv, used \in [Clients -> Nat], [UNext]_uvars, NEW c \in DOMAIN clients'
  PROVE  \/ c \in DOMAIN clients /\ clients'[c] = clients[c] /\ used'[c] = used[c]
         \/ \E l \in Loops :
              /\ pending[l] # NoRequest
              /\ clients'[c].last_seen = pending[l].now
              /\ used'[c] = mono
<1> USE DEF IInv
<1>1. ASSUME NEW l \in Loops, Use(pending[l].source),
             CheckKnownAllowed(l) \/ CheckLimitedPerClient(l)
      PROVE  \/ c \in DOMAIN clients /\ clients'[c] = clients[c] /\ used'[c] = used[c]
             \/ /\ pending[l] # NoRequest
                /\ clients'[c].last_seen = pending[l].now
                /\ used'[c] = mono
  <2>1. /\ pending[l] # NoRequest
        /\ c \in DOMAIN clients /\ c \in Clients
    BY <1>1, Zenon DEF CheckKnownAllowed, CheckLimitedPerClient, PassesGlobal, TypeOK
  <2>2. CASE c = pending[l].source
    <3>1. clients'[c].last_seen = pending[l].now
      BY <1>1, <2>1, <2>2 DEF CheckKnownAllowed, CheckLimitedPerClient
    <3> QED
      BY <1>1, <2>1, <2>2, <3>1, Zenon DEF Use
  <2>3. CASE c # pending[l].source
    BY <1>1, <2>1, <2>3, Zenon DEF CheckKnownAllowed, CheckLimitedPerClient, Use
  <2> QED
    BY <2>2, <2>3, Zenon
<1>2. ASSUME NEW l \in Loops, Use(pending[l].source), CheckNewAllowed(l)
      PROVE  \/ c \in DOMAIN clients /\ clients'[c] = clients[c] /\ used'[c] = used[c]
             \/ /\ pending[l] # NoRequest
                /\ clients'[c].last_seen = pending[l].now
                /\ used'[c] = mono
  <2>1. pending[l] # NoRequest
    BY <1>2, Zenon DEF CheckNewAllowed, PassesGlobal
  <2>2. pending[l].source \in Clients
    BY <2>1, PendingType, Zenon
  <2>3. CASE c = pending[l].source
    <3>1. clients'[c] = FreshEntry(pending[l].now)
      BY <1>2, <2>3, Zenon DEF CheckNewAllowed
    <3>2. clients'[c].last_seen = pending[l].now
      BY <3>1 DEF FreshEntry
    <3>3. used'[c] = mono
      BY <1>2, <2>2, <2>3, Zenon DEF Use
    <3> QED
      BY <2>1, <3>2, <3>3, Zenon
  <2>4. CASE c # pending[l].source
    <3>1. c \in DOMAIN clients /\ clients'[c] = clients[c]
      BY <1>2, <2>4, KeptSubset, Zenon DEF CheckNewAllowed
    <3> QED
      BY <1>2, <2>4, <3>1, Zenon DEF Use, TypeOK
  <2> QED
    BY <2>3, <2>4, Zenon
<1>3. ASSUME NEW l \in Loops, CheckTableFull(l), UNCHANGED used
      PROVE  c \in DOMAIN clients /\ clients'[c] = clients[c] /\ used'[c] = used[c]
  BY <1>3, KeptSubset, Zenon DEF CheckTableFull
<1>4. CASE Sweep /\ UNCHANGED used
  BY <1>4, KeptSubset, Zenon DEF Sweep
<1>5. CASE UNCHANGED <<clients, used>>
  BY <1>5, Zenon
<1> QED
  BY <1>1, <1>2, <1>3, <1>4, <1>5, Zenon
  DEF UNext, UCheck, uvars, vars, Tick, StartCheck, StartSweep, CheckLimitedGlobal

\* Every step keeps the last use of an entry near its last_seen.
LEMMA SeenNearUseStep ==
  ASSUME IInv, UInv, [UNext]_uvars
  PROVE  SeenNearUse'
<1>1. SUFFICES ASSUME NEW c \in DOMAIN clients'
               PROVE  used'[c] <= clients'[c].last_seen + MaxDelay
  BY Zenon DEF SeenNearUse
<1>2. CASE c \in DOMAIN clients /\ clients'[c] = clients[c] /\ used'[c] = used[c]
  BY <1>2, Zenon DEF UInv, SeenNearUse
<1>3. ASSUME NEW l \in Loops, pending[l] # NoRequest,
             clients'[c].last_seen = pending[l].now, used'[c] = mono
      PROVE  used'[c] <= clients'[c].last_seen + MaxDelay
  BY <1>3, Zenon DEF UInv, WaitsAreShort
<1> QED
  BY <1>2, <1>3, UseStep, Zenon DEF UInv

\* The invariant of the history of use holds throughout.
THEOREM UInvariance == USpec => []UInv
<1>1. UInit => UInv
  <2>1. 0 \in Nat
    OBVIOUS
  <2> QED
    BY <2>1, Zenon DEF UInit, Init, UInv, WaitsAreShort, SeenNearUse
<1>2. IInv /\ UInv /\ [UNext]_uvars => UInv'
  BY UsedTypeStep, WaitsStep, SeenNearUseStep, Zenon DEF UInv
<1> QED
  BY <1>1, <1>2, USpecIsSpec, Invariance, PTL DEF USpec

\* No entry is evicted, by a forced scan or by the housekeeping sweep, before the time
\* to live less the longest wait for the mutex has passed since a check last used it.
THEOREM EvictionIsLate == USpec => EvictedOnlyWhenIdle
<1> DEFINE Late == \A c \in DOMAIN clients \ DOMAIN clients' :
                     mono + MaxDelay >= used[c] + client_entry_ttl
<1>1. IInv /\ UInv /\ [UNext]_uvars => Late
  <2> SUFFICES ASSUME IInv, UInv, [UNext]_uvars,
                      NEW c \in DOMAIN clients, c \notin DOMAIN clients'
               PROVE  mono + MaxDelay >= used[c] + client_entry_ttl
    BY Zenon
  <2>1. mono >= clients[c].last_seen + client_entry_ttl
    BY UStepIsStep, RemovedIsExpired, Zenon
  <2>2. used[c] <= clients[c].last_seen + MaxDelay
    BY Zenon DEF UInv, SeenNearUse
  <2>3. c \in Clients /\ clients[c].last_seen \in Nat
    BY Zenon DEF IInv, TypeOK, ClientEntry
  <2>4. used[c] \in Nat
    BY <2>3, Zenon DEF UInv
  <2>5. mono \in Nat /\ MaxDelay \in Nat /\ client_entry_ttl \in Nat
    BY RateLimiterAssumption DEF IInv, TypeOK
  <2> QED
    BY <2>1, <2>2, <2>3, <2>4, <2>5
<1>2. [][UNext]_uvars /\ []IInv /\ []UInv => [][Late]_uvars
  BY <1>1, PTL
<1> QED
  BY <1>2, USpecIsSpec, Invariance, UInvariance, PTL DEF USpec, EvictedOnlyWhenIdle
=============================================================================
