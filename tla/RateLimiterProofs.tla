------------------------- MODULE RateLimiterProofs -------------------------
(***************************************************************************)
(* Proofs about RateLimiter: its types, the bound on the client table and  *)
(* when an entry may leave the table.                                      *)
(***************************************************************************)
EXTENDS RateLimiter, FiniteSetTheorems, TLAPS

\* A duration is a natural number.
LEMMA SaturatingSinceType ==
  ASSUME NEW a \in Nat, NEW b \in Nat
  PROVE  SaturatingSince(a, b) \in Nat
BY DEF SaturatingSince

\* What is refilled is a natural number of micro-tokens, and no more than the
\* elapsed time is worth: the division rounds down and the cast only reduces.
LEMMA RefillAmountBound ==
  ASSUME NEW elapsed \in Nat, NEW rate \in Nat
  PROVE  /\ RefillAmount(elapsed, rate) \in Nat
         /\ NanosPerMicro * RefillAmount(elapsed, rate) <= elapsed * rate
<1> DEFINE x == elapsed * rate
           q == x \div NanosPerMicro
<1>1. x \in Nat
  OBVIOUS
<1> HIDE DEF x
<1>2. q \in Nat /\ NanosPerMicro * q <= x
  BY <1>1, TokenBucketAssumption
<1> HIDE DEF q
<1>3. q % U64 \in Nat /\ q % U64 <= q
  BY <1>2, TokenBucketAssumption
<1>4. NanosPerMicro * (q % U64) <= NanosPerMicro * q
  BY <1>2, <1>3, TokenBucketAssumption
<1>5. NanosPerMicro * (q % U64) \in Nat /\ NanosPerMicro * q \in Nat
  BY <1>2, <1>3, TokenBucketAssumption
<1>6. RefillAmount(elapsed, rate) = q % U64
  BY DEF RefillAmount, q, x
<1>7. NanosPerMicro * (q % U64) <= x
  BY <1>1, <1>2, <1>4, <1>5
<1> QED
  BY <1>3, <1>6, <1>7 DEF x

\* The refilled bucket holds a natural number of micro-tokens, at most the burst.
LEMMA RefilledTokensType ==
  ASSUME NEW b \in Bucket, NEW rate \in Nat, NEW size \in Nat, NEW now \in Nat
  PROVE  /\ RefilledTokens(b, rate, size, now) \in Nat
         /\ RefilledTokens(b, rate, size, now) <= size * MICRO
         /\ RefilledTokens(b, rate, size, now)
              <= b.micro_tokens + RefillAmount(SaturatingSince(now, b.last_refill), rate)
<1> DEFINE e == SaturatingSince(now, b.last_refill)
<1>1. b.micro_tokens \in Nat /\ b.last_refill \in Nat
  BY DEF Bucket
<1>2. e \in Nat
  BY <1>1, SaturatingSinceType
<1> HIDE DEF e
<1>3. RefillAmount(e, rate) \in Nat
  BY <1>2, RefillAmountBound
<1>4. size * MICRO \in Nat
  BY TokenBucketAssumption
<1> QED
  BY <1>1, <1>3, <1>4 DEF RefilledTokens, e

\* try_take leaves a bucket, refilled as of `now` and holding at most the burst.
LEMMA AfterTakeType ==
  ASSUME NEW b \in Bucket, NEW rate \in Nat, NEW size \in Nat, NEW now \in Nat
  PROVE  /\ AfterTake(b, rate, size, now) \in Bucket
         /\ AfterTake(b, rate, size, now).last_refill = now
<1>1. RefilledTokens(b, rate, size, now) \in Nat
  BY RefilledTokensType
<1> QED
  BY <1>1, TokenBucketAssumption DEF AfterTake, TakeSucceeds, Bucket

\* A new bucket is a bucket.
LEMMA NewBucketType ==
  ASSUME NEW size \in Nat, NEW now \in Nat
  PROVE  NewBucket(size, now) \in Bucket
BY TokenBucketAssumption DEF NewBucket, Bucket
-----------------------------------------------------------------------------
\* No task holds a clock reading from the future.
ReadingsArePast ==
  /\ \A l \in Loops : pending[l] # NoRequest => pending[l].now <= mono
  /\ sweep_now # NoRequest => sweep_now <= mono

\* Only an enabled limiter tracks clients.
TableMeansEnabled == DOMAIN clients # {} => enabled

IInv == TypeOK /\ ReadingsArePast /\ TableMeansEnabled /\ TableBound

\* A waiting call has a source and a clock reading.
LEMMA PendingType ==
  ASSUME TypeOK, NEW l \in Loops, pending[l] # NoRequest
  PROVE  pending[l].source \in Clients /\ pending[l].now \in Nat
BY DEF TypeOK

\* Charging the global bucket leaves a bucket.
LEMMA ChargeGlobalType ==
  ASSUME TypeOK, NEW now \in Nat, ChargeGlobal(now)
  PROVE  global' \in Bucket
BY AfterTakeType, RateLimiterAssumption DEF ChargeGlobal, TypeOK

\* An entry's bucket after try_take is a bucket.
LEMMA ClientAfterTakeType ==
  ASSUME TypeOK, NEW c \in DOMAIN clients, NEW now \in Nat
  PROVE  ClientAfterTake(clients[c], now) \in Bucket
<1>1. clients[c].bucket \in Bucket
  BY DEF TypeOK, ClientEntry
<1> QED
  BY <1>1, AfterTakeType, RateLimiterAssumption DEF ClientAfterTake

\* The entry of a new client has the type of an entry.
LEMMA FreshEntryType ==
  ASSUME NEW now \in Nat
  PROVE  FreshEntry(now) \in ClientEntry
<1>1. NewBucket(burst, now) \in Bucket
  BY NewBucketType, RateLimiterAssumption
<1>2. AfterTake(NewBucket(burst, now), requests_per_second, burst, now) \in Bucket
  BY <1>1, AfterTakeType, RateLimiterAssumption
<1> QED
  BY <1>2, RateLimiterAssumption DEF FreshEntry, ClientEntry

\* limited_count stays a u32.
LEMMA WrappedCountType ==
  ASSUME TypeOK, NEW c \in DOMAIN clients
  PROVE  (clients[c].limited_count + 1) % U32 \in 0 .. U32 - 1
<1>1. clients[c].limited_count \in Nat
  BY RateLimiterAssumption DEF TypeOK, ClientEntry
<1> QED
  BY <1>1, RateLimiterAssumption

\* What a sweep keeps is part of the table.
LEMMA KeptSubset ==
  ASSUME NEW now
  PROVE  Retained(now) \subseteq DOMAIN clients /\ KeptForNew(now) \subseteq DOMAIN clients
BY DEF Retained, KeptForNew

\* The part of a typed table on some of its keys is a typed table.
LEMMA RestrictedTable ==
  ASSUME TypeOK, NEW S \in SUBSET DOMAIN clients, clients' = [c \in S |-> clients[c]]
  PROVE  /\ DOMAIN clients' = S
         /\ DOMAIN clients' \subseteq Clients
         /\ clients' \in [DOMAIN clients' -> ClientEntry]
BY DEF TypeOK

\* Every step keeps the variables in their types.
LEMMA TypeStep ==
  ASSUME TypeOK, [Next]_vars
  PROVE  TypeOK'
<1> USE RateLimiterAssumption
<1>1. CASE Tick
  BY <1>1 DEF Tick, TypeOK
<1>2. ASSUME NEW l \in Loops, NEW c \in Clients, StartCheck(l, c)
      PROVE  TypeOK'
  BY <1>2 DEF StartCheck, TypeOK
<1>3. ASSUME NEW l \in Loops, CheckDisabled(l)
      PROVE  TypeOK'
  BY <1>3 DEF CheckDisabled, Returns, TypeOK
<1>4. ASSUME NEW l \in Loops, CheckLimitedGlobal(l)
      PROVE  TypeOK'
  <2>1. global' \in Bucket
    BY <1>4, PendingType, ChargeGlobalType DEF CheckLimitedGlobal
  <2> QED
    BY <1>4, <2>1 DEF CheckLimitedGlobal, Returns, TypeOK
<1>5. ASSUME NEW l \in Loops, PassesGlobal(l), last_forced_sweep' \in Nat,
             DOMAIN clients' \subseteq Clients,
             clients' \in [DOMAIN clients' -> ClientEntry]
      PROVE  TypeOK'
  <2>1. global' \in Bucket
    BY <1>5, PendingType, ChargeGlobalType DEF PassesGlobal
  <2> QED
    BY <1>5, <2>1 DEF PassesGlobal, Returns, TypeOK
<1>6. ASSUME NEW l \in Loops, CheckKnownAllowed(l)
      PROVE  TypeOK'
  <2> DEFINE c == pending[l].source
             now == pending[l].now
  <2>1. PassesGlobal(l) /\ c \in DOMAIN clients /\ UNCHANGED last_forced_sweep
    BY <1>6 DEF CheckKnownAllowed
  <2>2. now \in Nat
    BY <2>1, PendingType DEF PassesGlobal
  <2>3. ClientAfterTake(clients[c], now) \in Bucket
    BY <2>1, <2>2, ClientAfterTakeType
  <2>4. /\ DOMAIN clients' = DOMAIN clients
        /\ clients' \in [DOMAIN clients' -> ClientEntry]
    BY <1>6, <2>1, <2>2, <2>3 DEF CheckKnownAllowed, TypeOK, ClientEntry
  <2> QED
    BY <1>5, <2>1, <2>4 DEF TypeOK
<1>7. ASSUME NEW l \in Loops, CheckLimitedPerClient(l)
      PROVE  TypeOK'
  <2> DEFINE c == pending[l].source
             now == pending[l].now
  <2>1. PassesGlobal(l) /\ c \in DOMAIN clients /\ UNCHANGED last_forced_sweep
    BY <1>7 DEF CheckLimitedPerClient
  <2>2. now \in Nat
    BY <2>1, PendingType DEF PassesGlobal
  <2>3. ClientAfterTake(clients[c], now) \in Bucket
    BY <2>1, <2>2, ClientAfterTakeType
  <2>4. (clients[c].limited_count + 1) % U32 \in 0 .. U32 - 1
    BY <2>1, WrappedCountType
  <2>5. /\ DOMAIN clients' = DOMAIN clients
        /\ clients' \in [DOMAIN clients' -> ClientEntry]
    BY <1>7, <2>1, <2>2, <2>3, <2>4 DEF CheckLimitedPerClient, TypeOK, ClientEntry
  <2> QED
    BY <1>5, <2>1, <2>5 DEF TypeOK
<1>8. ASSUME NEW l \in Loops, CheckTableFull(l)
      PROVE  TypeOK'
  <2> DEFINE now == pending[l].now
  <2>1. PassesGlobal(l) /\ NoteForcedSweep(now)
    BY <1>8 DEF CheckTableFull
  <2>2. now \in Nat
    BY <2>1, PendingType DEF PassesGlobal
  <2>3. last_forced_sweep' \in Nat
    BY <2>1, <2>2 DEF NoteForcedSweep, TypeOK
  <2>4. /\ DOMAIN clients' \subseteq Clients
        /\ clients' \in [DOMAIN clients' -> ClientEntry]
    BY <1>8, KeptSubset, RestrictedTable DEF CheckTableFull
  <2> QED
    BY <1>5, <2>1, <2>3, <2>4
<1>9. ASSUME NEW l \in Loops, CheckNewAllowed(l)
      PROVE  TypeOK'
  <2> DEFINE c == pending[l].source
             now == pending[l].now
  <2>1. PassesGlobal(l) /\ NoteForcedSweep(now)
    BY <1>9 DEF CheckNewAllowed
  <2>2. now \in Nat /\ c \in Clients
    BY <2>1, PendingType DEF PassesGlobal
  <2>3. last_forced_sweep' \in Nat
    BY <2>1, <2>2 DEF NoteForcedSweep, TypeOK
  <2>4. FreshEntry(now) \in ClientEntry
    BY <2>2, FreshEntryType
  <2>5. \A d \in KeptForNew(now) : d \in Clients /\ clients[d] \in ClientEntry
    BY KeptSubset DEF TypeOK
  <2>6. clients' = [d \in KeptForNew(now) \cup {c} |->
                      IF d = c THEN FreshEntry(now) ELSE clients[d]]
    BY <1>9 DEF CheckNewAllowed
  <2>7. /\ DOMAIN clients' \subseteq Clients
        /\ clients' \in [DOMAIN clients' -> ClientEntry]
    BY <2>2, <2>4, <2>5, <2>6
  <2> QED
    BY <1>5, <2>1, <2>3, <2>7
<1>10. CASE StartSweep
  BY <1>10 DEF StartSweep, TypeOK
<1>11. CASE Sweep
  <2>1. /\ DOMAIN clients' \subseteq Clients
        /\ clients' \in [DOMAIN clients' -> ClientEntry]
    BY <1>11, KeptSubset, RestrictedTable DEF Sweep
  <2> QED
    BY <1>11, <2>1 DEF Sweep, TypeOK
<1>12. CASE UNCHANGED vars
  BY <1>12 DEF vars, TypeOK
<1> QED
  BY <1>1, <1>2, <1>3, <1>4, <1>6, <1>7, <1>8, <1>9, <1>10, <1>11, <1>12
  DEF Next, Check

\* Clock readings stay in the past: a step takes one from mono or drops one, and
\* mono only grows.
LEMMA ReadingsStep ==
  ASSUME TypeOK, ReadingsArePast, [Next]_vars
  PROVE  ReadingsArePast'
<1> USE RateLimiterAssumption DEF ReadingsArePast
<1>1. CASE Tick
  BY <1>1, PendingType DEF Tick, TypeOK
<1>2. ASSUME NEW l \in Loops, NEW c \in Clients, StartCheck(l, c)
      PROVE  ReadingsArePast'
  BY <1>2 DEF StartCheck, TypeOK
<1>3. ASSUME NEW l \in Loops, Check(l)
      PROVE  ReadingsArePast'
  <2>1. Returns(l) /\ UNCHANGED <<mono, sweep_now>>
    BY <1>3 DEF Check, CheckDisabled, CheckLimitedGlobal, CheckKnownAllowed,
       CheckLimitedPerClient, CheckTableFull, CheckNewAllowed, PassesGlobal
  <2> QED
    BY <2>1 DEF Returns, TypeOK
<1>4. CASE StartSweep
  BY <1>4 DEF StartSweep, TypeOK
<1>5. CASE Sweep
  BY <1>5 DEF Sweep
<1>6. CASE UNCHANGED vars
  BY <1>6 DEF vars
<1> QED
  BY <1>1, <1>2, <1>3, <1>4, <1>5, <1>6 DEF Next

\* A table is finite, and part of it is no larger than the table.
LEMMA TableFinite ==
  ASSUME TypeOK
  PROVE  /\ IsFiniteSet(DOMAIN clients)
         /\ Cardinality(DOMAIN clients) \in Nat
         /\ \A S \in SUBSET DOMAIN clients :
              /\ IsFiniteSet(S)
              /\ Cardinality(S) \in Nat
              /\ Cardinality(S) <= Cardinality(DOMAIN clients)
<1>1. IsFiniteSet(DOMAIN clients)
  BY FS_Subset, RateLimiterAssumption DEF TypeOK
<1>2. ASSUME NEW S \in SUBSET DOMAIN clients
      PROVE  IsFiniteSet(S) /\ Cardinality(S) <= Cardinality(DOMAIN clients)
  BY <1>1, FS_Subset
<1> QED
  BY <1>1, <1>2, FS_CardinalityType

\* Every step respects the bound on the table: only a new client adds an entry, and
\* it does so when what the scan kept leaves room.
LEMMA TableBoundStep ==
  ASSUME TypeOK, TableBound, [Next]_vars
  PROVE  TableBound'
<1> USE RateLimiterAssumption
<1>1. ASSUME DOMAIN clients' \subseteq DOMAIN clients
      PROVE  TableBound'
  <2>1. /\ Cardinality(DOMAIN clients') \in Nat
        /\ Cardinality(DOMAIN clients') <= Cardinality(DOMAIN clients)
        /\ Cardinality(DOMAIN clients) \in Nat
    BY <1>1, TableFinite
  <2> QED
    BY <2>1 DEF TableBound
<1>2. ASSUME NEW l \in Loops, CheckKnownAllowed(l) \/ CheckLimitedPerClient(l)
      PROVE  TableBound'
  BY <1>1, <1>2 DEF CheckKnownAllowed, CheckLimitedPerClient
<1>3. ASSUME NEW l \in Loops, CheckTableFull(l)
      PROVE  TableBound'
  BY <1>1, <1>3, KeptSubset DEF CheckTableFull
<1>4. ASSUME NEW l \in Loops, CheckNewAllowed(l)
      PROVE  TableBound'
  <2> DEFINE c == pending[l].source
             kept == KeptForNew(pending[l].now)
  <2>1. DOMAIN clients' = kept \cup {c} /\ Cardinality(kept) < max_client_entries
    BY <1>4 DEF CheckNewAllowed
  <2>2. IsFiniteSet(kept) /\ Cardinality(kept) \in Nat
    BY TableFinite, KeptSubset
  <2>3. Cardinality(kept \cup {c}) = IF c \in kept THEN Cardinality(kept)
                                                  ELSE Cardinality(kept) + 1
    BY <2>2, FS_AddElement
  <2> QED
    BY <2>1, <2>2, <2>3 DEF TableBound
<1>5. CASE Sweep
  BY <1>1, <1>5, KeptSubset DEF Sweep
<1>6. ASSUME UNCHANGED clients
      PROVE  TableBound'
  BY <1>6 DEF TableBound
<1> QED
  BY <1>2, <1>3, <1>4, <1>5, <1>6
  DEF Next, Check, Tick, StartCheck, StartSweep, CheckDisabled, CheckLimitedGlobal, vars

\* Only a check of an enabled limiter adds an entry.
LEMMA TableMeansEnabledStep ==
  ASSUME TableMeansEnabled, [Next]_vars
  PROVE  TableMeansEnabled'
<1>1. CASE Sweep
  BY <1>1 DEF Sweep, Retained, TableMeansEnabled
<1>2. ASSUME NEW l \in Loops, Check(l)
      PROVE  TableMeansEnabled'
  BY <1>2 DEF TableMeansEnabled, Check, CheckDisabled, CheckLimitedGlobal, CheckKnownAllowed,
     CheckLimitedPerClient, CheckTableFull, CheckNewAllowed, PassesGlobal
<1>3. ASSUME UNCHANGED clients
      PROVE  TableMeansEnabled'
  BY <1>3 DEF TableMeansEnabled
<1> QED
  BY <1>1, <1>2, <1>3 DEF Next, Tick, StartCheck, StartSweep, vars

\* The inductive invariant holds throughout.
THEOREM Invariance == Spec => []IInv
<1>1. Init => IInv
  <2> SUFFICES ASSUME Init PROVE IInv
    OBVIOUS
  <2>1. DOMAIN clients = {}
    BY DEF Init
  <2>2. Cardinality(DOMAIN clients) = 0
    BY <2>1, FS_EmptySet
  <2>3. global \in Bucket
    BY NewBucketType, RateLimiterAssumption DEF Init
  <2> QED
    BY <2>1, <2>2, <2>3, RateLimiterAssumption
    DEF Init, IInv, TypeOK, ReadingsArePast, TableMeansEnabled, TableBound
<1>2. IInv /\ [Next]_vars => IInv'
  BY TypeStep, ReadingsStep, TableMeansEnabledStep, TableBoundStep DEF IInv
<1> QED
  BY <1>1, <1>2, PTL DEF Spec

\* At most max_client_entries clients are tracked, for every number of loops and
\* clients, every setting and every interleaving of checks and sweeps.
THEOREM TableIsBounded == Spec => []TableBound
<1>1. IInv => TableBound
  BY DEF IInv
<1> QED
  BY <1>1, Invariance, PTL

\* The variables keep their types.
THEOREM TypeCorrect == Spec => []TypeOK
<1>1. IInv => TypeOK
  BY DEF IInv
<1> QED
  BY <1>1, Invariance, PTL

\* A reading from the past that finds an entry expired finds it expired now.
LEMMA ExpiredIsIdle ==
  ASSUME TypeOK, TableMeansEnabled, NEW now \in Nat, now <= mono,
         NEW c \in DOMAIN clients, Expired(c, now)
  PROVE  mono >= clients[c].last_seen + client_entry_ttl
<1>1. clients[c].last_seen \in Nat /\ mono \in Nat
  BY DEF TypeOK, ClientEntry
<1>2. client_entry_ttl \in Nat \ {0}
  BY RateLimiterAssumption DEF TableMeansEnabled
<1> QED
  BY <1>1, <1>2 DEF Expired, SaturatingSince

\* An entry leaves the table, by a forced scan or by the housekeeping sweep, only
\* when last_seen lies a whole time to live in the past.
LEMMA RemovedIsExpired ==
  ASSUME IInv, [Next]_vars, NEW c \in DOMAIN clients, c \notin DOMAIN clients'
  PROVE  mono >= clients[c].last_seen + client_entry_ttl
<1> USE DEF IInv
<1>1. ASSUME NEW l \in Loops, CheckTableFull(l) \/ CheckNewAllowed(l)
      PROVE  mono >= clients[c].last_seen + client_entry_ttl
  <2>1. c \notin KeptForNew(pending[l].now) /\ pending[l] # NoRequest
    BY <1>1 DEF CheckTableFull, CheckNewAllowed, PassesGlobal
  <2>2. Expired(c, pending[l].now)
    BY <2>1 DEF KeptForNew, Retained
  <2>3. pending[l].now \in Nat /\ pending[l].now <= mono
    BY <2>1, PendingType DEF ReadingsArePast
  <2> QED
    BY <2>2, <2>3, ExpiredIsIdle
<1>2. CASE Sweep
  <2>1. Expired(c, sweep_now)
    BY <1>2 DEF Sweep, Retained
  <2>2. sweep_now \in Nat /\ sweep_now <= mono
    BY <1>2 DEF Sweep, ReadingsArePast, TypeOK
  <2> QED
    BY <2>1, <2>2, ExpiredIsIdle
<1>3. ASSUME NEW l \in Loops, CheckKnownAllowed(l) \/ CheckLimitedPerClient(l)
      PROVE  FALSE
  BY <1>3 DEF CheckKnownAllowed, CheckLimitedPerClient
<1> QED
  BY <1>1, <1>2, <1>3
  DEF Next, Check, Tick, StartCheck, StartSweep, CheckDisabled, CheckLimitedGlobal, vars
=============================================================================
