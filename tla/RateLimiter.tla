---------------------------- MODULE RateLimiter ----------------------------
(***************************************************************************)
(* The rate limiter of crates/heeler-server/src/rate_limit.rs, as the      *)
(* receive loops and the housekeeping task of server.rs use it.            *)
(*                                                                         *)
(* RateLimiter::check holds the limiter's mutex from its first access to   *)
(* the state to its return, so one call is one step.  Its argument `now`   *)
(* is read before the mutex is taken (server.rs: check(source.ip(),        *)
(* Instant::now())), and so is that of sweep: reading the clock and the    *)
(* critical section are two steps, and other tasks run in between.         *)
(***************************************************************************)
EXTENDS TokenBucket, FiniteSets

CONSTANTS
  Clients,                     \* source addresses
  Loops,                       \* receive loops, one per bound socket
  \* RateLimitSettings
  enabled,
  requests_per_second,
  burst,
  global_requests_per_second,  \* 0 disables the global bucket
  global_burst,
  client_entry_ttl,
  max_client_entries,
  \* module constants and bounds
  KOD_INTERVAL,                \* 8 in the code
  U32,                         \* limited_count wraps at 2^32
  MaxDelay,                    \* longest wait between reading the clock and the mutex
  MaxTime,                     \* bound of the model on the monotonic clock
  NoRequest                    \* a loop or task that has no call under way

\* What Config::validate guarantees of the settings, and the fact about the code's
\* own constants that matters: KOD_INTERVAL divides 2^32.
ASSUME RateLimiterAssumption ==
  /\ IsFiniteSet(Clients)
  /\ enabled \in BOOLEAN
  /\ requests_per_second \in Nat
  /\ burst \in Nat
  /\ global_requests_per_second \in Nat
  /\ global_burst \in Nat
  /\ client_entry_ttl \in Nat
  /\ max_client_entries \in Nat
  /\ enabled => {requests_per_second, burst, client_entry_ttl, max_client_entries} \subseteq Nat \ {0}
  /\ KOD_INTERVAL \in Nat \ {0}
  /\ U32 \in Nat \ {0}
  /\ U32 % KOD_INTERVAL = 0
  /\ MaxDelay \in Nat
  /\ MaxTime \in Nat
  /\ NoRequest \notin [source : Clients, now : Nat]
  /\ NoRequest \notin Nat

VARIABLES
  mono,               \* the monotonic clock
  clients,            \* LimiterState.clients: a map from some clients to entries
  global,             \* LimiterState.global
  last_forced_sweep,  \* LimiterState.last_forced_sweep
  pending,            \* per loop: the source and `now` of a check waiting for the mutex
  sweep_now           \* housekeeping: the `now` of a sweep waiting for the mutex

vars == <<mono, clients, global, last_forced_sweep, pending, sweep_now>>

ClientEntry == [bucket : Bucket, last_seen : Nat, limited_count : 0 .. U32 - 1]

TypeOK ==
  /\ mono \in 0 .. MaxTime
  /\ DOMAIN clients \subseteq Clients
  /\ clients \in [DOMAIN clients -> ClientEntry]
  /\ global \in Bucket
  /\ last_forced_sweep \in Nat
  /\ pending \in [Loops -> [source : Clients, now : Nat] \cup {NoRequest}]
  /\ sweep_now \in Nat \cup {NoRequest}

-----------------------------------------------------------------------------
\* RateLimiter::new
Init ==
  /\ mono = 0
  /\ clients = [c \in {} |-> NoRequest]
  /\ global = NewBucket(global_burst, 0)
  /\ last_forced_sweep = 0
  /\ pending = [l \in Loops |-> NoRequest]
  /\ sweep_now = NoRequest

\* Time passes; no call waits for the mutex longer than MaxDelay.
Tick ==
  /\ mono < MaxTime
  /\ \A l \in Loops : pending[l] # NoRequest => mono < pending[l].now + MaxDelay
  /\ sweep_now # NoRequest => mono < sweep_now + MaxDelay
  /\ mono' = mono + 1
  /\ UNCHANGED <<clients, global, last_forced_sweep, pending, sweep_now>>

\* A receive loop reaches its rate-limiting step and reads Instant::now().
StartCheck(l, c) ==
  /\ pending[l] = NoRequest
  /\ pending' = [pending EXCEPT ![l] = [source |-> c, now |-> mono]]
  /\ UNCHANGED <<mono, clients, global, last_forced_sweep, sweep_now>>

-----------------------------------------------------------------------------
(* The branches of RateLimiter::check, for the waiting call of loop l. *)

\* Mutated form: entries expire a moment early.
ExpiredEarly(c, now) == SaturatingSince(now, clients[c].last_seen) + 1 >= client_entry_ttl

\* HashMap::retain on entries idle for less than the time to live.
Expired(c, now) == SaturatingSince(now, clients[c].last_seen) >= client_entry_ttl
Retained(now) == {c \in DOMAIN clients : ~Expired(c, now)}

GlobalTakes(now) ==
  TakeSucceeds(global, global_requests_per_second, global_burst, now)

\* The global bucket is consulted, and charged, before anything else.
GlobalPasses(now) == global_requests_per_second > 0 => GlobalTakes(now)
ChargeGlobal(now) ==
  global' = IF global_requests_per_second > 0
            THEN AfterTake(global, global_requests_per_second, global_burst, now)
            ELSE global

Returns(l) == pending' = [pending EXCEPT ![l] = NoRequest]

CheckDisabled(l) ==
  /\ pending[l] # NoRequest
  /\ ~enabled
  /\ Returns(l)
  /\ UNCHANGED <<mono, clients, global, last_forced_sweep, sweep_now>>

CheckLimitedGlobal(l) ==
  /\ pending[l] # NoRequest
  /\ enabled
  /\ ~GlobalPasses(pending[l].now)
  /\ ChargeGlobal(pending[l].now)
  /\ Returns(l)
  /\ UNCHANGED <<mono, clients, last_forced_sweep, sweep_now>>

\* The calls that pass the global bucket.
PassesGlobal(l) ==
  /\ pending[l] # NoRequest
  /\ enabled
  /\ GlobalPasses(pending[l].now)
  /\ ChargeGlobal(pending[l].now)
  /\ Returns(l)
  /\ UNCHANGED <<mono, sweep_now>>

ClientTakes(e, now) == TakeSucceeds(e.bucket, requests_per_second, burst, now)
ClientAfterTake(e, now) == AfterTake(e.bucket, requests_per_second, burst, now)

\* A known client with a token: Allowed.
CheckKnownAllowed(l) ==
  LET c == pending[l].source
      now == pending[l].now
  IN  /\ PassesGlobal(l)
      /\ c \in DOMAIN clients
      /\ ClientTakes(clients[c], now)
      /\ clients' = [clients EXCEPT ![c] =
                       [bucket        |-> ClientAfterTake(clients[c], now),
                        last_seen     |-> now,
                        limited_count |-> 0]]
      /\ UNCHANGED last_forced_sweep

\* Mutated form: last_seen is refreshed only when the request is allowed.
CheckLimitedPerClientUnseen(l) ==
  LET c == pending[l].source
      now == pending[l].now
  IN  /\ PassesGlobal(l)
      /\ c \in DOMAIN clients
      /\ ~ClientTakes(clients[c], now)
      /\ clients' = [clients EXCEPT ![c] =
                       [bucket        |-> ClientAfterTake(clients[c], now),
                        last_seen     |-> clients[c].last_seen,
                        limited_count |-> (clients[c].limited_count + 1) % U32]]
      /\ UNCHANGED last_forced_sweep

\* A known client without a token: LimitedPerClient.
CheckLimitedPerClient(l) ==
  LET c == pending[l].source
      now == pending[l].now
  IN  /\ PassesGlobal(l)
      /\ c \in DOMAIN clients
      /\ ~ClientTakes(clients[c], now)
      /\ clients' = [clients EXCEPT ![c] =
                       [bucket        |-> ClientAfterTake(clients[c], now),
                        last_seen     |-> now,
                        limited_count |-> (clients[c].limited_count + 1) % U32]]
      /\ UNCHANGED last_forced_sweep

\* Mutated form: a Kiss-o'-Death for every limited request.
SendKodAlways(l) == clients[pending[l].source].limited_count >= 0

\* The decision of that branch: is a Kiss-o'-Death suggested?
SendKod(l) == clients[pending[l].source].limited_count % KOD_INTERVAL = 0

\* A full table is scanned for expired entries at most once per second.
TableIsFull == Cardinality(DOMAIN clients) >= max_client_entries
\* Mutated form: a full table is scanned for every new client.
ForcedSweepAlwaysDue(now) == SaturatingSince(now, last_forced_sweep) >= 0

ForcedSweepDue(now) == SaturatingSince(now, last_forced_sweep) >= Second
ForcesSweep(now) == TableIsFull /\ ForcedSweepDue(now)
KeptForNew(now) == IF ForcesSweep(now) THEN Retained(now) ELSE DOMAIN clients
NoteForcedSweep(now) ==
  last_forced_sweep' = IF ForcesSweep(now) THEN now ELSE last_forced_sweep

\* An unknown client and no room: TableFull.
CheckTableFull(l) ==
  LET c == pending[l].source
      now == pending[l].now
  IN  /\ PassesGlobal(l)
      /\ c \notin DOMAIN clients
      /\ Cardinality(KeptForNew(now)) >= max_client_entries
      /\ clients' = [d \in KeptForNew(now) |-> clients[d]]
      /\ NoteForcedSweep(now)

\* An unknown client and room for it: its first request spends a token of a
\* fresh bucket, Allowed.
FreshEntry(now) ==
  [bucket        |-> AfterTake(NewBucket(burst, now), requests_per_second, burst, now),
   last_seen     |-> now,
   limited_count |-> 0]

\* Mutated form: one entry too many.
CheckNewAllowedOneMore(l) ==
  LET c == pending[l].source
      now == pending[l].now
  IN  /\ PassesGlobal(l)
      /\ c \notin DOMAIN clients
      /\ Cardinality(KeptForNew(now)) <= max_client_entries
      /\ clients' = [d \in KeptForNew(now) \cup {c} |->
                       IF d = c THEN FreshEntry(now) ELSE clients[d]]
      /\ NoteForcedSweep(now)

CheckNewAllowed(l) ==
  LET c == pending[l].source
      now == pending[l].now
  IN  /\ PassesGlobal(l)
      /\ c \notin DOMAIN clients
      /\ Cardinality(KeptForNew(now)) < max_client_entries
      /\ clients' = [d \in KeptForNew(now) \cup {c} |->
                       IF d = c THEN FreshEntry(now) ELSE clients[d]]
      /\ NoteForcedSweep(now)

Check(l) ==
  \/ CheckDisabled(l)
  \/ CheckLimitedGlobal(l)
  \/ CheckKnownAllowed(l)
  \/ CheckLimitedPerClient(l)
  \/ CheckTableFull(l)
  \/ CheckNewAllowed(l)

-----------------------------------------------------------------------------
\* Housekeeping reads the clock for RateLimiter::sweep, then sweeps.
StartSweep ==
  /\ sweep_now = NoRequest
  /\ sweep_now' = mono
  /\ UNCHANGED <<mono, clients, global, last_forced_sweep, pending>>

Sweep ==
  /\ sweep_now # NoRequest
  /\ clients' = [c \in Retained(sweep_now) |-> clients[c]]
  /\ sweep_now' = NoRequest
  /\ UNCHANGED <<mono, global, last_forced_sweep, pending>>

Next ==
  \/ Tick
  \/ \E l \in Loops : (\E c \in Clients : StartCheck(l, c)) \/ Check(l)
  \/ StartSweep
  \/ Sweep

Spec == Init /\ [][Next]_vars

-----------------------------------------------------------------------------
\* At most max_client_entries client buckets are ever tracked, however the loops'
\* checks, the forced scans of a full table and the housekeeping sweeps interleave
\* (rate_limit.rs, "Memory is bounded").
TableBound == Cardinality(DOMAIN clients) <= max_client_entries
=============================================================================
