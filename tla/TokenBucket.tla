---------------------------- MODULE TokenBucket ----------------------------
(***************************************************************************)
(* The token bucket of crates/heeler-server/src/rate_limit.rs: integer     *)
(* "micro-tokens" refilled from the monotonic clock.  Times are numbers of *)
(* nanoseconds of the monotonic clock, counted from the creation of the    *)
(* limiter.                                                                *)
(***************************************************************************)
EXTENDS Naturals

CONSTANTS
  MICRO,          \* micro-tokens one request costs (10^6 in the code)
  NanosPerMicro,  \* nanoseconds per microsecond (1000 in the code)
  U64             \* the refill is cast to u64, that is, taken modulo 2^64

ASSUME TokenBucketAssumption ==
  /\ MICRO \in Nat \ {0}
  /\ NanosPerMicro \in Nat \ {0}
  /\ U64 \in Nat \ {0}

\* One second on the time scale of the model.
Second == MICRO * NanosPerMicro

Bucket == [micro_tokens : Nat, last_refill : Nat]

\* TokenBucket::new: a bucket starts full.
NewBucket(size, now) == [micro_tokens |-> size * MICRO, last_refill |-> now]

\* Instant::saturating_duration_since.
SaturatingSince(now, earlier) == IF now >= earlier THEN now - earlier ELSE 0

\* `rate` tokens per second are `rate` micro-tokens per microsecond; the
\* division drops what is less than a micro-token, the cast what is above u64.
RefillAmount(elapsed, rate) == ((elapsed * rate) \div NanosPerMicro) % U64

\* The micro-tokens after the refill, capped at the burst.
RefilledTokens(b, rate, size, now) ==
  LET sum == b.micro_tokens + RefillAmount(SaturatingSince(now, b.last_refill), rate)
  IN  IF sum <= size * MICRO THEN sum ELSE size * MICRO

\* TokenBucket::try_take, its result: is there a whole token after the refill?
TakeSucceeds(b, rate, size, now) == RefilledTokens(b, rate, size, now) >= MICRO

\* Mutated form: the time of the refill is not noted.
AfterTakeNotNoted(b, rate, size, now) ==
  [micro_tokens |-> IF TakeSucceeds(b, rate, size, now)
                    THEN RefilledTokens(b, rate, size, now) - MICRO
                    ELSE RefilledTokens(b, rate, size, now),
   last_refill  |-> b.last_refill]

\* TokenBucket::try_take, its effect.  last_refill becomes `now` even when `now`
\* lies before it, and even when no token is taken.
AfterTake(b, rate, size, now) ==
  [micro_tokens |-> IF TakeSucceeds(b, rate, size, now)
                    THEN RefilledTokens(b, rate, size, now) - MICRO
                    ELSE RefilledTokens(b, rate, size, now),
   last_refill  |-> now]
=============================================================================
