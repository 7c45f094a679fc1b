----------------------------- MODULE Timestamp -----------------------------
(***************************************************************************)
(* crates/heeler-core/src/timestamp.rs: absolute instants (nanoseconds     *)
(* since 1900, of any sign) and the wire format (seconds within an era and *)
(* a binary fraction), with the conversions between the two.               *)
(***************************************************************************)
EXTENDS Integers

CONSTANTS
  NANOS_PER_SECOND,            \* 10^9 in the code
  TWO_POW_32,                  \* seconds of an era, and fractions of a second
  UNIX_TO_NTP_OFFSET_SECONDS,  \* from 1900 to 1970
  SystemTimeSeconds,           \* SystemTime counts fewer seconds than that either way
  BeforeNtpEpoch,              \* the errors of the conversions
  OutOfSystemTimeRange

ASSUME TimestampAssumption ==
  /\ NANOS_PER_SECOND \in Nat \ {0}
  /\ TWO_POW_32 \in Nat \ {0}
  /\ TWO_POW_32 % 2 = 0
  /\ NANOS_PER_SECOND <= TWO_POW_32
  /\ UNIX_TO_NTP_OFFSET_SECONDS \in Nat
  /\ SystemTimeSeconds \in Nat
  /\ BeforeNtpEpoch \notin [seconds : Nat, fraction : Nat]
  /\ OutOfSystemTimeRange \notin Int

NtpTimestamp == [seconds : 0 .. TWO_POW_32 - 1, fraction : 0 .. TWO_POW_32 - 1]
ZERO == [seconds |-> 0, fraction |-> 0]

\* Mutated form: the division comes before the shift.
FractionDividedFirst(nanos) == ((nanos % NANOS_PER_SECOND) \div NANOS_PER_SECOND) * TWO_POW_32

\* The code divides the dividend shifted by 32 bits and truncates.
FractionFromNanos(nanos) ==
  ((nanos % NANOS_PER_SECOND) * TWO_POW_32) \div NANOS_PER_SECOND
FractionToNanos(fraction) == (fraction * NANOS_PER_SECOND) \div TWO_POW_32

\* Mutated form: the seconds are rounded, not truncated.
ToTimestampRounded(instant) ==
  IF instant < 0
  THEN BeforeNtpEpoch
  ELSE [seconds  |-> ((instant + (NANOS_PER_SECOND \div 2)) \div NANOS_PER_SECOND) % TWO_POW_32,
        fraction |-> FractionFromNanos(instant % NANOS_PER_SECOND)]

\* NtpInstant::to_timestamp: the era is dropped, and there is none before 1900.
ToTimestamp(instant) ==
  IF instant < 0
  THEN BeforeNtpEpoch
  ELSE [seconds  |-> (instant \div NANOS_PER_SECOND) % TWO_POW_32,
        fraction |-> FractionFromNanos(instant % NANOS_PER_SECOND)]

\* NtpTimestamp::unfold: the era that brings the timestamp closest to the pivot.
Unfold(ts, pivot) ==
  LET pivot_seconds == pivot \div NANOS_PER_SECOND
      era == ((pivot_seconds - ts.seconds) + (TWO_POW_32 \div 2)) \div TWO_POW_32
  IN  ((ts.seconds + (era * TWO_POW_32)) * NANOS_PER_SECOND) + FractionToNanos(ts.fraction)

\* A SystemTime is a signed distance from 1970.
EpochNanos == UNIX_TO_NTP_OFFSET_SECONDS * NANOS_PER_SECOND
FromSystemTime(unix_nanos) == unix_nanos + EpochNanos

\* Mutated form: the sign is lost.
ToSystemTimeUnsigned(instant) ==
  LET unix_nanos == instant - EpochNanos
      magnitude == IF unix_nanos < 0 THEN -unix_nanos ELSE unix_nanos
  IN  IF magnitude \div NANOS_PER_SECOND >= SystemTimeSeconds
      THEN OutOfSystemTimeRange
      ELSE magnitude

\* NtpInstant::to_system_time splits the distance into whole seconds and the rest,
\* and fails where the platform cannot count that far.
ToSystemTime(instant) ==
  LET unix_nanos == instant - EpochNanos
      magnitude == IF unix_nanos < 0 THEN -unix_nanos ELSE unix_nanos
      seconds == magnitude \div NANOS_PER_SECOND
      distance == (seconds * NANOS_PER_SECOND) + (magnitude % NANOS_PER_SECOND)
  IN  IF seconds >= SystemTimeSeconds
      THEN OutOfSystemTimeRange
      ELSE IF unix_nanos >= 0 THEN distance ELSE -distance
=============================================================================
