---------------------------- MODULE SystemClock ----------------------------
(***************************************************************************)
(* SystemClockSource of crates/heeler-core/src/clock.rs: the wall clock,   *)
(* watched for jumps by comparing it with the monotonic clock.  The wall   *)
(* clock is the monotonic one plus an offset that whoever sets the clock   *)
(* may change at any moment.  The housekeeping task alone calls            *)
(* check_jump, which reads the two clocks one after the other; the receive *)
(* loops read the wall clock, the status and the reference timestamp.      *)
(***************************************************************************)
EXTENDS Timestamp

CONSTANTS
  \* JumpPolicy
  max_backward,
  max_forward,
  mark_unsynchronised_on_jump,
  \* the environment
  Offsets,     \* what the wall clock can be ahead of the monotonic clock
  CheckPeriod, \* the period of the housekeeping task (1 s in the code)
  MaxReadGap,  \* longest wait between the two clock readings of one check
  MaxMono,     \* bound of the model on the monotonic clock
  NoReading    \* no reading of the wall clock is held

ASSUME SystemClockAssumption ==
  /\ max_backward \in Nat
  /\ max_forward \in Nat
  /\ mark_unsynchronised_on_jump \in BOOLEAN
  /\ Offsets \subseteq Int
  /\ CheckPeriod \in Nat \ {0}
  /\ MaxReadGap \in Nat
  /\ MaxMono \in Nat
  /\ NoReading \notin Int

VARIABLES
  mono,          \* the monotonic clock
  offset,        \* how far the wall clock is ahead of it
  synchronised,  \* SystemClockSource.synchronised
  reference,     \* SystemClockSource.reference
  jump_state,    \* SystemClockSource.jump_state
  now_wall,      \* check_jump: the wall clock read, the monotonic not yet
  read_at,       \* the moment now_wall was read
  next_check     \* the next tick of the housekeeping task

clock == <<synchronised, reference, jump_state, now_wall, read_at, next_check>>

wall == mono + offset

ClockTypeOK ==
  /\ mono \in 0 .. MaxMono
  /\ offset \in Offsets
  /\ synchronised \in BOOLEAN
  /\ reference \in NtpTimestamp
  /\ jump_state \in [last_wall : Int, last_mono : Nat]
  /\ now_wall \in Int \cup {NoReading}
  /\ read_at \in Nat
  /\ next_check \in Nat

-----------------------------------------------------------------------------
\* SystemClockSource::new reads the wall clock, fails before 1900, and then reads the
\* monotonic clock, which is where the time of the model begins.
ClockInit ==
  /\ mono = 0
  /\ offset \in Offsets
  /\ synchronised = TRUE
  /\ \E first \in Offsets, gap \in 0 .. MaxReadGap :
       /\ ToTimestamp(first - gap) # BeforeNtpEpoch
       /\ reference = ToTimestamp(first - gap)
       /\ jump_state = [last_wall |-> first - gap, last_mono |-> 0]
  /\ now_wall = NoReading
  /\ read_at = 0
  /\ next_check = 0

\* Time passes on both clocks.
ClockTick ==
  /\ mono < MaxMono
  /\ now_wall # NoReading => mono < read_at + MaxReadGap
  /\ mono' = mono + 1
  /\ UNCHANGED <<offset, clock>>

\* The wall clock is set, or a suspended machine wakes up.
SetWallClock ==
  /\ offset' \in Offsets \ {offset}
  /\ UNCHANGED <<mono, clock>>

\* ClockSource::now, for the receive loops.
ReadClock == ToTimestamp(wall)

\* A tick of housekeeping, the first at once; ticks missed are skipped
\* (MissedTickBehavior::Skip), so the next one is due at a multiple of the period.
\* check_jump then reads the wall clock.
CheckReadsWall ==
  /\ now_wall = NoReading
  /\ mono >= next_check
  /\ next_check' = ((mono \div CheckPeriod) + 1) * CheckPeriod
  /\ now_wall' = wall
  /\ read_at' = mono
  /\ UNCHANGED <<mono, offset, synchronised, reference, jump_state>>

Drift == (now_wall - jump_state.last_wall) - (mono - jump_state.last_mono)
\* Mutated forms: no tolerance backwards, and no look backwards or forwards.
JumpedAtOnce == Drift < 0 \/ Drift > max_forward
JumpedForward == Drift > max_forward
JumpedBackward == Drift < -max_backward

Jumped == Drift < -max_backward \/ Drift > max_forward

\* Mutated forms: the reference is kept for good, and the status recovers.
CheckKeepsReference ==
  /\ now_wall # NoReading
  /\ jump_state' = [last_wall |-> now_wall, last_mono |-> mono]
  /\ synchronised' = (synchronised /\ ~(Jumped /\ mark_unsynchronised_on_jump))
  /\ now_wall' = NoReading
  /\ UNCHANGED <<mono, offset, reference, read_at, next_check>>
CheckRecovers ==
  /\ now_wall # NoReading
  /\ jump_state' = [last_wall |-> now_wall, last_mono |-> mono]
  /\ synchronised' = ~(Jumped /\ mark_unsynchronised_on_jump)
  /\ reference' = IF ~Jumped /\ ToTimestamp(now_wall) # BeforeNtpEpoch
                  THEN ToTimestamp(now_wall)
                  ELSE reference
  /\ now_wall' = NoReading
  /\ UNCHANGED <<mono, offset, read_at, next_check>>

\* check_jump, the rest.  Only housekeeping writes these fields, and one check writes
\* either the status or the reference, so no reader can see the check half done.
CheckCompares ==
  /\ now_wall # NoReading
  /\ jump_state' = [last_wall |-> now_wall, last_mono |-> mono]
  /\ synchronised' = (synchronised /\ ~(Jumped /\ mark_unsynchronised_on_jump))
  /\ reference' = IF ~Jumped /\ synchronised /\ ToTimestamp(now_wall) # BeforeNtpEpoch
                  THEN ToTimestamp(now_wall)
                  ELSE reference
  /\ now_wall' = NoReading
  /\ UNCHANGED <<mono, offset, read_at, next_check>>

ClockNext == ClockTick \/ SetWallClock \/ CheckReadsWall \/ CheckCompares

ClockSpec == ClockInit /\ [][ClockNext]_<<mono, offset, clock>>
=============================================================================
