---------------------------- MODULE ClockHistory ----------------------------
(***************************************************************************)
(* The system clock with the history its jump detection is about: what was *)
(* really done to the wall clock, against what check_jump could see.  The  *)
(* history variables never influence a step of SystemClock.                *)
(***************************************************************************)
EXTENDS SystemClock

VARIABLES
  stepped,       \* was the wall clock ever set?
  first_offset,  \* the offset at the wall clock reading of SystemClockSource::new
  base_offset,   \* the offset at the wall clock reading kept in jump_state
  read_offset,   \* the offset at the wall clock reading kept in now_wall
  checks         \* how many checks were made

history == <<stepped, first_offset, base_offset, read_offset, checks>>
cvars == <<mono, offset, clock, history>>

HistoryType ==
  /\ stepped \in BOOLEAN
  /\ first_offset \in Offsets /\ base_offset \in Offsets /\ read_offset \in Offsets
  /\ checks \in Nat

CTypeOK == ClockTypeOK /\ HistoryType

\* How long the monotonic clock was read after the wall clock, in new.
FirstGap == first_offset - jump_state.last_wall

CInit ==
  /\ ClockInit
  /\ first_offset \in Offsets
  /\ FirstGap \in 0 .. MaxReadGap
  /\ base_offset = first_offset
  /\ read_offset = first_offset
  /\ stepped = (first_offset # offset)
  /\ checks = 0

CNext ==
  \/ ClockTick /\ UNCHANGED history
  \/ SetWallClock /\ stepped' = TRUE /\ UNCHANGED <<first_offset, base_offset, read_offset, checks>>
  \/ CheckReadsWall /\ read_offset' = offset
     /\ UNCHANGED <<stepped, first_offset, base_offset, checks>>
  \/ CheckCompares /\ base_offset' = read_offset /\ checks' = checks + 1
     /\ UNCHANGED <<stepped, first_offset, read_offset>>

CSpec == CInit /\ [][CNext]_cvars

-----------------------------------------------------------------------------
\* Nobody touched the wall clock: then however long the task was preempted between
\* its two clock readings, up to the thresholds, the source is not given up for good.
\* (check_jump; a longer wait than max_backward does that, with no jump at all.)
NoFalseAlarm ==
  ~stepped /\ MaxReadGap <= max_backward /\ MaxReadGap <= max_forward => synchronised

\* A wall clock found moved between two checks by more than the threshold, and the
\* wait between the readings, leaves the source unsynchronised.
Moved == read_offset - base_offset
JumpIsCaught ==
  [][/\ mark_unsynchronised_on_jump
     /\ checks' # checks
     /\ Moved > max_forward + MaxReadGap \/ Moved < -(max_backward + MaxReadGap)
     => ~synchronised']_cvars

\* What the detection promises in the long run: while the source claims to be
\* synchronised, the wall clock has moved since the start by no more than the
\* thresholds allow per check.  (It may creep that far: check_jump compares with the
\* last check, never with the start.)
CreepIsBounded ==
  mark_unsynchronised_on_jump /\ synchronised =>
    /\ base_offset - first_offset <= (checks * max_forward) + MaxReadGap
    /\ first_offset - base_offset <= (checks * max_backward) + MaxReadGap

\* While the source is trusted, the reference timestamp is the wall clock reading of
\* the latest check, the one of new at first (or an earlier one, if that reading lies
\* before 1900): it is never a time at which the source was not yet checked.
ReferenceIsLatestCheck ==
  mark_unsynchronised_on_jump /\ synchronised /\ jump_state.last_wall >= 0 =>
    reference = ToTimestamp(jump_state.last_wall)
=============================================================================
