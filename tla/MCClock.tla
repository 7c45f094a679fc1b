------------------------------ MODULE MCClock -------------------------------
(* The system clock with its history on small instances, for TLC. *)
EXTENDS ClockHistory

\* From before 1900 to the second era, in steps below, at and above the thresholds.
MCOffsets == {-1, 0, 1, 2, 4, 6, 9}
=============================================================================
