--------------------------- MODULE MCRateHistory ---------------------------
(***************************************************************************)
(* The rate limiter with the histories of its rates and of the use of its  *)
(* entries, on small instances, for TLC.                                   *)
(***************************************************************************)
EXTENDS RateHistory, UseHistory, TLC

LimiterInit == HInit /\ UInit
LimiterNext == HNext /\ UNext

LimiterSpec == LimiterInit /\ [][LimiterNext]_<<hvars, uvars>>

ClientSymmetry == Permutations(Clients)
Symmetry == ClientSymmetry \cup Permutations(Loops)
=============================================================================
