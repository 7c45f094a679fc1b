----------------------------- MODULE MCOneLoop ------------------------------
(***************************************************************************)
(* The rate limiter of a server with one socket, with both its histories,  *)
(* on small instances, for TLC.                                            *)
(***************************************************************************)
EXTENDS RateHistory, KodHistory, TLC

OneLoopInit == HInit /\ KInit
OneLoopNext == HNext /\ KNext

OneLoopSpec == OneLoopInit /\ [][OneLoopNext]_<<hvars, kvars>>

ClientSymmetry == Permutations(Clients)
=============================================================================
