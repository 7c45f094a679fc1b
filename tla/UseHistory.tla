---------------------------- MODULE UseHistory -----------------------------
(***************************************************************************)
(* The rate limiter with the history an eviction is about: when the entry  *)
(* of a client was really last used, which is not what last_seen says.     *)
(* The history variable never influences a step of RateLimiter.            *)
(***************************************************************************)
EXTENDS RateLimiter

\* A disabled limiter keeps no entries: there is nothing to keep a history of.
ASSUME UseHistoryAssumption == enabled

VARIABLE used  \* per client: the moment, on mono, at which check() last touched its entry

uvars == <<vars, used>>

UInit == Init /\ used = [c \in Clients |-> 0]

Use(c) == used' = [used EXCEPT ![c] = mono]

UCheck(l) ==
  \/ /\ CheckKnownAllowed(l) \/ CheckLimitedPerClient(l) \/ CheckNewAllowed(l)
     /\ Use(pending[l].source)
  \/ (CheckLimitedGlobal(l) \/ CheckTableFull(l)) /\ UNCHANGED used

UNext ==
  \/ (Tick \/ StartSweep \/ Sweep) /\ UNCHANGED used
  \/ \E l \in Loops :
       \/ \E c \in Clients : StartCheck(l, c) /\ UNCHANGED used
       \/ UCheck(l)

USpec == UInit /\ [][UNext]_uvars

-----------------------------------------------------------------------------
\* A client's entry, and with it the record of what the client has used up, is not
\* evicted while it is in use.  Neither the forced scan nor the housekeeping sweep
\* leaves it the whole time to live since its last use: a check that waited for the
\* mutex stores the reading it waited with, and so may move last_seen back behind a
\* use that overtook it.  What is lost is never more than the longest wait, however
\* the loops' checks and the sweeps interleave.
EvictedOnlyWhenIdle ==
  [][\A c \in DOMAIN clients \ DOMAIN clients' :
       mono + MaxDelay >= used[c] + client_entry_ttl]_uvars
=============================================================================
