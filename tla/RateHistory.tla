---------------------------- MODULE RateHistory ----------------------------
(***************************************************************************)
(* The rate limiter with the history a rate limit is about: how many       *)
(* requests were let through, and over how much time.  The history         *)
(* variables never influence a step of RateLimiter.                        *)
(***************************************************************************)
EXTENDS RateLimiter

\* A disabled limiter lets everything through: there is nothing to keep a history of.
ASSUME RateHistoryAssumption == enabled

VARIABLES
  admitted,  \* per client: requests Allowed since the limiter was created
  spent,     \* tokens taken from the global bucket
  rewound,   \* how far, in total, last_refill of the global bucket moved back
  forced     \* scans of a full table forced by a new client

history == <<admitted, spent, rewound, forced>>
hvars == <<vars, history>>

HInit ==
  /\ Init
  /\ admitted = [c \in Clients |-> 0]
  /\ spent = 0
  /\ rewound = 0
  /\ forced = 0

Admit(c) == admitted' = [admitted EXCEPT ![c] = @ + 1]

\* What a call did to the global bucket, and whether it scanned the table.
NoteGlobal(now) ==
  IF global_requests_per_second > 0
  THEN /\ spent' = spent + (IF GlobalTakes(now) THEN 1 ELSE 0)
       /\ rewound' = rewound + SaturatingSince(global.last_refill, now)
  ELSE UNCHANGED <<spent, rewound>>
NoteScan(now) == forced' = forced + (IF ForcesSweep(now) THEN 1 ELSE 0)

HCheck(l) ==
  LET c == pending[l].source
      now == pending[l].now
  IN  \/ CheckLimitedGlobal(l) /\ NoteGlobal(now) /\ UNCHANGED <<admitted, forced>>
      \/ CheckKnownAllowed(l) /\ Admit(c) /\ NoteGlobal(now) /\ UNCHANGED forced
      \/ CheckLimitedPerClient(l) /\ NoteGlobal(now) /\ UNCHANGED <<admitted, forced>>
      \/ CheckTableFull(l) /\ NoteGlobal(now) /\ NoteScan(now) /\ UNCHANGED admitted
      \/ CheckNewAllowed(l) /\ Admit(c) /\ NoteGlobal(now) /\ NoteScan(now)

HNext ==
  \/ (Tick \/ StartSweep \/ Sweep) /\ UNCHANGED history
  \/ \E l \in Loops :
       \/ \E c \in Clients : StartCheck(l, c) /\ UNCHANGED history
       \/ HCheck(l)

HSpec == HInit /\ [][HNext]_hvars

-----------------------------------------------------------------------------
\* The server has one socket, and hence one receive loop.
OneLoop == \A k, l \in Loops : k = l

\* A full table cannot force more than one O(n) scan per second of the monotonic
\* clock, counted over the whole life of the limiter and whatever stale clock
\* readings the checks carry (SECURITY.md, "at most one forced eviction scan per
\* second").  It is a count, not a distance: a scan with a stale reading puts
\* last_forced_sweep in the past, and the next one may follow within the second.
ForcedScanBound == forced * Second <= mono

\* Over the life of the limiter the global bucket lets through no more than its
\* burst plus its rate times the elapsed time, plus its rate times the distance by
\* which stale clock readings moved last_refill back: a check that waited for the
\* mutex while a later reading overtook it makes the same interval refill twice.
GlobalRateBound ==
  spent * Second <= global_burst * Second
                    + global_requests_per_second * (mono + rewound)

\* What the settings say: global_requests_per_second is the sustained rate, and
\* global_burst the burst.  It holds when there is one receive loop.
GlobalSustainedRate ==
  spent * Second <= global_burst * Second + global_requests_per_second * mono

\* Idle entries are forgotten, and a forgotten client starts with a full bucket
\* again.  When an entry outlives the time its bucket needs to fill up, with the
\* wait for the mutex to spare, that is no way around the limit.
EntriesOutliveRefill ==
  /\ client_entry_ttl >= MaxDelay
  /\ requests_per_second * (client_entry_ttl - MaxDelay) >= burst * Second

\* Per client, with one receive loop: over the whole life of the limiter, and across
\* evictions, at most the burst plus the sustained rate times the elapsed time.
ClientSustainedRate ==
  EntriesOutliveRefill =>
    \A c \in Clients :
      admitted[c] * Second <= burst * Second + requests_per_second * mono
=============================================================================
