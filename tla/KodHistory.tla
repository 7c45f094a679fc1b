---------------------------- MODULE KodHistory -----------------------------
(***************************************************************************)
(* The rate limiter with the history its Kiss-o'-Death throttle is about:  *)
(* per client, how many requests were let through, how many were limited,  *)
(* and for how many of those check() suggested a Kiss-o'-Death.  The       *)
(* history variables never influence a step of RateLimiter.                *)
(***************************************************************************)
EXTENDS RateLimiter

CONSTANT MaxLimited  \* bound of the model: a client limited that often sends no more

\* A disabled limiter limits nobody: there is nothing to keep a history of.
ASSUME KodHistoryAssumption == enabled /\ MaxLimited \in Nat

VARIABLES
  allowed,  \* per client: requests Allowed
  limited,  \* per client: requests LimitedPerClient
  kods      \* per client: requests LimitedPerClient with send_kod

khistory == <<allowed, limited, kods>>
kvars == <<vars, khistory>>

KInit ==
  /\ Init
  /\ allowed = [c \in Clients |-> 0]
  /\ limited = [c \in Clients |-> 0]
  /\ kods = [c \in Clients |-> 0]

NoteAllowed(c) ==
  allowed' = [allowed EXCEPT ![c] = @ + 1] /\ UNCHANGED <<limited, kods>>
NoteLimited(c, send_kod) ==
  /\ limited' = [limited EXCEPT ![c] = @ + 1]
  /\ kods' = [kods EXCEPT ![c] = @ + (IF send_kod THEN 1 ELSE 0)]
  /\ UNCHANGED allowed

KCheck(l) ==
  LET c == pending[l].source
  IN  \/ (CheckKnownAllowed(l) \/ CheckNewAllowed(l)) /\ NoteAllowed(c)
      \/ CheckLimitedPerClient(l) /\ NoteLimited(c, SendKod(l))
      \/ (CheckLimitedGlobal(l) \/ CheckTableFull(l)) /\ UNCHANGED khistory

KNext ==
  \/ (Tick \/ StartSweep \/ Sweep) /\ UNCHANGED khistory
  \/ \E l \in Loops :
       \/ \E c \in Clients :
            limited[c] < MaxLimited /\ StartCheck(l, c) /\ UNCHANGED khistory
       \/ KCheck(l)

KSpec == KInit /\ [][KNext]_kvars

-----------------------------------------------------------------------------
\* Over the whole life of the limiter a client is suggested a Kiss-o'-Death for at
\* most one in KOD_INTERVAL of its limited requests, plus one for each time it was
\* let through in between: not even eviction, re-creation or the wrap of
\* limited_count turns a stream of limited requests into a 1:1 stream of
\* Kiss-o'-Death packets (the comment on KOD_INTERVAL).
KodThrottle ==
  \A c \in Clients :
    KOD_INTERVAL * kods[c] <= limited[c] + (KOD_INTERVAL - 1) * allowed[c]
=============================================================================
