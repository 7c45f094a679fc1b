------------------------------ MODULE Endpoint ------------------------------
(***************************************************************************)
(* serve_metrics of crates/heeler-server/src/metrics.rs: the listener and  *)
(* one task per connection, which renders the histogram of Metrics.        *)
(*                                                                         *)
(* Peers may be silent, send their request in two parts, hang up, or never *)
(* take their answer.  Connections that are accepted outlive the listener. *)
(***************************************************************************)
EXTENDS Metrics

CONSTANT Connections  \* at once; each may be used again once it is closed

ASSUME EndpointAssumption == Scrapes = Connections

VARIABLES
  conn,      \* per connection: where it is, and what its peer does
  backlog,   \* connections the system has completed, in the order accept returns them
  listening, \* is the loop of serve_metrics running?
  stop,      \* the shutdown flag
  failing    \* has accept failed since it last returned a connection?

evars == <<conn, backlog, listening, stop, failing>>

Whole == 2  \* a request has two parts; the first read may see one of them
Peer == [asks : {"GET /metrics ", "other"}, reads : BOOLEAN]

Closed == [at |-> "closed"]
Fresh(peer) ==
  [at |-> "backlog", peer |-> peer, sent |-> 0, hung_up |-> FALSE, early |-> FALSE,
   answer |-> "none"]
Open(c) == conn[c].at # "closed"

EInit ==
  /\ conn = [c \in Connections |-> Closed]
  /\ backlog = <<>>
  /\ listening = TRUE
  /\ stop = FALSE
  /\ failing = FALSE

-----------------------------------------------------------------------------
(* The peers and the operator *)

Connect(c, peer) ==
  /\ ~Open(c) /\ listening
  /\ conn' = [conn EXCEPT ![c] = Fresh(peer)]
  /\ backlog' = Append(backlog, c)
  /\ UNCHANGED <<mvars, listening, stop, failing>>

SendPart(c) ==
  /\ Open(c) /\ ~conn[c].hung_up /\ conn[c].sent < Whole
  /\ conn' = [conn EXCEPT ![c].sent = @ + 1]
  /\ UNCHANGED <<mvars, backlog, listening, stop, failing>>

HangUp(c) ==
  /\ Open(c) /\ ~conn[c].hung_up
  /\ conn' = [conn EXCEPT ![c].hung_up = TRUE]
  /\ UNCHANGED <<mvars, backlog, listening, stop, failing>>

SignalEndpoint ==
  /\ ~stop
  /\ stop' = TRUE
  /\ UNCHANGED <<mvars, conn, backlog, listening, failing>>

-----------------------------------------------------------------------------
(* The loop of serve_metrics.  The select is biased: the flag comes first. *)

\* Mutated forms: the select is not biased; a connection is served before the next one is
\* accepted.
MayAcceptUnbiased == listening
MayAcceptInTurn ==
  listening /\ ~stop /\ \A c \in Connections : conn[c].at \in {"closed", "backlog"}

MayAccept == listening /\ ~stop

Accept ==
  /\ MayAccept /\ backlog # <<>>
  /\ LET c == Head(backlog)
     IN  conn' = [conn EXCEPT ![c].at = "reading", ![c].early = conn[c].sent = Whole]
  /\ backlog' = Tail(backlog)
  /\ failing' = FALSE
  /\ UNCHANGED <<mvars, listening, stop>>

\* The error is logged and accept is called again.  When it fails again nothing changes.
AcceptFails ==
  /\ MayAccept /\ ~failing
  /\ failing' = TRUE
  /\ UNCHANGED <<mvars, conn, backlog, listening, stop>>

\* The listener is closed, and with it what it has not accepted.
StopListening ==
  /\ listening /\ stop
  /\ listening' = FALSE
  /\ conn' = [c \in Connections |-> IF conn[c].at = "backlog" THEN Closed ELSE conn[c]]
  /\ backlog' = <<>>
  /\ UNCHANGED <<mvars, stop, failing>>

Listener == Accept \/ AcceptFails \/ StopListening

-----------------------------------------------------------------------------
(* The task of one connection *)

\* One read, of whatever has arrived, which is nothing when the peer has hung up.
ReadRequest(c) ==
  /\ conn[c].at = "reading"
  /\ conn[c].sent > 0 \/ conn[c].hung_up
  /\ conn' = IF conn[c].sent = Whole /\ conn[c].peer.asks = "GET /metrics "
             THEN [conn EXCEPT ![c].at = "rendering", ![c].answer = "200"]
             ELSE [conn EXCEPT ![c].at = "writing", ![c].answer = "404"]
  /\ UNCHANGED <<mvars, backlog, listening, stop, failing>>

\* Mutated form: the limit counts from the connection, not from the read.
ReadTimesOutAnyway(c) ==
  /\ conn[c].at = "reading"
  /\ conn' = [conn EXCEPT ![c] = Closed]
  /\ UNCHANGED <<mvars, backlog, listening, stop, failing>>

\* The limit of five seconds, which counts only while there is nothing to read.
ReadTimesOut(c) ==
  /\ conn[c].at = "reading"
  /\ conn[c].sent = 0 /\ ~conn[c].hung_up
  /\ conn' = [conn EXCEPT ![c] = Closed]
  /\ UNCHANGED <<mvars, backlog, listening, stop, failing>>

ReadFails(c) ==
  /\ conn[c].at = "reading" /\ conn[c].hung_up
  /\ conn' = [conn EXCEPT ![c] = Closed]
  /\ UNCHANGED <<mvars, backlog, listening, stop, failing>>

Render(c) ==
  /\ conn[c].at = "rendering"
  /\ IF Rendered(c)
     THEN conn' = [conn EXCEPT ![c].at = "writing"] /\ UNCHANGED mvars
     ELSE LoadNext(c) /\ UNCHANGED conn
  /\ UNCHANGED <<backlog, listening, stop, failing>>

\* write_all and shutdown have no limit; they end when the peer takes the answer or is gone.
Write(c) ==
  /\ conn[c].at = "writing"
  /\ conn[c].peer.reads \/ conn[c].hung_up
  /\ conn' = [conn EXCEPT ![c] = Closed]
  /\ loaded' = [loaded EXCEPT ![c] = <<>>]
  /\ UNCHANGED <<cells, writing, observed, backlog, listening, stop, failing>>

Task(c) == ReadRequest(c) \/ ReadTimesOut(c) \/ ReadFails(c) \/ Render(c) \/ Write(c)

-----------------------------------------------------------------------------
Observe ==
  /\ \E l \in Loops : (\E nanos \in Durations : StartObserving(l, nanos)) \/ AddNext(l)
  /\ UNCHANGED evars

ENext ==
  \/ Observe
  \/ SignalEndpoint \/ Listener
  \/ \E c \in Connections :
       (\E peer \in Peer : Connect(c, peer)) \/ SendPart(c) \/ HangUp(c) \/ Task(c)

ESpec == MInit /\ EInit /\ [][ENext]_<<mvars, evars>>

\* The runtime runs every task that can go on; peers are not obliged to anything.  Accept
\* may fail any number of times in a row, but not for ever: the code has no other way out
\* of a lasting error than the shutdown flag.
EFairness == WF_<<mvars, evars>>(Listener) /\ \A c \in Connections : WF_<<mvars, evars>>(Task(c))

-----------------------------------------------------------------------------
\* A request for the metrics that had arrived in full when its connection was accepted
\* is served, unless its peer hangs up: neither the time limit nor the single read
\* can lose it.  (A request that comes in two parts may be answered with 404.)
EarlyRequestsAreServed ==
  \A c \in Connections :
    (conn[c].at = "reading" /\ conn[c].early /\ conn[c].peer.asks = "GET /metrics ")
      ~> (Open(c) /\ (conn[c].answer = "200" \/ conn[c].hung_up))

\* Every connection whose peer takes its answer is closed in the end, accepted or not,
\* even if it never sends a request, and although other peers never take theirs, as long as
\* accept does not fail for ever.
ConnectionsEnd ==
  \A c \in Connections : (Open(c) /\ conn[c].peer.reads) ~> ~Open(c)

\* After the signal the listener goes away, although connections keep arriving.
EndpointStops == stop ~> ~listening
=============================================================================
