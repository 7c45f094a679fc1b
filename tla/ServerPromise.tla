--------------------------- MODULE ServerPromise ----------------------------
(***************************************************************************)
(* The server seen as an implementation of Responder: a loop's place and   *)
(* record are a worker's task, the wall clock is the time, and the status  *)
(* housekeeping keeps is the trust.                                        *)
(***************************************************************************)
EXTENDS Server

\* Up to the moment its answer is stamped, a loop holds a question, and hopes for the
\* time if the clock was trusted as it received it.
Task(r) ==
  IF r.at \in {"select", "stopped"}
  THEN [is |-> "nothing"]
  ELSE IF r.at = "send"
  THEN [is |-> "answer", source |-> r.source, reply |-> r.reply]
  ELSE [is |-> "question", source |-> r.source, data |-> r.data,
        received |-> r.receive, hope |-> ~r.alarm]
tasks == [l \in Loops |-> Task(loop[l])]

\* The server keeps the promise of Responder: a datagram is answered at most once, and
\* only if it is a request; T2 and T3 are readings of the clock as it is received and
\* as the answer leaves, so that T3 precedes T2 only if the clock was set back
\* between; and what it says of its clock was true at some moment in between.
Promise == INSTANCE Responder WITH
  Workers <- Loops, Sources <- Clients, Refused <- DeniedClients,
  Arrivals <- {Truncated(d) : d \in Datagrams},
  time <- wall, trusted <- synchronised, task <- tasks
KeepsPromise == Promise!RSpec
=============================================================================
