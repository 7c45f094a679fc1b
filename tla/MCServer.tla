------------------------------ MODULE MCServer ------------------------------
(***************************************************************************)
(* The server on small instances: one or two sockets, clients that may ask *)
(* and one that may not, and one datagram of every kind the code tells     *)
(* apart.                                                                  *)
(***************************************************************************)
EXTENDS ServerPromise, TLC

CONSTANT Kinds  \* the kinds of datagram that arrive

Identity ==
  [leap |-> 0, stratum |-> 2, default_poll |-> 6, precision |-> -20, reference_id |-> "HLER"]

\* Version 4, mode 3, with a transmit timestamp.
Request ==
  [len |-> PACKET_SIZE, flags |-> 35, stratum |-> 0, poll |-> 6, precision |-> 0,
   reference_id |-> "GPS", reference_timestamp |-> ZERO, origin_timestamp |-> ZERO,
   receive_timestamp |-> ZERO, transmit_timestamp |-> [seconds |-> 1, fraction |-> 1]]

Kind(k) ==
  CASE k = "request"  -> Request
    [] k = "short"    -> [Request EXCEPT !.len = PACKET_SIZE - 1]
    [] k = "trailing" -> [Request EXCEPT !.len = PACKET_SIZE + 4]
    [] k = "long"     -> [Request EXCEPT !.len = max_packet_size + 9]
    [] k = "version"  -> [Request EXCEPT !.flags = 19]
    [] k = "mode"     -> [Request EXCEPT !.flags = 36]
    [] k = "zero"     -> [Request EXCEPT !.transmit_timestamp = ZERO]

MCDatagrams == {Kind(k) : k \in Kinds}

\* The wall clock stays as it is, or may jump to before 1900 and back.
SteadyClock == {3}
FailingClock == {3, -4}
\* It may be set back to before 1900, from where it is in 1900 again one step later.
SetBackClock == {3, -1}

\* The clients the rules do not name are interchangeable.
ClientSymmetry == Permutations(Clients \ DeniedClients)
=============================================================================
