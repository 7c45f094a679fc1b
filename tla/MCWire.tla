------------------------------- MODULE MCWire -------------------------------
(***************************************************************************)
(* What goes over the wire, over bounded inputs, for TLC.                  *)
(*                                                                         *)
(* Timestamps: a server whose clock advances from any start, and a client  *)
(* that reads its timestamps against a clock of its own, anywhere near.    *)
(*                                                                         *)
(* Packets: a datagram with every flag byte, and lengths and values at the *)
(* edges, is answered, and the answer goes round to a server of the same   *)
(* kind.                                                                   *)
(*                                                                         *)
(* Queries: a client and a server across the network, around the start of  *)
(* the first era and around the end of it.                                 *)
(*                                                                         *)
(* The inspector: short texts, and the years of four centuries on either   *)
(* side of 2000.                                                           *)
(***************************************************************************)
EXTENDS Wire, Client, Inspect

CONSTANT MaxText  \* the length of a text

VARIABLE input    \* what the inspector looks at, or what else is done

all == <<wire, qvars, input>>

Identity ==
  [leap |-> 1, stratum |-> 2, default_poll |-> 0, precision |-> -20, reference_id |-> "HLER"]

\* Three eras and a bit before 1900.
Instants == -NANOS_PER_SECOND .. MaxInstant

Stamps == {ZERO, [seconds |-> 1, fraction |-> 0]}
MCDatagrams ==
  [len : {0, PACKET_SIZE - 1, PACKET_SIZE, PACKET_SIZE + 1}, flags : Byte, stratum : {255},
   poll : {0, 4, 17, 18, 127, 128, 255}, precision : {236}, reference_id : {"GPS"},
   reference_timestamp : {ZERO}, origin_timestamp : {ZERO}, receive_timestamp : {ZERO},
   transmit_timestamp : Stamps]

\* What else a client may hear: a datagram cut short, and one that is not an answer.
MCNoise ==
  LET data == Encode(Request(ZERO)) IN {[data EXCEPT !.len = 1], data}

Starts == {-1, (TWO_POW_32 * NANOS_PER_SECOND) - 3}
Skews == {-13, 1, 13}
ASSUME SkewsAssumption == Skews \cup {0} \subseteq NearSkews

Texts == UNION {[1 .. n -> Characters] : n \in 0 .. MaxText}
Inspected ==
  {[kind |-> "year", year |-> y] : y \in 1600 .. 2400} \cup {[kind |-> "hex", text |-> t] : t \in Texts}
NoInput == [kind |-> "none"]
Querying == [kind |-> "query"]

\* All clocks and no datagram; all datagrams at an instant that encodes to the zero
\* timestamp and at one that does not; a client; or the inspector.
Init ==
  \/ WInit(Instants, Instants, {NoDatagram}) /\ ClientInit({0}, {0}) /\ input = NoInput
  \/ WInit({0, NANOS_PER_SECOND}, {0}, Datagrams) /\ ClientInit({0}, {0}) /\ input = NoInput
  \/ WInit({0}, {0}, {NoDatagram}) /\ ClientInit(Starts, Skews) /\ input = Querying
  \/ WInit({MaxInstant}, {0}, {NoDatagram}) /\ ClientInit({0}, {0}) /\ input \in Inspected

ClockStep == input = NoInput /\ datagram = NoDatagram /\ Advance /\ UNCHANGED <<qvars, input>>
AnswerStep == input = NoInput /\ (AnswerTime \/ AnswerKiss) /\ UNCHANGED <<qvars, input>>

\* Nothing more is looked at once the last query has ended.
ClientStep ==
  /\ input = Querying
  /\ query.at = "waiting" \/ queries < MaxQueries
  /\ ClientNext
  /\ UNCHANGED <<wire, input>>

Next == ClockStep \/ AnswerStep \/ ClientStep

\* Time goes on, and recv keeps its limit.
Querier(step) == input = Querying /\ query.at = "waiting" /\ step /\ UNCHANGED <<wire, input>>
Spec == Init /\ [][Next]_all /\ WF_all(Querier(CTick)) /\ WF_all(Querier(TimeOut))

-----------------------------------------------------------------------------
\* The inspector's dates are those of the Gregorian calendar, for every day around every
\* end of a month, leap day and century (civil_from_days).
CalendarIsGregorian == input.kind = "year" => YearIsGregorian(input.year)

\* Every text is read or refused: the digits are never read past their end, although
\* their number is checked in bytes and they are taken as characters, and what is read
\* is one byte for two digits (decode_hex).
HexIsReadOrRefused ==
  input.kind = "hex" =>
    LET outcome == DecodeHex(input.text)
    IN  /\ outcome # Panic
        /\ IF IsHex(input.text)
           THEN Len(outcome.bytes) = Len(Cleaned(input.text)) \div 2
           ELSE outcome \in {OddLength} \cup {InvalidHex(p) : p \in 0 .. MaxText}
=============================================================================
