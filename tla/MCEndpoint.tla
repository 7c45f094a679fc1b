----------------------------- MODULE MCEndpoint -----------------------------
(***************************************************************************)
(* The histogram and the endpoint that renders it, from two families of    *)
(* initial states, so that neither multiplies the other: a connection that *)
(* has sent its request, while loops observe; and connections that come    *)
(* and go, with all observations made.                                     *)
(***************************************************************************)
EXTENDS Endpoint

MCBuckets == <<1, 5, 10>>

Scraper == CHOOSE c \in Connections : TRUE

Scraping ==
  /\ MInit
  /\ backlog = <<>> /\ listening = FALSE /\ stop = TRUE /\ failing = FALSE
  /\ conn = [c \in Connections |->
               IF c = Scraper
               THEN [Fresh([asks |-> "GET /metrics ", reads |-> TRUE]) EXCEPT
                       !.at = "rendering", !.sent = Whole, !.answer = "200"]
               ELSE Closed]

\* One loop made all the observations, of the shortest duration.
Serving ==
  /\ EInit
  /\ writing = [l \in Loops |-> Idle]
  /\ loaded = [s \in Scrapes |-> <<>>]
  /\ \E shortest \in Durations :
       /\ \A n \in Durations : shortest <= n
       /\ observed = Observed(Unobserved, shortest, MaxObservations)
       /\ cells = [i \in Cells |-> MaxObservations * Increment(shortest, i)]

Spec == (Scraping \/ Serving) /\ [][ENext]_<<mvars, evars>> /\ EFairness
=============================================================================
