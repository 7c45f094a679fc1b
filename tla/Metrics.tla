------------------------------ MODULE Metrics -------------------------------
(***************************************************************************)
(* The build-duration histogram of crates/heeler-server/src/metrics.rs:    *)
(* receive loops add to it one atomic counter at a time, and a scrape      *)
(* loads the counters one at a time, with no lock around either.  The      *)
(* accesses of one task are taken in program order.                        *)
(***************************************************************************)
EXTENDS Integers, Sequences, FiniteSets

CONSTANTS
  Loops,
  Durations,        \* nanoseconds a response may take to build
  BUILD_BUCKETS,    \* the upper bounds of the buckets, a sequence (6 in the code)
  U64,              \* 2^64 in the code
  Scrapes,          \* what may render the metrics: one task per connection
  MaxObservations   \* bound of the model

ASSUME MetricsAssumption ==
  /\ IsFiniteSet(Loops)
  /\ U64 \in Nat \ {0}
  /\ Durations \subseteq 0 .. U64 - 1
  /\ BUILD_BUCKETS \in Seq(Nat)
  /\ \A i, j \in DOMAIN BUILD_BUCKETS : i < j => BUILD_BUCKETS[i] < BUILD_BUCKETS[j]
  /\ MaxObservations \in Nat

VARIABLES
  cells,     \* the buckets, then build_count, then build_sum_nanos
  writing,   \* per loop: the duration it observes and the next cell it comes to
  loaded,    \* per scrape: the cells loaded so far
  observed   \* history: how many durations were observed, of at most each bound and at
             \* all, and their total

mvars == <<cells, writing, loaded, observed>>

Buckets == DOMAIN BUILD_BUCKETS
Count == Len(BUILD_BUCKETS) + 1
SumCell == Count + 1
Cells == 1 .. SumCell
Idle == [nanos |-> 0, next |-> SumCell + 1]

Rendered(s) == Len(loaded[s]) = SumCell

\* The history with one more duration, or with many of the same.
Observed(o, nanos, times) ==
  [at_most |-> [i \in Buckets |-> IF nanos <= BUILD_BUCKETS[i] THEN o.at_most[i] + times
                                                               ELSE o.at_most[i]],
   count   |-> o.count + times,
   total   |-> o.total + (times * nanos)]
Unobserved == [at_most |-> [i \in Buckets |-> 0], count |-> 0, total |-> 0]

MInit ==
  /\ cells = [i \in Cells |-> 0]
  /\ writing = [l \in Loops |-> Idle]
  /\ loaded = [s \in Scrapes |-> <<>>]
  /\ observed = Unobserved

\* observe_build_duration, as a loop enters it.
StartObserving(l, nanos) ==
  /\ writing[l] = Idle
  /\ observed.count < MaxObservations
  /\ writing' = [writing EXCEPT ![l] = [nanos |-> nanos, next |-> 1]]
  /\ observed' = Observed(observed, nanos, 1)
  /\ UNCHANGED <<cells, loaded>>

\* Mutated forms: the bound is exclusive; only the first bucket that fits is counted.
IncrementBelow(nanos, i) ==
  IF i = SumCell THEN nanos
  ELSE IF i = Count \/ nanos < BUILD_BUCKETS[i] THEN 1
  ELSE 0
IncrementFirstOnly(nanos, i) ==
  IF i = SumCell THEN nanos
  ELSE IF i = Count \/ (nanos <= BUILD_BUCKETS[i] /\ \A j \in Buckets : j < i => nanos > BUILD_BUCKETS[j])
  THEN 1
  ELSE 0

\* What an observation adds to a cell.
Increment(nanos, i) ==
  IF i = SumCell THEN nanos
  ELSE IF i = Count \/ nanos <= BUILD_BUCKETS[i] THEN 1
  ELSE 0

\* One fetch_add of it, or a bucket passed over.
AddNext(l) ==
  LET w == writing[l]
  IN  /\ w # Idle
      /\ cells' = [cells EXCEPT ![w.next] = (@ + Increment(w.nanos, w.next)) % U64]
      /\ writing' = [writing EXCEPT ![l] = IF w.next = SumCell THEN Idle
                                           ELSE [w EXCEPT !.next = @ + 1]]
      /\ UNCHANGED <<loaded, observed>>

\* One load of render.
LoadNext(s) ==
  /\ ~Rendered(s)
  /\ loaded' = [loaded EXCEPT ![s] = Append(@, cells[Len(@) + 1])]
  /\ UNCHANGED <<cells, writing, observed>>

-----------------------------------------------------------------------------
\* Between observations the histogram is exact, whatever interleaving led there: bucket
\* i holds the observations of at most its bound, the count all of them, the sum
\* their total.
ExactWhenQuiet ==
  (\A l \in Loops : writing[l] = Idle) =>
    /\ \A i \in Buckets : cells[i] = observed.at_most[i] % U64
    /\ cells[Count] = observed.count % U64
    /\ cells[SumCell] = observed.total % U64

\* A scrape that overlaps observations is torn by at most one observation per loop:
\* a bucket never exceeds the next one, or the count, by more than the number of
\* loops, however long the scrape took and however many observations it overlapped.
TornByAtMostLoops ==
  observed.count < U64 =>
    \A s \in Scrapes, i \in Buckets :
      Rendered(s) => loaded[s][i] <= loaded[s][i + 1] + Cardinality(Loops)
=============================================================================
