---------------------------- MODULE ReportProofs ----------------------------
(***************************************************************************)
(* What an operator reads: a scrape of the build-duration histogram, for   *)
(* any number of receive loops and connections, any buckets and any        *)
(* durations; and the dates and the bytes of the packet inspector, for     *)
(* every day and every text.                                               *)
(***************************************************************************)
EXTENDS Endpoint, Inspect, FiniteSetTheorems, WellFoundedInduction, TLAPS

-----------------------------------------------------------------------------
(* The histogram: the invariant *)

\* What a cell should hold by the observations that were begun.
Due(i) ==
  IF i = SumCell THEN observed.total
  ELSE IF i = Count THEN observed.count
  ELSE observed.at_most[i]

\* What the loops have still to add to a cell, one element per unit.
Owed(i) ==
  {u \in Loops \X (1 .. U64) :
     writing[u[1]].next <= i /\ u[2] \in 1 .. Increment(writing[u[1]].nanos, i)}

MTypeOK ==
  /\ cells \in [Cells -> 0 .. U64 - 1]
  /\ writing \in [Loops -> [nanos : Durations, next : Cells] \cup {Idle}]
  /\ loaded \in [Scrapes -> Seq(0 .. U64 - 1)]
  /\ \A s \in Scrapes : Len(loaded[s]) <= SumCell
  /\ observed \in [at_most : [Buckets -> Nat], count : Nat, total : Nat]

\* A cell and what is owed to it make up what is due, up to the width of a counter.
CellsHold ==
  \A i \in Cells : \E q \in Nat : Due(i) = cells[i] + (U64 * q) + Cardinality(Owed(i))

\* A longer bound covers what a shorter one does.
BoundsHold ==
  /\ \A i \in Buckets : Due(i) <= Due(i + 1)
  /\ \A i \in Buckets : Due(i) <= observed.count

\* What a scrape has loaded is behind the cell it loads next by the loops at most.
ScrapesHold ==
  observed.count < U64 =>
    \A s \in Scrapes, i \in Buckets :
      /\ i < Len(loaded[s]) => loaded[s][i] <= loaded[s][i + 1] + Cardinality(Loops)
      /\ i = Len(loaded[s]) => loaded[s][i] <= cells[i + 1] + Cardinality(Loops)

MetricsInv == MTypeOK /\ CellsHold /\ BoundsHold /\ ScrapesHold

-----------------------------------------------------------------------------
(* Cells *)

\* The cells in their order.
LEMMA CellsInOrder ==
  /\ Buckets = 1 .. Len(BUILD_BUCKETS) /\ Len(BUILD_BUCKETS) \in Nat
  /\ Count \in Nat /\ SumCell = Count + 1 /\ Count = Len(BUILD_BUCKETS) + 1
  /\ Cells = 1 .. SumCell
  /\ \A i \in Buckets : i \in Nat /\ i \in Cells /\ i + 1 \in Cells /\ i # Count /\ i # SumCell
                        /\ i + 1 # SumCell /\ BUILD_BUCKETS[i] \in Nat
  /\ \A i \in Cells : i \in Nat /\ (i = SumCell \/ i = Count \/ i \in Buckets)
<1>1. BUILD_BUCKETS \in Seq(Nat)
  BY MetricsAssumption, Zenon
<1>2. Buckets = 1 .. Len(BUILD_BUCKETS) /\ Len(BUILD_BUCKETS) \in Nat
      /\ \A i \in Buckets : BUILD_BUCKETS[i] \in Nat
  BY <1>1 DEF Buckets
<1> QED
  BY <1>2 DEF Count, SumCell, Cells

\* A remainder is determined by one decomposition.
LEMMA RestIsUnique ==
  ASSUME NEW u \in Nat \ {0}, NEW q \in Nat, NEW r \in 0 .. u - 1, NEW z, z = r + (u * q)
  PROVE  r = z % u
<1>1. z \in Nat /\ u * q \in Nat
  OBVIOUS
<1> DEFINE d == z \div u
           e == z % u
<1>2. z = (u * d) + e /\ d \in Nat /\ e \in 0 .. u - 1
  BY <1>1
<1> HIDE DEF d, e
<1>3. u * d \in Nat
  BY <1>2
<1>4. CASE q = d
  BY <1>1, <1>2, <1>3, <1>4 DEF e
<1>5. CASE q >= d + 1
  <2>1. PICK k \in Nat : q = d + 1 + k
    <3>1. q - d - 1 \in Nat /\ q = d + 1 + (q - d - 1)
      BY <1>2, <1>5
    <3> QED
      BY <3>1, Zenon
  <2>2. u * q = (u * d) + u + (u * k) /\ u * k \in Nat
    BY <1>2, <2>1
  <2> QED
    BY <1>1, <1>2, <1>3, <2>2
<1>6. CASE d >= q + 1
  <2>1. PICK k \in Nat : d = q + 1 + k
    <3>1. d - q - 1 \in Nat /\ d = q + 1 + (d - q - 1)
      BY <1>2, <1>6
    <3> QED
      BY <3>1, Zenon
  <2>2. u * d = (u * q) + u + (u * k) /\ u * k \in Nat
    BY <1>2, <2>1
  <2> QED
    BY <1>1, <1>2, <1>3, <2>2
<1> QED
  BY <1>2, <1>4, <1>5, <1>6

\* What an observation adds to a cell is a duration at most, and one at most to a counter.
LEMMA IncrementType ==
  ASSUME NEW nanos \in Durations, NEW i \in Cells
  PROVE  /\ Increment(nanos, i) \in 0 .. U64
         /\ i # SumCell => Increment(nanos, i) \in 0 .. 1
<1>1. U64 \in Nat \ {0} /\ nanos \in 0 .. U64 - 1
  BY MetricsAssumption, Zenon
<1> QED
  BY <1>1 DEF Increment

\* Units of one loop are as many as they say.
LEMMA UnitsOfALoop ==
  ASSUME NEW S, IsFiniteSet(S), NEW l, NEW n \in Nat, S \cap ({l} \X (1 .. n)) = {}
  PROVE  /\ IsFiniteSet(S \cup ({l} \X (1 .. n)))
         /\ Cardinality(S \cup ({l} \X (1 .. n))) = Cardinality(S) + n
<1> DEFINE T == {l} \X (1 .. n)
<1>1. IsFiniteSet({l}) /\ Cardinality({l}) = 1
  BY FS_Singleton
<1>2. IsFiniteSet(1 .. n) /\ Cardinality(1 .. n) = n
  <2>1. n \in Int /\ 1 \in Int /\ ((n - 1) + 1 = n)
    BY SMT
  <2>2. IsFiniteSet(1 .. n) /\ Cardinality(1 .. n) = IF 1 > n THEN 0 ELSE (n - 1) + 1
    BY <2>1, FS_Interval, Zenon
  <2>3. 1 > n => n = 0
    BY SMT
  <2> QED
    BY <2>1, <2>2, <2>3, Zenon
<1>3. IsFiniteSet(T) /\ Cardinality(T) = n
  <2>1. IsFiniteSet(T) /\ Cardinality(T) = Cardinality({l}) * Cardinality(1 .. n)
    BY <1>1, <1>2, FS_Product, Zenon
  <2> HIDE DEF T
  <2> QED
    BY <1>1, <1>2, <2>1
<1> HIDE DEF T
<1>4. /\ IsFiniteSet(S \cup T)
      /\ Cardinality(S \cup T) = Cardinality(S) + Cardinality(T) - Cardinality(S \cap T)
  BY <1>3, FS_Union, Zenon
<1>5. Cardinality(S \cap T) = 0
  BY FS_EmptySet, Zenon DEF T
<1>6. Cardinality(S) \in Nat
  BY FS_CardinalityType, Zenon
<1> QED
  BY <1>3, <1>4, <1>5, <1>6 DEF T

\* What is owed is finite, and to a counter one at most by every loop.
LEMMA OwedIsFinite ==
  ASSUME MTypeOK, NEW i \in Cells
  PROVE  /\ IsFiniteSet(Owed(i)) /\ Cardinality(Owed(i)) \in Nat
         /\ i # SumCell => Cardinality(Owed(i)) <= Cardinality(Loops)
<1>1. IsFiniteSet(Loops) /\ U64 \in Nat \ {0}
  BY MetricsAssumption, Zenon
<1>2. IsFiniteSet(1 .. U64)
  BY <1>1, FS_Interval
<1>3. /\ IsFiniteSet(Loops \X (1 .. U64)) /\ IsFiniteSet(Loops \X {1})
      /\ Cardinality(Loops \X {1}) = Cardinality(Loops) * Cardinality({1})
  BY <1>1, <1>2, FS_Singleton, FS_Product, Zenon
<1>4. Owed(i) \in SUBSET (Loops \X (1 .. U64))
  BY Zenon DEF Owed
<1>5. IsFiniteSet(Owed(i)) /\ Cardinality(Owed(i)) \in Nat /\ Cardinality(Loops) \in Nat
  BY <1>1, <1>3, <1>4, FS_Subset, FS_CardinalityType, Zenon
<1>6. ASSUME i # SumCell PROVE Cardinality(Owed(i)) <= Cardinality(Loops)
  <2>1. ASSUME NEW u \in Owed(i) PROVE u \in Loops \X {1}
    <3>1. /\ u \in Loops \X (1 .. U64) /\ writing[u[1]].next <= i
          /\ u[2] \in 1 .. Increment(writing[u[1]].nanos, i)
      BY <2>1, Zenon DEF Owed
    <3>2. PICK l \in Loops, k \in 1 .. U64 : u = <<l, k>>
      BY <3>1
    <3>3. writing[l].next <= i /\ k \in 1 .. Increment(writing[l].nanos, i)
      BY <3>1, <3>2, Zenon
    <3>4. writing[l] # Idle
      <4>1. i <= SumCell /\ SumCell \in Nat /\ i \in Nat
        BY CellsInOrder
      <4> QED
        BY <3>3, <4>1 DEF Idle
    <3>5. writing[l].nanos \in Durations
      BY <3>4, Zenon DEF MTypeOK
    <3>6. Increment(writing[l].nanos, i) \in 0 .. 1
      BY <1>6, <3>5, IncrementType, Zenon
    <3>7. k = 1
      BY <1>1, <3>3, <3>6
    <3> QED
      BY <3>2, <3>7, Zenon
  <2>2. Owed(i) \in SUBSET (Loops \X {1})
    BY <2>1, Zenon
  <2>3. Cardinality(Owed(i)) <= Cardinality(Loops \X {1}) /\ Cardinality({1}) = 1
    BY <1>3, <2>2, FS_Singleton, FS_Subset, Zenon
  <2> QED
    BY <1>3, <1>5, <2>3
<1> QED
  BY <1>5, <1>6, Zenon

-----------------------------------------------------------------------------
(* Steps *)

\* A connection that is written to forgets what it has loaded.
Forget(s) == loaded' = [loaded EXCEPT ![s] = <<>>] /\ UNCHANGED <<cells, writing, observed>>

\* To the histogram a step of the endpoint is one of these.
LEMMA MetricsCases ==
  ASSUME [ENext]_<<mvars, evars>>
  PROVE  \/ \E l \in Loops, nanos \in Durations : StartObserving(l, nanos)
         \/ \E l \in Loops : AddNext(l)
         \/ \E s \in Scrapes : LoadNext(s) \/ Forget(s)
         \/ UNCHANGED mvars
<1>1. Scrapes = Connections
  BY EndpointAssumption, Zenon
<1>2. CASE Observe
  BY <1>2, Zenon DEF Observe
<1>3. CASE SignalEndpoint \/ Listener
  BY <1>3, Zenon DEF SignalEndpoint, Listener, Accept, AcceptFails, StopListening
<1>4. ASSUME NEW c \in Connections, (\E peer \in Peer : Connect(c, peer)) \/ SendPart(c) \/ HangUp(c)
      PROVE  UNCHANGED mvars
  BY <1>4, Zenon DEF Connect, SendPart, HangUp
<1>5. ASSUME NEW c \in Connections, Task(c)
      PROVE  LoadNext(c) \/ Forget(c) \/ UNCHANGED mvars
  <2>1. CASE ReadRequest(c) \/ ReadTimesOut(c) \/ ReadFails(c)
    BY <2>1, Zenon DEF ReadRequest, ReadTimesOut, ReadFails
  <2>2. CASE Render(c)
    BY <2>2, Zenon DEF Render
  <2>3. CASE Write(c)
    BY <2>3, Zenon DEF Write, Forget
  <2> QED
    BY <1>5, <2>1, <2>2, <2>3, Zenon DEF Task
<1>6. CASE UNCHANGED <<mvars, evars>>
  BY <1>6, Zenon
<1> QED
  BY <1>1, <1>2, <1>3, <1>4, <1>5, <1>6, Zenon DEF ENext

\* Every step keeps the types.
LEMMA MTypeStep ==
  ASSUME MTypeOK, [ENext]_<<mvars, evars>>
  PROVE  MTypeOK'
<1>1. U64 \in Nat \ {0} /\ Durations \subseteq Nat
  BY MetricsAssumption
<1>2. ASSUME NEW l \in Loops, NEW nanos \in Durations, StartObserving(l, nanos)
      PROVE  MTypeOK'
  <2>1. 1 \in Cells
    BY CellsInOrder
  <2>2. [nanos |-> nanos, next |-> 1] \in [nanos : Durations, next : Cells]
    BY <2>1, Zenon
  <2>3. writing' \in [Loops -> [nanos : Durations, next : Cells] \cup {Idle}]
    BY <1>2, <2>2, Zenon DEF StartObserving, MTypeOK
  <2>4. Observed(observed, nanos, 1) \in [at_most : [Buckets -> Nat], count : Nat, total : Nat]
    <3>1. /\ observed.at_most \in [Buckets -> Nat] /\ observed.count \in Nat
          /\ observed.total \in Nat /\ nanos \in Nat
      BY <1>1, Zenon DEF MTypeOK
    <3>2. observed.total + (1 * nanos) \in Nat /\ observed.count + 1 \in Nat
      BY <3>1
    <3>3. \A i \in Buckets : observed.at_most[i] + 1 \in Nat
      BY <3>1
    <3> QED
      BY <3>1, <3>2, <3>3, Zenon DEF Observed
  <2> QED
    BY <1>2, <2>3, <2>4, Zenon DEF StartObserving, MTypeOK
<1>3. ASSUME NEW l \in Loops, AddNext(l)
      PROVE  MTypeOK'
  <2> DEFINE w == writing[l]
             j == w.next
  <2>1. w \in [nanos : Durations, next : Cells]
    BY <1>3, Zenon DEF AddNext, MTypeOK
  <2>2. j \in Cells /\ Increment(w.nanos, j) \in Nat /\ cells[j] \in Nat
    <3>1. j \in Cells /\ w.nanos \in Durations
      BY <2>1, Zenon
    <3> HIDE DEF w, j
    <3>2. Increment(w.nanos, j) \in 0 .. U64
      BY <3>1, IncrementType, Zenon
    <3> QED
      BY <1>1, <3>1, <3>2 DEF MTypeOK
  <2> HIDE DEF w, j
  <2>3. (cells[j] + Increment(w.nanos, j)) % U64 \in 0 .. U64 - 1
    BY <1>1, <2>2
  <2>4. cells' \in [Cells -> 0 .. U64 - 1]
    BY <1>3, <2>2, <2>3, Zenon DEF AddNext, MTypeOK, w, j
  <2>5. j = SumCell \/ [w EXCEPT !.next = @ + 1] \in [nanos : Durations, next : Cells]
    <3>1. j = SumCell \/ j + 1 \in Cells
      BY <2>2, CellsInOrder
    <3> QED
      BY <2>1, <3>1, Zenon DEF j
  <2>6. writing' \in [Loops -> [nanos : Durations, next : Cells] \cup {Idle}]
    BY <1>3, <2>5, Zenon DEF AddNext, MTypeOK, w, j
  <2> QED
    BY <1>3, <2>4, <2>6, Zenon DEF AddNext, MTypeOK
<1>4. ASSUME NEW s \in Scrapes, LoadNext(s)
      PROVE  MTypeOK'
  <2> DEFINE k == Len(loaded[s])
  <2>1. loaded[s] \in Seq(0 .. U64 - 1) /\ k \in Nat /\ k < SumCell
    BY <1>4, CellsInOrder DEF LoadNext, Rendered, MTypeOK
  <2>2. cells[k + 1] \in 0 .. U64 - 1
    BY <2>1, CellsInOrder DEF MTypeOK
  <2> DEFINE more == Append(loaded[s], cells[k + 1])
  <2>3. more \in Seq(0 .. U64 - 1) /\ Len(more) = k + 1 /\ k + 1 <= SumCell
    BY <2>1, <2>2, CellsInOrder
  <2>4. loaded' = [loaded EXCEPT ![s] = more]
    BY <1>4, Zenon DEF LoadNext
  <2> HIDE DEF more
  <2>5. loaded' \in [Scrapes -> Seq(0 .. U64 - 1)]
    BY <2>3, <2>4, Zenon DEF MTypeOK
  <2>6. \A t \in Scrapes : Len(loaded'[t]) <= SumCell
    BY <2>3, <2>4, Zenon DEF MTypeOK
  <2> QED
    BY <1>4, <2>5, <2>6, Zenon DEF LoadNext, MTypeOK
<1>5. ASSUME NEW s \in Scrapes, Forget(s)
      PROVE  MTypeOK'
  <2>1. <<>> \in Seq(0 .. U64 - 1) /\ Len(<<>>) <= SumCell
    BY CellsInOrder
  <2>2. loaded' \in [Scrapes -> Seq(0 .. U64 - 1)]
    BY <1>5, <2>1, Zenon DEF Forget, MTypeOK
  <2>3. \A t \in Scrapes : Len(loaded'[t]) <= SumCell
    BY <1>5, <2>1, Zenon DEF Forget, MTypeOK
  <2> QED
    BY <1>5, <2>2, <2>3, Zenon DEF Forget, MTypeOK
<1>6. CASE UNCHANGED mvars
  BY <1>6, Zenon DEF MTypeOK, mvars
<1> QED
  BY <1>2, <1>3, <1>4, <1>5, <1>6, MetricsCases, Zenon

\* What a beginning observation makes the loops owe.
LEMMA BegunIsOwed ==
  ASSUME MTypeOK, NEW l \in Loops, NEW nanos \in Durations, StartObserving(l, nanos),
         NEW i \in Cells
  PROVE  Cardinality(Owed(i)') = Cardinality(Owed(i)) + Increment(nanos, i)
<1> DEFINE n == Increment(nanos, i)
           T == {l} \X (1 .. n)
<1>1. n \in Nat /\ n <= U64 /\ U64 \in Nat
  BY MetricsAssumption, IncrementType
<1> HIDE DEF n
<1>2. i \in Nat /\ 1 <= i /\ i < SumCell + 1
  BY CellsInOrder
<1>3. /\ writing[l].next = SumCell + 1 /\ writing'[l] = [nanos |-> nanos, next |-> 1]
      /\ \A m \in Loops : m # l => writing'[m] = writing[m]
  BY DEF StartObserving, Idle, MTypeOK
<1>4. ASSUME NEW m \in Loops, NEW k \in 1 .. U64
      PROVE  <<m, k>> \in Owed(i)' <=> <<m, k>> \in Owed(i) \cup T
  <2>1. <<m, k>> \in Owed(i)' <=> writing'[m].next <= i /\ k \in 1 .. Increment(writing'[m].nanos, i)
    BY Zenon DEF Owed
  <2>2. <<m, k>> \in Owed(i) <=> writing[m].next <= i /\ k \in 1 .. Increment(writing[m].nanos, i)
    BY Zenon DEF Owed
  <2>3. <<m, k>> \in T <=> m = l /\ k \in 1 .. n
    BY Zenon
  <2>4. CASE m = l
    <3>1. ~(writing[l].next <= i)
      BY <1>2, <1>3, CellsInOrder
    <3>2. writing'[l].next <= i /\ Increment(writing'[l].nanos, i) = n
      BY <1>2, <1>3 DEF n
    <3> QED
      BY <2>1, <2>2, <2>3, <2>4, <3>1, <3>2, Zenon
  <2>5. CASE m # l
    BY <1>3, <2>1, <2>2, <2>3, <2>5, Zenon
  <2> QED
    BY <2>4, <2>5, Zenon
<1>5. Owed(i)' \subseteq Loops \X (1 .. U64) /\ Owed(i) \subseteq Loops \X (1 .. U64)
  BY Zenon DEF Owed
<1>6. T \subseteq Loops \X (1 .. U64)
  BY <1>1
<1>7. Owed(i)' = Owed(i) \cup T
  BY <1>4, <1>5, <1>6
<1>8. Owed(i) \cap T = {}
  <2> SUFFICES ASSUME NEW u \in Owed(i), u \in T
               PROVE  FALSE
    BY Zenon
  <2>1. u[1] = l
    BY Zenon
  <2>2. writing[u[1]].next <= i
    BY Zenon DEF Owed
  <2> QED
    BY <1>2, <1>3, <2>1, <2>2, CellsInOrder
<1>9. IsFiniteSet(Owed(i))
  BY OwedIsFinite, Zenon
<1> QED
  BY <1>1, <1>7, <1>8, <1>9, UnitsOfALoop DEF n

\* What an addition pays: its own cell's part, and nothing of the others.
LEMMA AddedIsPaid ==
  ASSUME MTypeOK, NEW l \in Loops, AddNext(l), NEW i \in Cells
  PROVE  LET w == writing[l]
             paid == IF i = w.next THEN Increment(w.nanos, i) ELSE 0
         IN  /\ Cardinality(Owed(i)) = Cardinality(Owed(i)') + paid
             /\ Cardinality(Owed(i)') \in Nat
<1> DEFINE w == writing[l]
           n == Increment(w.nanos, i)
           T == {l} \X (1 .. n)
<1>1. w \in [nanos : Durations, next : Cells]
  BY Zenon DEF AddNext, MTypeOK
<1>2. n \in Nat /\ n <= U64 /\ U64 \in Nat /\ w.next \in Nat /\ w.next <= SumCell
  <2>1. w.nanos \in Durations /\ w.next \in Cells
    BY <1>1, Zenon
  <2> HIDE DEF w
  <2>2. n \in 0 .. U64
    BY <2>1, IncrementType, Zenon
  <2> HIDE DEF n
  <2>3. U64 \in Nat
    BY MetricsAssumption, Zenon
  <2> QED
    BY <2>1, <2>2, <2>3, CellsInOrder
<1> HIDE DEF n
<1>3. i \in Nat /\ 1 <= i /\ i < SumCell + 1 /\ SumCell \in Nat
  BY CellsInOrder
<1>4. /\ writing'[l].next = w.next + 1
      /\ writing'[l].next <= SumCell => writing'[l].nanos = w.nanos
      /\ \A m \in Loops : m # l => writing'[m] = writing[m]
  <2>1. PICK v : v = w
    BY Zenon
  <2>2. v \in [nanos : Durations, next : Cells]
    BY <1>1, <2>1, Zenon
  <2>3. PICK new : new = IF v.next = SumCell THEN Idle ELSE [v EXCEPT !.next = @ + 1]
    BY Zenon
  <2>4. writing' = [writing EXCEPT ![l] = new]
    BY <2>1, <2>3, Zenon DEF AddNext
  <2>5. writing'[l] = new /\ \A m \in Loops : m # l => writing'[m] = writing[m]
    BY <2>4, Zenon DEF MTypeOK
  <2>6. new.next = v.next + 1 /\ (new.next <= SumCell => new.nanos = v.nanos)
    <3>1. CASE v.next = SumCell
      <4>1. new.next = SumCell + 1
        BY <2>3, <3>1, Zenon DEF Idle
      <4> QED
        BY <1>3, <3>1, <4>1
    <3>2. CASE v.next # SumCell
      <4>1. new = [v EXCEPT !.next = @ + 1]
        BY <2>3, <3>2, Zenon
      <4> QED
        BY <2>2, <4>1, Zenon
    <3> QED
      BY <3>1, <3>2, Zenon
  <2> QED
    BY <2>1, <2>5, <2>6, Zenon
<1>5. Owed(i)' \subseteq Loops \X (1 .. U64) /\ Owed(i) \subseteq Loops \X (1 .. U64)
  BY Zenon DEF Owed
<1>6. ASSUME NEW m \in Loops, NEW k \in 1 .. U64
      PROVE  /\ <<m, k>> \in Owed(i)' <=>
                  writing'[m].next <= i /\ k \in 1 .. Increment(writing'[m].nanos, i)
             /\ <<m, k>> \in Owed(i) <=>
                  writing[m].next <= i /\ k \in 1 .. Increment(writing[m].nanos, i)
  BY Zenon DEF Owed
<1>7. CASE i = w.next
  <2>1. ~(writing'[l].next <= i) /\ writing[l].next <= i
    BY <1>2, <1>3, <1>4, <1>7
  <2>2. ASSUME NEW m \in Loops, NEW k \in 1 .. U64
        PROVE  <<m, k>> \in Owed(i) <=> <<m, k>> \in Owed(i)' \cup T
    <3>1. <<m, k>> \in T <=> m = l /\ k \in 1 .. n
      BY Zenon
    <3>2. CASE m = l
      BY <1>6, <2>1, <3>1, <3>2, Zenon DEF n
    <3>3. CASE m # l
      BY <1>4, <1>6, <3>1, <3>3, Zenon
    <3> QED
      BY <3>2, <3>3, Zenon
  <2>3. T \subseteq Loops \X (1 .. U64)
    BY <1>2
  <2>4. Owed(i) = Owed(i)' \cup T
    BY <1>5, <2>2, <2>3
  <2>5. Owed(i)' \cap T = {}
    <3> SUFFICES ASSUME NEW u \in Owed(i)', u \in T
                 PROVE  FALSE
      BY Zenon
    <3>1. u[1] = l
      BY Zenon
    <3>2. writing'[u[1]].next <= i
      BY Zenon DEF Owed
    <3> QED
      BY <2>1, <3>1, <3>2, Zenon
  <2>6. IsFiniteSet(Owed(i)')
    <3>1. IsFiniteSet(Owed(i)) /\ Owed(i)' \in SUBSET Owed(i)
      BY <2>4, OwedIsFinite, Zenon
    <3> QED
      BY <3>1, FS_Subset, Zenon
  <2>7. Cardinality(Owed(i)') \in Nat
    BY <2>6, FS_CardinalityType, Zenon
  <2>8. n \in Nat
    BY <1>2
  <2>9. Cardinality(Owed(i)) = Cardinality(Owed(i)') + n
    <3>1. PICK S : S = Owed(i)'
      BY Zenon
    <3>2. IsFiniteSet(S) /\ S \cap ({l} \X (1 .. n)) = {} /\ Owed(i) = S \cup ({l} \X (1 .. n))
      BY <2>4, <2>5, <2>6, <3>1, Zenon
    <3>3. Cardinality(S \cup ({l} \X (1 .. n))) = Cardinality(S) + n
      BY <2>8, <3>2, UnitsOfALoop, Zenon
    <3> QED
      BY <3>1, <3>2, <3>3, Zenon
  <2> QED
    BY <1>7, <2>7, <2>9, Zenon DEF n
<1>8. CASE i # w.next
  <2>1. writing'[l].next <= i <=> writing[l].next <= i
    BY <1>2, <1>3, <1>4, <1>8
  <2>2. ASSUME NEW m \in Loops, NEW k \in 1 .. U64
        PROVE  <<m, k>> \in Owed(i) <=> <<m, k>> \in Owed(i)'
    <3>1. CASE m = l
      <4>1. writing'[l].next <= i => writing'[l].nanos = writing[l].nanos
        BY <1>2, <1>3, <1>4
      <4> QED
        BY <1>6, <2>1, <3>1, <4>1, Zenon
    <3>2. CASE m # l
      BY <1>4, <1>6, <3>2, Zenon
    <3> QED
      BY <3>1, <3>2, Zenon
  <2>3. Owed(i) = Owed(i)'
    BY <1>5, <2>2
  <2>4. Cardinality(Owed(i)) \in Nat
    BY OwedIsFinite, Zenon
  <2> QED
    BY <1>8, <2>3, <2>4
<1> QED
  BY <1>7, <1>8, Zenon

\* What is due grows by what an observation will add.
LEMMA DueGrows ==
  ASSUME MTypeOK, NEW i \in Cells
  PROVE  /\ Due(i) \in Nat
         /\ \A l \in Loops, nanos \in Durations :
              StartObserving(l, nanos) => Due(i)' = Due(i) + Increment(nanos, i)
<1>1. /\ observed.at_most \in [Buckets -> Nat] /\ observed.count \in Nat
      /\ observed.total \in Nat
  BY Zenon DEF MTypeOK
<1>2. i = SumCell \/ (i # SumCell /\ i = Count) \/ (i # SumCell /\ i # Count /\ i \in Buckets)
  BY CellsInOrder, Zenon
<1>3. Due(i) \in Nat
  BY <1>1, <1>2, Zenon DEF Due
<1>4. ASSUME NEW l \in Loops, NEW nanos \in Durations, StartObserving(l, nanos)
      PROVE  Due(i)' = Due(i) + Increment(nanos, i)
  <2>1. nanos \in Nat
    BY MetricsAssumption
  <2>2. /\ observed'.total = observed.total + (1 * nanos)
        /\ observed'.count = observed.count + 1
        /\ \A j \in Buckets : observed'.at_most[j] =
             IF nanos <= BUILD_BUCKETS[j] THEN observed.at_most[j] + 1 ELSE observed.at_most[j]
    BY <1>4, Zenon DEF StartObserving, Observed
  <2>3. CASE i = SumCell
    BY <1>1, <2>1, <2>2, <2>3 DEF Due, Increment
  <2>4. CASE i # SumCell /\ i = Count
    BY <1>1, <2>2, <2>4, Zenon DEF Due, Increment
  <2>5. CASE i # SumCell /\ i # Count /\ i \in Buckets
    <3>1. Due(i) = observed.at_most[i] /\ Due(i)' = observed'.at_most[i] /\ Due(i) \in Nat
      BY <1>3, <2>5, Zenon DEF Due
    <3>2. Increment(nanos, i) = IF nanos <= BUILD_BUCKETS[i] THEN 1 ELSE 0
      BY <2>5, Zenon DEF Increment
    <3> QED
      BY <2>2, <2>5, <3>1, <3>2
  <2> QED
    BY <1>2, <2>3, <2>4, <2>5, Zenon
<1> QED
  BY <1>3, <1>4, Zenon

\* Every step keeps the cells and what is owed to them.
LEMMA CellsStep ==
  ASSUME MTypeOK, CellsHold, [ENext]_<<mvars, evars>>
  PROVE  CellsHold'
<1>1. U64 \in Nat \ {0}
  BY MetricsAssumption, Zenon
<1>2. ASSUME NEW l \in Loops, NEW nanos \in Durations, StartObserving(l, nanos),
             NEW i \in Cells
      PROVE  \E q \in Nat : Due(i)' = cells'[i] + (U64 * q) + Cardinality(Owed(i)')
  <2>1. PICK q \in Nat : Due(i) = cells[i] + (U64 * q) + Cardinality(Owed(i))
    BY Zenon DEF CellsHold
  <2>2. Due(i)' = Due(i) + Increment(nanos, i)
    BY <1>2, DueGrows, Zenon
  <2>3. Cardinality(Owed(i)') = Cardinality(Owed(i)) + Increment(nanos, i)
    BY <1>2, BegunIsOwed, Zenon
  <2>4. cells' = cells
    BY <1>2, Zenon DEF StartObserving
  <2>5. /\ cells[i] \in Nat /\ Cardinality(Owed(i)) \in Nat /\ Increment(nanos, i) \in Nat
        /\ U64 * q \in Nat
    <3>1. Increment(nanos, i) \in 0 .. U64
      BY IncrementType, Zenon
    <3>2. Cardinality(Owed(i)) \in Nat
      BY OwedIsFinite, Zenon
    <3> QED
      BY <1>1, <2>1, <3>1, <3>2 DEF MTypeOK
  <2>6. Due(i)' = cells'[i] + (U64 * q) + Cardinality(Owed(i)')
    BY <2>1, <2>2, <2>3, <2>4, <2>5
  <2> QED
    BY <2>6, Zenon
<1>3. ASSUME NEW l \in Loops, AddNext(l), NEW i \in Cells
      PROVE  \E q \in Nat : Due(i)' = cells'[i] + (U64 * q) + Cardinality(Owed(i)')
  <2> DEFINE w == writing[l]
             n == Increment(w.nanos, i)
  <2>1. PICK q \in Nat : Due(i) = cells[i] + (U64 * q) + Cardinality(Owed(i))
    BY Zenon DEF CellsHold
  <2>2. Due(i)' = Due(i)
    BY <1>3, Zenon DEF AddNext, Due
  <2>3. /\ Cardinality(Owed(i)) = Cardinality(Owed(i)') + (IF i = w.next THEN n ELSE 0)
        /\ Cardinality(Owed(i)') \in Nat
    BY <1>3, AddedIsPaid, Zenon
  <2>4. w.nanos \in Durations /\ w.next \in Cells
    BY <1>3, Zenon DEF AddNext, MTypeOK
  <2>5. cells'[i] = IF i = w.next THEN (cells[i] + n) % U64 ELSE cells[i]
    BY <1>3, <2>4, Zenon DEF AddNext, MTypeOK
  <2> HIDE DEF w
  <2>6. cells[i] \in Nat /\ n \in Nat /\ Cardinality(Owed(i)) \in Nat
    <3>1. n \in 0 .. U64
      BY <2>4, IncrementType, Zenon
    <3>2. Cardinality(Owed(i)) \in Nat
      BY OwedIsFinite, Zenon
    <3> HIDE DEF n
    <3> QED
      BY <1>1, <3>1, <3>2 DEF MTypeOK
  <2> HIDE DEF n
  <2>7. PICK c : c = cells[i]
    BY Zenon
  <2>8. PICK o : o = Cardinality(Owed(i))
    BY Zenon
  <2>9. PICK o2 : o2 = Cardinality(Owed(i)')
    BY Zenon
  <2>10. CASE i = w.next
    <3> DEFINE d == (c + n) \div U64
    <3>1. c + n = (U64 * d) + ((c + n) % U64) /\ d \in Nat /\ (c + n) % U64 \in Nat
      <4> DEFINE z == c + n
      <4>1. z \in Nat
        BY <2>6, <2>7
      <4> HIDE DEF z
      <4>2. z = (U64 * (z \div U64)) + (z % U64) /\ z \div U64 \in Nat /\ z % U64 \in Nat
        BY <1>1, <4>1
      <4> QED
        BY <4>2, Zenon DEF z
    <3> HIDE DEF d
    <3>2. o = o2 + n /\ o \in Nat
      BY <2>3, <2>6, <2>8, <2>9, <2>10, Zenon
    <3>3. o2 \in Nat
      BY <2>3, <2>9, Zenon
    <3>4. U64 * q \in Nat /\ U64 * d \in Nat /\ U64 * (q + d) = (U64 * q) + (U64 * d)
      BY <1>1, <2>1, <3>1
    <3>5. Due(i)' = ((c + n) % U64) + (U64 * (q + d)) + o2
      BY <2>1, <2>2, <2>6, <2>7, <2>8, <3>1, <3>2, <3>3, <3>4
    <3>6. cells'[i] = (c + n) % U64
      BY <2>5, <2>7, <2>10, Zenon
    <3>7. Due(i)' = cells'[i] + (U64 * (q + d)) + Cardinality(Owed(i)')
      BY <2>9, <3>5, <3>6, Zenon
    <3>8. q + d \in Nat
      BY <3>1, SMT
    <3> QED
      BY <3>7, <3>8, Zenon
  <2>11. CASE i # w.next
    <3>1. o = o2 + 0 /\ o2 \in Nat
      BY <2>3, <2>8, <2>9, <2>11, Zenon
    <3>2. o = o2
      BY <3>1, SMT
    <3>3. cells'[i] = cells[i] /\ Cardinality(Owed(i)) = Cardinality(Owed(i)')
      BY <2>5, <2>8, <2>9, <2>11, <3>2, Zenon
    <3>4. Due(i)' = cells'[i] + (U64 * q) + Cardinality(Owed(i)')
      BY <2>1, <2>2, <3>3, Zenon
    <3> QED
      BY <3>4, Zenon
  <2> QED
    BY <2>10, <2>11, Zenon
<1>4. ASSUME UNCHANGED <<cells, writing, observed>>
      PROVE  CellsHold'
  BY <1>4, Zenon DEF CellsHold, Due, Owed
<1> QED
  BY <1>2, <1>3, <1>4, MetricsCases, Zenon DEF CellsHold, LoadNext, Forget, mvars

\* An observation that counts for a bound counts for the next one.
LEMMA IncrementsInOrder ==
  ASSUME NEW nanos \in Durations, NEW i \in Buckets
  PROVE  /\ Increment(nanos, i) <= Increment(nanos, i + 1)
         /\ Increment(nanos, i) \in 0 .. 1 /\ Increment(nanos, i + 1) \in 0 .. 1
<1>1. /\ i \in Cells /\ i + 1 \in Cells /\ i # SumCell /\ i # Count /\ i + 1 # SumCell
      /\ i \in Nat /\ BUILD_BUCKETS[i] \in Nat
  BY CellsInOrder, Zenon
<1>2. Increment(nanos, i) \in 0 .. 1 /\ Increment(nanos, i + 1) \in 0 .. 1
  BY <1>1, IncrementType, Zenon
<1>3. i + 1 = Count \/ i + 1 \in Buckets
  BY <1>1, CellsInOrder, Zenon
<1>4. CASE i + 1 = Count
  BY <1>1, <1>2, <1>4 DEF Increment
<1>5. CASE i + 1 # Count /\ i + 1 \in Buckets
  <2>1. BUILD_BUCKETS[i] < BUILD_BUCKETS[i + 1] /\ BUILD_BUCKETS[i + 1] \in Nat
    <3>1. i < i + 1
      BY <1>1
    <3>2. BUILD_BUCKETS[i + 1] \in Nat
      BY <1>5, CellsInOrder, Zenon
    <3> QED
      BY <1>5, <3>1, <3>2, MetricsAssumption, Zenon DEF Buckets
  <2>2. nanos \in Nat
    BY MetricsAssumption
  <2>3. nanos <= BUILD_BUCKETS[i] => nanos <= BUILD_BUCKETS[i + 1]
    BY <1>1, <2>1, <2>2
  <2>4. /\ Increment(nanos, i) = IF nanos <= BUILD_BUCKETS[i] THEN 1 ELSE 0
        /\ Increment(nanos, i + 1) = IF nanos <= BUILD_BUCKETS[i + 1] THEN 1 ELSE 0
    BY <1>1, <1>5, Zenon DEF Increment
  <2> QED
    BY <1>2, <2>3, <2>4
<1> QED
  BY <1>2, <1>3, <1>4, <1>5, Zenon

\* Every step keeps the order of the bounds.
LEMMA BoundsStep ==
  ASSUME MTypeOK, BoundsHold, [ENext]_<<mvars, evars>>
  PROVE  BoundsHold'
<1>1. ASSUME NEW l \in Loops, NEW nanos \in Durations, StartObserving(l, nanos),
             NEW i \in Buckets
      PROVE  Due(i)' <= Due(i + 1)' /\ Due(i)' <= observed'.count
  <2>1. i \in Cells /\ i + 1 \in Cells
    BY CellsInOrder, Zenon
  <2>2. /\ Due(i) \in Nat /\ Due(i + 1) \in Nat
        /\ Due(i)' = Due(i) + Increment(nanos, i)
        /\ Due(i + 1)' = Due(i + 1) + Increment(nanos, i + 1)
    BY <1>1, <2>1, DueGrows, Zenon
  <2>3. Due(i) <= Due(i + 1) /\ Due(i) <= observed.count /\ observed.count \in Nat
    BY Zenon DEF BoundsHold, MTypeOK
  <2>4. observed'.count = observed.count + 1
    BY <1>1, Zenon DEF StartObserving, Observed
  <2> QED
    BY <2>2, <2>3, <2>4, IncrementsInOrder
<1>2. ASSUME observed' = observed PROVE BoundsHold'
  BY <1>2, Zenon DEF BoundsHold, Due
<1> QED
  BY <1>1, <1>2, MetricsCases, Zenon DEF BoundsHold, AddNext, LoadNext, Forget, mvars

\* While the observations fit a counter, no counter of them wraps around.
LEMMA NoCounterWraps ==
  ASSUME MTypeOK, CellsHold, BoundsHold, observed.count < U64, NEW i \in Cells, i # SumCell
  PROVE  Due(i) = cells[i] + Cardinality(Owed(i)) /\ Due(i) < U64 /\ Due(i) \in Nat
<1>1. U64 \in Nat \ {0} /\ observed.count \in Nat
  BY MetricsAssumption, Zenon DEF MTypeOK
<1>2. PICK q \in Nat : Due(i) = cells[i] + (U64 * q) + Cardinality(Owed(i))
  BY Zenon DEF CellsHold
<1>3. Due(i) <= observed.count
  <2>1. i = Count \/ i \in Buckets
    BY CellsInOrder, Zenon
  <2>2. CASE i = Count
    BY <1>1, <2>2 DEF Due
  <2>3. CASE i \in Buckets
    BY <2>3, Zenon DEF BoundsHold
  <2> QED
    BY <2>1, <2>2, <2>3, Zenon
<1>4. Due(i) \in Nat /\ cells[i] \in Nat /\ Cardinality(Owed(i)) \in Nat
  <2>1. Due(i) \in Nat
    BY DueGrows, Zenon
  <2>2. Cardinality(Owed(i)) \in Nat
    BY OwedIsFinite, Zenon
  <2> QED
    BY <2>1, <2>2 DEF MTypeOK
<1>5. q = 0
  <2> SUFFICES ASSUME q >= 1
               PROVE  FALSE
    BY <1>2
  <2>1. U64 * q >= U64 /\ U64 * q \in Nat
    BY <1>1, <1>2
  <2> QED
    BY <1>1, <1>2, <1>3, <1>4, <2>1
<1> QED
  BY <1>1, <1>2, <1>3, <1>4, <1>5

\* What is loaded is the value of a counter.
LEMMA LoadedType ==
  ASSUME NEW S, NEW q \in Seq(S), NEW i \in 1 .. Len(q)
  PROVE  q[i] \in S
OBVIOUS

\* While the observations fit a counter, the counters never go back.
LEMMA CountersGrow ==
  ASSUME MTypeOK, CellsHold, BoundsHold, observed.count < U64, NEW l \in Loops, AddNext(l),
         NEW i \in Cells, i # SumCell
  PROVE  cells[i] <= cells'[i] /\ cells[i] \in Nat /\ cells'[i] \in Nat
<1> DEFINE w == writing[l]
           n == Increment(w.nanos, i)
<1>1. w.nanos \in Durations /\ w.next \in Cells
  BY Zenon DEF AddNext, MTypeOK
<1>2. cells'[i] = IF i = w.next THEN (cells[i] + n) % U64 ELSE cells[i]
  BY <1>1, Zenon DEF AddNext, MTypeOK
<1>3. /\ Cardinality(Owed(i)) = Cardinality(Owed(i)') + (IF i = w.next THEN n ELSE 0)
      /\ Cardinality(Owed(i)') \in Nat
  BY AddedIsPaid, Zenon
<1>4. Due(i) = cells[i] + Cardinality(Owed(i)) /\ Due(i) < U64 /\ Due(i) \in Nat
  BY NoCounterWraps, Zenon
<1> HIDE DEF w
<1>5. U64 \in Nat \ {0} /\ cells[i] \in Nat /\ n \in Nat
  <2>1. U64 \in Nat \ {0}
    BY MetricsAssumption, Zenon
  <2>2. n \in 0 .. U64
    BY <1>1, IncrementType, Zenon
  <2> HIDE DEF n
  <2> QED
    BY <2>1, <2>2 DEF MTypeOK
<1> HIDE DEF n
<1>6. CASE i = w.next
  <2>1. Cardinality(Owed(i)) = Cardinality(Owed(i)') + n
    BY <1>3, <1>6, Zenon
  <2>2. cells[i] + n < U64
    BY <1>3, <1>4, <1>5, <2>1
  <2>3. (cells[i] + n) % U64 = cells[i] + n
    BY <1>5, <2>2
  <2> QED
    BY <1>2, <1>5, <1>6, <2>3
<1>7. CASE i # w.next
  BY <1>2, <1>5, <1>7
<1> QED
  BY <1>6, <1>7, Zenon

\* Every step keeps what a scrape has loaded close to what it will load.
LEMMA ScrapesStep ==
  ASSUME MetricsInv, [ENext]_<<mvars, evars>>
  PROVE  ScrapesHold'
<1> DEFINE N == Cardinality(Loops)
<1>1. U64 \in Nat \ {0} /\ N \in Nat /\ observed.count \in Nat
  <2>1. IsFiniteSet(Loops)
    BY MetricsAssumption, Zenon
  <2> QED
    BY <2>1, MetricsAssumption, FS_CardinalityType, Zenon DEF MetricsInv, MTypeOK
<1> HIDE DEF N
<1>2. ASSUME NEW l \in Loops, NEW nanos \in Durations, StartObserving(l, nanos)
      PROVE  ScrapesHold'
  <2>1. observed'.count = observed.count + 1 /\ cells' = cells /\ loaded' = loaded
    BY <1>2, Zenon DEF StartObserving, Observed
  <2>2. observed'.count < U64 => observed.count < U64
    BY <1>1, <2>1
  <2> QED
    BY <2>1, <2>2, Zenon DEF MetricsInv, ScrapesHold
<1>3. ASSUME NEW l \in Loops, AddNext(l)
      PROVE  ScrapesHold'
  <2>1. observed' = observed /\ loaded' = loaded
    BY <1>3, Zenon DEF AddNext
  <2> SUFFICES ASSUME observed.count < U64, NEW s \in Scrapes, NEW i \in Buckets,
                      i = Len(loaded[s])
               PROVE  loaded[s][i] <= cells'[i + 1] + N
    BY <2>1, Zenon DEF MetricsInv, ScrapesHold, N
  <2>2. loaded[s][i] <= cells[i + 1] + N /\ loaded[s][i] \in Nat
    <3>1. loaded[s] \in Seq(0 .. U64 - 1) /\ i \in 1 .. Len(loaded[s])
      BY CellsInOrder DEF MetricsInv, MTypeOK
    <3>2. loaded[s][i] \in 0 .. U64 - 1
      BY <3>1, LoadedType, Zenon
    <3> QED
      BY <1>1, <3>2 DEF MetricsInv, ScrapesHold, N
  <2>3. i + 1 \in Cells /\ i + 1 # SumCell
    BY CellsInOrder, Zenon
  <2>4. cells[i + 1] <= cells'[i + 1] /\ cells[i + 1] \in Nat /\ cells'[i + 1] \in Nat
    BY <1>3, <2>3, CountersGrow, Zenon DEF MetricsInv
  <2>5. \A x, c, d \in Nat : x <= c + N /\ c <= d => x <= d + N
    BY <1>1
  <2> QED
    BY <2>2, <2>4, <2>5, Zenon
<1>4. ASSUME NEW t \in Scrapes, LoadNext(t)
      PROVE  ScrapesHold'
  <2> DEFINE k == Len(loaded[t])
  <2>1. observed' = observed /\ cells' = cells
    BY <1>4, Zenon DEF LoadNext
  <2>2. loaded[t] \in Seq(0 .. U64 - 1) /\ k \in Nat
    BY DEF MetricsInv, MTypeOK
  <2>3. loaded' = [loaded EXCEPT ![t] = Append(loaded[t], cells[k + 1])]
    BY <1>4, Zenon DEF LoadNext
  <2>4. /\ loaded'[t] = Append(loaded[t], cells[k + 1])
        /\ \A s \in Scrapes : s # t => loaded'[s] = loaded[s]
    BY <2>3, Zenon DEF MetricsInv, MTypeOK
  <2>5. /\ Len(loaded'[t]) = k + 1 /\ loaded'[t][k + 1] = cells[k + 1]
        /\ \A i \in 1 .. k : loaded'[t][i] = loaded[t][i]
    BY <2>2, <2>4
  <2> HIDE DEF k
  <2> SUFFICES ASSUME observed.count < U64, NEW s \in Scrapes, NEW i \in Buckets
               PROVE  /\ i < Len(loaded'[s]) => loaded'[s][i] <= loaded'[s][i + 1] + N
                      /\ i = Len(loaded'[s]) => loaded'[s][i] <= cells[i + 1] + N
    BY <2>1, Zenon DEF ScrapesHold, N
  <2>6. /\ i < Len(loaded[s]) => loaded[s][i] <= loaded[s][i + 1] + N
        /\ i = Len(loaded[s]) => loaded[s][i] <= cells[i + 1] + N
    BY Zenon DEF MetricsInv, ScrapesHold, N
  <2>7. CASE s # t
    BY <2>4, <2>6, <2>7, Zenon
  <2>8. CASE s = t
    <3>1. i \in Nat /\ i >= 1 /\ i \in Cells /\ i + 1 \in Cells /\ i # SumCell /\ i + 1 # SumCell
      BY CellsInOrder
    <3>2. CASE i < k
      BY <2>2, <2>5, <2>6, <2>8, <3>1, <3>2 DEF k
    <3>3. CASE i = k
      BY <2>2, <2>5, <2>6, <2>8, <3>1, <3>3 DEF k
    <3>4. CASE i = k + 1
      <4>1. /\ Due(i) = cells[i] + Cardinality(Owed(i)) /\ Due(i) \in Nat
            /\ Due(i + 1) = cells[i + 1] + Cardinality(Owed(i + 1)) /\ Due(i + 1) \in Nat
        BY <3>1, NoCounterWraps, Zenon DEF MetricsInv
      <4>2. Due(i) <= Due(i + 1)
        BY Zenon DEF MetricsInv, BoundsHold
      <4>3. Cardinality(Owed(i)) \in Nat /\ Cardinality(Owed(i + 1)) \in Nat
            /\ Cardinality(Owed(i + 1)) <= N
        BY <3>1, OwedIsFinite, Zenon DEF MetricsInv, N
      <4>4. cells[i] \in Nat /\ cells[i + 1] \in Nat
        BY <3>1, <1>1 DEF MetricsInv, MTypeOK
      <4>5. cells[i] <= cells[i + 1] + N
        BY <1>1, <4>1, <4>2, <4>3, <4>4
      <4> QED
        BY <2>2, <2>5, <2>8, <3>4, <4>5
    <3>5. CASE i > k + 1
      BY <2>2, <2>5, <2>8, <3>1, <3>5
    <3> QED
      BY <2>2, <3>1, <3>2, <3>3, <3>4, <3>5
  <2> QED
    BY <2>7, <2>8, Zenon
<1>5. ASSUME NEW t \in Scrapes, Forget(t)
      PROVE  ScrapesHold'
  <2>1. observed' = observed /\ cells' = cells /\ loaded' = [loaded EXCEPT ![t] = <<>>]
    BY <1>5, Zenon DEF Forget
  <2>2. Len(loaded'[t]) = 0 /\ \A s \in Scrapes : s # t => loaded'[s] = loaded[s]
    BY <2>1, Zenon DEF MetricsInv, MTypeOK
  <2> SUFFICES ASSUME observed.count < U64, NEW s \in Scrapes, NEW i \in Buckets
               PROVE  /\ i < Len(loaded'[s]) => loaded'[s][i] <= loaded'[s][i + 1] + N
                      /\ i = Len(loaded'[s]) => loaded'[s][i] <= cells[i + 1] + N
    BY <2>1, Zenon DEF ScrapesHold, N
  <2>3. CASE s # t
    BY <2>2, <2>3, Zenon DEF MetricsInv, ScrapesHold, N
  <2>4. CASE s = t
    <3>1. i \in Nat /\ i >= 1
      BY CellsInOrder
    <3> QED
      BY <2>2, <2>4, <3>1
  <2> QED
    BY <2>3, <2>4, Zenon
<1>6. CASE UNCHANGED mvars
  BY <1>6, Zenon DEF mvars, MetricsInv, ScrapesHold
<1> QED
  BY <1>2, <1>3, <1>4, <1>5, <1>6, MetricsCases, Zenon

-----------------------------------------------------------------------------
(* The histogram: theorems *)

\* The first state of the histogram satisfies the invariant (Metrics::new).
LEMMA MetricsInvInit ==
  ASSUME MInit
  PROVE  MetricsInv
<1>1. U64 \in Nat \ {0} /\ IsFiniteSet(Loops)
  BY MetricsAssumption, Zenon
<1>2. MTypeOK
  <2>1. 0 \in 0 .. U64 - 1 /\ <<>> \in Seq(0 .. U64 - 1) /\ Len(<<>>) <= SumCell
    BY <1>1, CellsInOrder
  <2>2. cells \in [Cells -> 0 .. U64 - 1]
    BY <2>1, Zenon DEF MInit
  <2>3. writing \in [Loops -> [nanos : Durations, next : Cells] \cup {Idle}]
    BY Zenon DEF MInit
  <2>4. loaded \in [Scrapes -> Seq(0 .. U64 - 1)] /\ \A s \in Scrapes : Len(loaded[s]) <= SumCell
    BY <2>1, Zenon DEF MInit
  <2>5. observed \in [at_most : [Buckets -> Nat], count : Nat, total : Nat]
    BY Zenon DEF MInit, Unobserved
  <2> QED
    BY <2>2, <2>3, <2>4, <2>5, Zenon DEF MTypeOK
<1>3. \A i \in Cells : Due(i) = 0 /\ cells[i] = 0
  BY CellsInOrder, Zenon DEF MInit, Unobserved, Due
<1>4. ASSUME NEW i \in Cells PROVE Owed(i) = {}
  <2> SUFFICES ASSUME NEW u \in Owed(i)
               PROVE  FALSE
    BY Zenon
  <2>1. u \in Loops \X (1 .. U64) /\ writing[u[1]].next <= i
    BY Zenon DEF Owed
  <2>2. u[1] \in Loops
    BY <2>1, Zenon
  <2>3. writing[u[1]].next = SumCell + 1
    BY <2>2, Zenon DEF MInit, Idle
  <2> QED
    BY <2>1, <2>3, CellsInOrder
<1>5. CellsHold
  <2> SUFFICES ASSUME NEW i \in Cells
               PROVE  Due(i) = cells[i] + (U64 * 0) + Cardinality(Owed(i))
    BY Zenon DEF CellsHold
  <2>1. Cardinality(Owed(i)) = 0
    BY <1>4, FS_EmptySet, Zenon
  <2> QED
    BY <1>1, <1>3, <2>1
<1>6. BoundsHold
  <2>1. observed.count = 0
    BY Zenon DEF MInit, Unobserved
  <2>2. \A i \in Buckets : i \in Cells /\ i + 1 \in Cells
    BY CellsInOrder, Zenon
  <2> QED
    BY <1>3, <2>1, <2>2 DEF BoundsHold
<1>7. ScrapesHold
  <2>1. \A s \in Scrapes : Len(loaded[s]) = 0
    BY Zenon DEF MInit
  <2>2. \A i \in Buckets : ~(i < 0) /\ i # 0
    BY CellsInOrder
  <2> QED
    BY <2>1, <2>2, Zenon DEF ScrapesHold
<1> QED
  BY <1>2, <1>5, <1>6, <1>7, Zenon DEF MetricsInv

\* The histogram, the loops that add to it and the scrapes that load it satisfy the
\* invariant at all times (observe_build_duration, render).
THEOREM MetricsInvariance == ESpec => []MetricsInv
<1>1. MInit => MetricsInv
  BY MetricsInvInit, Zenon
<1>2. MetricsInv /\ [ENext]_<<mvars, evars>> => MetricsInv'
  BY MTypeStep, CellsStep, BoundsStep, ScrapesStep, Zenon DEF MetricsInv
<1> QED
  BY <1>1, <1>2, PTL DEF ESpec

\* Between observations the histogram is exact, for any number of loops, buckets and
\* interleavings (observe_build_duration).
THEOREM HistogramIsExact == ESpec => []ExactWhenQuiet
<1>1. MetricsInv => ExactWhenQuiet
  <2> SUFFICES ASSUME MetricsInv, \A l \in Loops : writing[l] = Idle
               PROVE  \A i \in Cells : cells[i] = Due(i) % U64
    <3>1. /\ SumCell \in Cells /\ Count \in Cells /\ Count # SumCell
          /\ \A i \in Buckets : i \in Cells /\ i # SumCell /\ i # Count
      BY CellsInOrder
    <3> QED
      BY <3>1, Zenon DEF ExactWhenQuiet, Due
  <2> TAKE i \in Cells
  <2>1. Owed(i) = {}
    <3> SUFFICES ASSUME NEW u \in Owed(i)
                 PROVE  FALSE
      BY Zenon
    <3>1. u \in Loops \X (1 .. U64) /\ writing[u[1]].next <= i
      BY Zenon DEF Owed
    <3>2. u[1] \in Loops
      BY <3>1, Zenon
    <3>3. writing[u[1]].next = SumCell + 1
      BY <3>2 DEF Idle
    <3> QED
      BY <3>1, <3>3, CellsInOrder
  <2>2. Cardinality(Owed(i)) = 0
    BY <2>1, FS_EmptySet, Zenon
  <2>3. PICK q \in Nat : Due(i) = cells[i] + (U64 * q) + Cardinality(Owed(i))
    BY Zenon DEF MetricsInv, CellsHold
  <2>4. U64 \in Nat \ {0} /\ cells[i] \in 0 .. U64 - 1 /\ U64 * q \in Nat
    BY <2>3, MetricsAssumption DEF MetricsInv, MTypeOK
  <2>5. Due(i) = cells[i] + (U64 * q)
    BY <2>2, <2>3, <2>4
  <2> QED
    BY <2>3, <2>4, <2>5, RestIsUnique, Zenon
<1> QED
  BY <1>1, MetricsInvariance, PTL

\* A scrape is torn by at most one observation per loop, however many loops there are and
\* however long it takes (render).
THEOREM ScrapesAreHardlyTorn == ESpec => []TornByAtMostLoops
<1>1. MetricsInv => TornByAtMostLoops
  <2> SUFFICES ASSUME MetricsInv, observed.count < U64, NEW s \in Scrapes, NEW i \in Buckets,
                      Rendered(s)
               PROVE  loaded[s][i] <= loaded[s][i + 1] + Cardinality(Loops)
    BY Zenon DEF TornByAtMostLoops
  <2>1. i < SumCell
    BY CellsInOrder
  <2> QED
    BY <2>1, Zenon DEF Rendered, MetricsInv, ScrapesHold
<1> QED
  BY <1>1, MetricsInvariance, PTL

-----------------------------------------------------------------------------
(* Least numbers *)

\* Every set of naturals that is not empty has a least element.
LEMMA LeastNatural ==
  ASSUME NEW T \in SUBSET Nat, T # {}
  PROVE  \E x \in T : \A y \in T : x <= y
<1> DEFINE Less == {p \in Nat \X Nat : p[1] < p[2]}
<1>1. IsWellFoundedOn(Less, Nat)
  BY NatLessThanWellFounded, Zenon DEF OpToRel
<1>2. PICK x \in T : \A y \in T : <<y, x>> \notin Less
  BY <1>1, WFMin, Zenon
<1>3. ASSUME NEW y \in T
      PROVE  x <= y
  <2>1. <<y, x>> \notin Less /\ x \in Nat /\ y \in Nat
    BY <1>2, Zenon
  <2> QED
    BY <2>1
<1> QED
  BY <1>3, Zenon

\* Min is the least element where there is one (decode_hex).
LEMMA MinIs ==
  ASSUME NEW S \in SUBSET Int, NEW m \in S, \A y \in S : m <= y
  PROVE  Min(S) = m
<1>1. \A x \in S : (\A y \in S : x <= y) => x = m
  OBVIOUS
<1> QED
  BY <1>1, Zenon DEF Min

-----------------------------------------------------------------------------
(* The calendar.  A year of an era begins in March, so that its leap day is its last. *)

\* How many days a year of an era has.
YearLength(yoe) == IF IsLeapYear(yoe + 1) THEN 366 ELSE 365

\* A quotient and its remainder.
LEMMA Divided ==
  ASSUME NEW n \in Int, NEW k \in Nat \ {0}
  PROVE  /\ n \div k \in Int
         /\ k * (n \div k) <= n /\ n < (k * (n \div k)) + k
         /\ n % k = n - (k * (n \div k))
BY SMT

\* The quotients that tell a leap year.
Divides(y, f, h, e) ==
  /\ 4 * f <= y /\ y < (4 * f) + 4
  /\ 100 * h <= y /\ y < (100 * h) + 100
  /\ 400 * e <= y /\ y < (400 * e) + 400

\* A year is a leap year if 4 divides it, but for the centuries 400 does not divide.
LEMMA LeapYear ==
  ASSUME NEW y \in Int, NEW f \in Int, NEW h \in Int, NEW e \in Int, Divides(y, f, h, e)
  PROVE  IsLeapYear(y) <=> (y = 4 * f /\ y # 100 * h) \/ y = 400 * e
<1>1. y % 4 = 0 <=> y = 4 * f
  BY SMT DEF Divides
<1>2. y % 100 = 0 <=> y = 100 * h
  BY SMT DEF Divides
<1>3. y % 400 = 0 <=> y = 400 * e
  BY SMT DEF Divides
<1> QED
  BY <1>1, <1>2, <1>3, SMT DEF IsLeapYear

\* Where a year begins, and how long it is, by the quotients of the year.
Quotients(yoe, f, h) ==
  /\ 4 * f <= yoe /\ yoe < (4 * f) + 4 /\ 100 * h <= yoe /\ yoe < (100 * h) + 100
  /\ Start(yoe) = ((365 * yoe) + f) - h
  /\ YearLength(yoe) = IF yoe + 1 = (4 * f) + 4 /\ (yoe + 1 # (100 * h) + 100 \/ yoe = 399)
                       THEN 366 ELSE 365

\* Every year has them.
LEMMA YearByQuotients ==
  ASSUME NEW yoe \in Nat, yoe <= 399
  PROVE  \E f \in Int, h \in Int : Quotients(yoe, f, h)
<1> DEFINE f == yoe \div 4
           h == yoe \div 100
           g == (yoe + 1) \div 4
           i == (yoe + 1) \div 100
           e == (yoe + 1) \div 400
<1>1. /\ f \in Int /\ 4 * f <= yoe /\ yoe < (4 * f) + 4
      /\ h \in Int /\ 100 * h <= yoe /\ yoe < (100 * h) + 100
  BY Divided, SMT
<1>2. /\ g \in Int /\ 4 * g <= yoe + 1 /\ yoe + 1 < (4 * g) + 4
      /\ i \in Int /\ 100 * i <= yoe + 1 /\ yoe + 1 < (100 * i) + 100
      /\ e \in Int /\ 400 * e <= yoe + 1 /\ yoe + 1 < (400 * e) + 400
  <2>1. yoe + 1 \in Int
    BY SMT
  <2> QED
    BY <2>1, Divided, SMT
<1>3. Start(yoe) = ((365 * yoe) + f) - h
  BY SMT DEF Start
<1> HIDE DEF f, h, g, i, e
<1>4. IsLeapYear(yoe + 1) <=> (yoe + 1 = 4 * g /\ yoe + 1 # 100 * i) \/ yoe + 1 = 400 * e
  <2> DEFINE y == yoe + 1
  <2>1. y \in Int
    BY SMT
  <2>2. Divides(y, g, i, e)
    BY <1>2, SMT DEF Divides
  <2> HIDE DEF y
  <2>3. IsLeapYear(y) <=> (y = 4 * g /\ y # 100 * i) \/ y = 400 * e
    BY <1>2, <2>1, <2>2, LeapYear, SMT
  <2> QED
    BY <2>3, SMT DEF y
<1>5. (yoe + 1 = 4 * g /\ yoe + 1 # 100 * i) \/ yoe + 1 = 400 * e
      <=> yoe + 1 = (4 * f) + 4 /\ (yoe + 1 # (100 * h) + 100 \/ yoe = 399)
  BY <1>1, <1>2, SMT
<1>6. YearLength(yoe) = IF yoe + 1 = (4 * f) + 4 /\ (yoe + 1 # (100 * h) + 100 \/ yoe = 399)
                        THEN 366 ELSE 365
  BY <1>4, <1>5, SMT DEF YearLength
<1>7. Quotients(yoe, f, h)
  BY <1>1, <1>3, <1>6, SMT DEF Quotients
<1> QED
  BY <1>1, <1>7, SMT

\* The year of a day is the one that has begun and has not ended.
LEMMA YearIsFound ==
  ASSUME NEW doe \in Nat, doe <= 146096
  PROVE  /\ YearOf(doe) \in Nat /\ YearOf(doe) <= 399
         /\ Start(YearOf(doe)) <= doe
         /\ doe < Start(YearOf(doe)) + YearLength(YearOf(doe))
<1> DEFINE a == doe \div 1460
           b == doe \div 36524
           c == doe \div 146096
           n == ((doe - a) + b) - c
           y == n \div 365
<1>1. /\ a \in Int /\ 1460 * a <= doe /\ doe < (1460 * a) + 1460
      /\ b \in Int /\ 36524 * b <= doe /\ doe < (36524 * b) + 36524
      /\ c \in Int /\ 146096 * c <= doe /\ doe < (146096 * c) + 146096
  BY Divided, SMT
<1> HIDE DEF a, b, c
<1>2. n \in Int
  BY <1>1, SMT
<1>3. y \in Int /\ 365 * y <= n /\ n < (365 * y) + 365
  BY <1>2, Divided, SMT
<1>4. y = YearOf(doe)
  BY SMT DEF YearOf, a, b, c
<1> HIDE DEF y
<1>5. y \in Nat /\ y <= 399
  BY <1>1, <1>3, SMT
<1>6. PICK f \in Int, h \in Int : Quotients(y, f, h)
  BY <1>5, YearByQuotients, SMT
<1>7. Start(y) <= doe /\ doe < Start(y) + YearLength(y)
  BY <1>1, <1>3, <1>5, <1>6, SMTT(30) DEF Quotients
<1> QED
  BY <1>4, <1>5, <1>7, SMT

\* A year ends as the next begins, and the last of an era with the era.
LEMMA YearsAdjoin ==
  ASSUME NEW yoe \in Nat, yoe <= 399
  PROVE  /\ Start(yoe) \in Nat /\ Start(yoe) <= 146096 /\ YearLength(yoe) \in {365, 366}
         /\ yoe < 399 => Start(yoe) + YearLength(yoe) = Start(yoe + 1)
         /\ yoe = 399 => Start(yoe) + YearLength(yoe) = 146097
<1>1. PICK f \in Int, h \in Int : Quotients(yoe, f, h)
  BY YearByQuotients, SMT
<1>2. CASE yoe < 399
  <2> DEFINE y == yoe + 1
  <2>1. y \in Nat /\ y <= 399
    BY <1>2, SMT
  <2>2. PICK g \in Int, i \in Int : Quotients(y, g, i)
    BY <2>1, YearByQuotients, SMT
  <2> QED
    BY <1>1, <1>2, <2>2, SMT DEF Quotients
<1>3. CASE yoe = 399
  BY <1>1, <1>3, SMT DEF Quotients
<1> QED
  BY <1>2, <1>3, SMT

\* No two years have a day in common.
LEMMA YearsAreApart ==
  ASSUME NEW x \in Nat, x <= 399, NEW y \in Nat, y <= 399, x < y
  PROVE  Start(x) + YearLength(x) <= Start(y)
<1>1. PICK f \in Int, h \in Int : Quotients(x, f, h)
  BY YearByQuotients, SMT
<1>2. PICK g \in Int, i \in Int : Quotients(y, g, i)
  BY YearByQuotients, SMT
<1> QED
  BY <1>1, <1>2, SMT DEF Quotients

\* An era is 400 years, after which leap years come again.
LEMMA LeapYearsRecur ==
  ASSUME NEW y \in Int, NEW era \in Int
  PROVE  IsLeapYear(y + (era * 400)) <=> IsLeapYear(y)
<1> DEFINE f == y \div 4
           h == y \div 100
           e == y \div 400
           x == y + (era * 400)
           ff == f + (100 * era)
           hh == h + (4 * era)
           ee == e + era
<1>1. /\ f \in Int /\ 4 * f <= y /\ y < (4 * f) + 4
      /\ h \in Int /\ 100 * h <= y /\ y < (100 * h) + 100
      /\ e \in Int /\ 400 * e <= y /\ y < (400 * e) + 400
  BY Divided, SMT
<1> HIDE DEF f, h, e
<1>2. IsLeapYear(y) <=> (y = 4 * f /\ y # 100 * h) \/ y = 400 * e
  <2>1. Divides(y, f, h, e)
    BY <1>1, SMT DEF Divides
  <2> QED
    BY <1>1, <2>1, LeapYear, SMT
<1>3. /\ x \in Int /\ ff \in Int /\ hh \in Int /\ ee \in Int
      /\ Divides(x, ff, hh, ee)
      /\ (x = 4 * ff /\ x # 100 * hh) \/ x = 400 * ee <=> (y = 4 * f /\ y # 100 * h) \/ y = 400 * e
  BY <1>1, SMT DEF Divides
<1> HIDE DEF x, ff, hh, ee
<1>4. IsLeapYear(x) <=> (x = 4 * ff /\ x # 100 * hh) \/ x = 400 * ee
  BY <1>3, LeapYear, SMT
<1> QED
  BY <1>2, <1>3, <1>4, SMT DEF x

\* The day of an era, and so the date, is found from the number of a day.
LEMMA CivilIs ==
  ASSUME NEW era \in Int, NEW yoe \in Nat, yoe <= 399, NEW doy \in Nat, doy < YearLength(yoe),
         NEW days \in Int, days + 719468 = ((146097 * era) + Start(yoe)) + doy
  PROVE  CivilFromDays(days) = DateOf(era, yoe, doy)
<1> DEFINE z == days + 719468
           doe == Start(yoe) + doy
           y == YearOf(doe)
<1>1. Start(yoe) \in Nat /\ YearLength(yoe) \in {365, 366}
  BY YearsAdjoin, SMT
<1>2. doe \in Nat /\ doe <= 146096
  <2>1. CASE yoe = 399
    BY <1>1, <2>1, YearsAdjoin, SMT
  <2>2. CASE yoe < 399
    <3>1. PICK last \in Nat : last = 399
      BY SMT
    <3>2. last <= 399 /\ yoe < last
      BY <2>2, <3>1, SMT
    <3>3. Start(yoe) + YearLength(yoe) <= Start(last)
      BY <3>2, YearsAreApart, SMT
    <3>4. Start(last) \in Nat /\ Start(last) <= 146096
      BY <3>2, YearsAdjoin, SMT
    <3> QED
      BY <1>1, <3>3, <3>4, SMT
  <2> QED
    BY <2>1, <2>2, SMT
<1>3. z \div 146097 = era /\ z % 146097 = doe
  <2>1. z \in Int /\ z = (146097 * era) + doe
    BY <1>1, <1>2, SMT
  <2> HIDE DEF z, doe
  <2> DEFINE q == z \div 146097
  <2>2. q \in Int /\ 146097 * q <= z /\ z < (146097 * q) + 146097 /\ z % 146097 = z - (146097 * q)
    <3>1. z \in Int
      BY <2>1, SMT
    <3> QED
      BY <3>1, Divided, SMT
  <2> HIDE DEF q
  <2>3. q = era
    BY <1>2, <2>1, <2>2, SMT
  <2>4. z % 146097 = doe
    BY <1>2, <2>1, <2>2, <2>3, SMT
  <2> QED
    BY <2>3, <2>4, SMT DEF q
<1>4. y = yoe
  <2> HIDE DEF doe
  <2>1. y \in Nat /\ y <= 399 /\ Start(y) <= doe /\ doe < Start(y) + YearLength(y)
    BY <1>2, YearIsFound, SMT
  <2> HIDE DEF y
  <2>2. Start(y) \in Nat /\ YearLength(y) \in {365, 366}
    BY <2>1, YearsAdjoin, SMT
  <2>3. ~(y < yoe)
    <3> SUFFICES ASSUME y < yoe
                 PROVE  FALSE
      BY SMT
    <3>1. Start(y) + YearLength(y) <= Start(yoe)
      BY <2>1, YearsAreApart, SMT
    <3> QED
      BY <1>1, <2>1, <2>2, <3>1, SMT DEF doe
  <2>4. ~(yoe < y)
    <3> SUFFICES ASSUME yoe < y
                 PROVE  FALSE
      BY SMT
    <3>1. Start(yoe) + YearLength(yoe) <= Start(y)
      BY <2>1, YearsAreApart, SMT
    <3> QED
      BY <1>1, <2>1, <2>2, <3>1, SMT DEF doe
  <2> QED
    BY <2>1, <2>3, <2>4, SMT
<1>5. doe - Start(yoe) = doy
  BY <1>1, SMT
<1>6. CivilFromDays(days) =
        DateOf(z \div 146097, YearOf(z % 146097), (z % 146097) - Start(YearOf(z % 146097)))
  BY SMT DEF CivilFromDays
<1> HIDE DEF z, doe, y
<1> QED
  BY <1>3, <1>4, <1>5, <1>6, SMT DEF y

\* Every day has its era, year and day of the year.
LEMMA DayHasDate ==
  ASSUME NEW days \in Int
  PROVE  \E era \in Int, yoe \in Nat, doy \in Nat :
           /\ yoe <= 399 /\ doy < YearLength(yoe)
           /\ days + 719468 = ((146097 * era) + Start(yoe)) + doy
<1> DEFINE z == days + 719468
           era == z \div 146097
           doe == z - (146097 * era)
           yoe == YearOf(doe)
           doy == doe - Start(yoe)
<1>1. z \in Int
  BY SMT
<1> HIDE DEF z
<1>2. era \in Int /\ 146097 * era <= z /\ z < (146097 * era) + 146097
  BY <1>1, Divided, SMT
<1> HIDE DEF era
<1>3. doe \in Nat /\ doe <= 146096 /\ z = (146097 * era) + doe
  BY <1>1, <1>2, SMT
<1> HIDE DEF doe
<1>4. yoe \in Nat /\ yoe <= 399 /\ Start(yoe) <= doe /\ doe < Start(yoe) + YearLength(yoe)
  BY <1>3, YearIsFound, SMT
<1> HIDE DEF yoe
<1>5. Start(yoe) \in Nat /\ YearLength(yoe) \in {365, 366}
  BY <1>4, YearsAdjoin, SMT
<1>6. doy \in Nat /\ doy < YearLength(yoe) /\ z = ((146097 * era) + Start(yoe)) + doy
  BY <1>2, <1>3, <1>4, <1>5, SMT
<1> HIDE DEF doy
<1> QED
  BY <1>2, <1>4, <1>6, SMT DEF z

-----------------------------------------------------------------------------
(* Months, from March on *)

FirstOf(m) == ((153 * m) + 2) \div 5
MonthNumber(m) == IF m < 10 THEN m + 3 ELSE m - 9

\* The days of the year on which the months begin.
LEMMA MonthsBegin ==
  /\ FirstOf(0) = 0 /\ FirstOf(1) = 31 /\ FirstOf(2) = 61 /\ FirstOf(3) = 92
  /\ FirstOf(4) = 122 /\ FirstOf(5) = 153 /\ FirstOf(6) = 184 /\ FirstOf(7) = 214
  /\ FirstOf(8) = 245 /\ FirstOf(9) = 275 /\ FirstOf(10) = 306 /\ FirstOf(11) = 337
  /\ FirstOf(12) = 367
BY SMT DEF FirstOf

\* The month of a day is the one that has begun and has not ended.
LEMMA MonthIsFound ==
  ASSUME NEW doy \in Nat, doy <= 365
  PROVE  /\ MonthOf(doy) \in Nat /\ MonthOf(doy) <= 11
         /\ FirstOf(MonthOf(doy)) \in Nat /\ FirstOf(MonthOf(doy) + 1) \in Nat
         /\ FirstOf(MonthOf(doy)) <= doy /\ doy < FirstOf(MonthOf(doy) + 1)
<1> DEFINE n == (5 * doy) + 2
           m == n \div 153
           p == (153 * m) + 2
           q == (153 * (m + 1)) + 2
           a == p \div 5
           b == q \div 5
<1>1. n \in Int
  BY SMT
<1>2. m \in Int /\ 153 * m <= n /\ n < (153 * m) + 153
  BY <1>1, Divided, SMT
<1>3. m = MonthOf(doy)
  BY SMT DEF MonthOf
<1> HIDE DEF m
<1>4. p \in Int /\ q \in Int
  BY <1>2, SMT
<1>5. /\ a \in Int /\ 5 * a <= p /\ p < (5 * a) + 5
      /\ b \in Int /\ 5 * b <= q /\ q < (5 * b) + 5
  <2> HIDE DEF p, q
  <2> QED
    BY <1>4, Divided, SMT
<1>6. a = FirstOf(m) /\ b = FirstOf(m + 1)
  BY SMT DEF FirstOf
<1> HIDE DEF a, b
<1>7. m \in Nat /\ m <= 11 /\ a \in Nat /\ b \in Nat /\ a <= doy /\ doy < b
  BY <1>2, <1>5, SMT
<1> QED
  BY <1>3, <1>6, <1>7, SMT

\* No two months have a day in common.
LEMMA MonthsAreApart ==
  ASSUME NEW m \in Nat, NEW n \in Nat, m < n
  PROVE  FirstOf(m + 1) \in Nat /\ FirstOf(n) \in Nat /\ FirstOf(m + 1) <= FirstOf(n)
<1> DEFINE p == (153 * (m + 1)) + 2
           q == (153 * n) + 2
           a == p \div 5
           b == q \div 5
<1>1. p \in Int /\ q \in Int
  BY SMT
<1>2. /\ a \in Int /\ 5 * a <= p /\ p < (5 * a) + 5
      /\ b \in Int /\ 5 * b <= q /\ q < (5 * b) + 5
  BY <1>1, Divided, SMT
<1>3. a = FirstOf(m + 1) /\ b = FirstOf(n)
  BY SMT DEF FirstOf
<1> HIDE DEF a, b
<1>4. a \in Nat /\ b \in Nat /\ a <= b
  BY <1>2, SMT
<1> QED
  BY <1>3, <1>4, SMT

\* So a day in a month is of that month.
LEMMA MonthIs ==
  ASSUME NEW doy \in Nat, doy <= 365, NEW m \in Nat, m <= 11,
         FirstOf(m) <= doy, doy < FirstOf(m + 1)
  PROVE  MonthOf(doy) = m
<1> DEFINE n == MonthOf(doy)
<1>1. /\ n \in Nat /\ FirstOf(n) \in Nat /\ FirstOf(n + 1) \in Nat
      /\ FirstOf(n) <= doy /\ doy < FirstOf(n + 1)
  BY MonthIsFound, SMT
<1> HIDE DEF n
<1>2. ~(m < n)
  <2> SUFFICES ASSUME m < n
               PROVE  FALSE
    BY SMT
  <2>1. FirstOf(m + 1) \in Nat /\ FirstOf(m + 1) <= FirstOf(n)
    BY <1>1, MonthsAreApart, SMT
  <2> QED
    BY <1>1, <2>1, SMT
<1>3. ~(n < m)
  <2> SUFFICES ASSUME n < m
               PROVE  FALSE
    BY SMT
  <2>1. FirstOf(m) \in Nat /\ FirstOf(n + 1) <= FirstOf(m)
    BY <1>1, MonthsAreApart, SMT
  <2> QED
    BY <1>1, <2>1, SMT
<1> QED
  BY <1>1, <1>2, <1>3, SMT DEF n

\* The months before February have the lengths of the calendar, in every year.
LEMMA MonthLengths ==
  ASSUME NEW m \in Nat, m <= 10, NEW year \in Int
  PROVE  /\ MonthLength(year, MonthNumber(m)) = FirstOf(m + 1) - FirstOf(m)
         /\ FirstOf(m + 1) \in Nat /\ FirstOf(m) \in Nat
<1>1. \/ m = 0 \/ m = 1 \/ m = 2 \/ m = 3 \/ m = 4 \/ m = 5 \/ m = 6 \/ m = 7 \/ m = 8 \/ m = 9
      \/ m = 10
  BY SMT
<1> QED
  BY <1>1, MonthsBegin, SMT DEF MonthLength, MonthNumber

\* The leap day of a year of an era is that of the year it ends in.
LEMMA LeapOfEra ==
  ASSUME NEW era \in Int, NEW yoe \in Nat
  PROVE  IsLeapYear((yoe + (era * 400)) + 1) <=> YearLength(yoe) = 366
<1> DEFINE y == yoe + 1
<1>1. y + (era * 400) = (yoe + (era * 400)) + 1
  BY SMT
<1>2. y \in Int
  BY SMT
<1>3. IsLeapYear(y) <=> YearLength(yoe) = 366
  BY SMT DEF YearLength
<1> HIDE DEF y
<1>4. IsLeapYear(y + (era * 400)) <=> IsLeapYear(y)
  BY <1>2, LeapYearsRecur, Zenon
<1> QED
  BY <1>1, <1>3, <1>4, SMT

\* The next day of a year has the next date.
LEMMA NextDayOfYear ==
  ASSUME NEW era \in Int, NEW yoe \in Nat, yoe <= 399, NEW doy \in Nat, doy + 1 < YearLength(yoe)
  PROVE  Follows(DateOf(era, yoe, doy), DateOf(era, yoe, doy + 1))
<1> DEFINE Y == yoe + (era * 400)
           m == MonthOf(doy)
           n == MonthOf(doy + 1)
           day(d, k) == (d - FirstOf(k)) + 1
           date(d, k) == <<IF MonthNumber(k) <= 2 THEN Y + 1 ELSE Y, MonthNumber(k), day(d, k)>>
<1>1. YearLength(yoe) \in {365, 366} /\ Y \in Int
  BY YearsAdjoin, SMT
<1>2. IsLeapYear(Y + 1) <=> YearLength(yoe) = 366
  BY LeapOfEra, SMT
<1>3. DateOf(era, yoe, doy) = date(doy, m) /\ DateOf(era, yoe, doy + 1) = date(doy + 1, n)
  BY SMT DEF DateOf, FirstOf, MonthNumber
<1>4. /\ m \in Nat /\ m <= 11 /\ FirstOf(m) \in Nat /\ FirstOf(m + 1) \in Nat
      /\ FirstOf(m) <= doy /\ doy < FirstOf(m + 1)
  BY <1>1, MonthIsFound, SMT
<1> HIDE DEF Y, m, n
<1> SUFFICES Follows(date(doy, m), date(doy + 1, n))
  BY <1>3, SMT
<1>5. CASE m = 11
  <2>1. FirstOf(m) = 337 /\ FirstOf(m + 1) = 367
    BY <1>5, MonthsBegin, SMT
  <2>2. n = m
    BY <1>1, <1>4, <2>1, MonthIs, SMT DEF n
  <2>3. MonthNumber(m) = 2
    BY <1>5, SMT DEF MonthNumber
  <2>4. date(doy, m) = <<Y + 1, 2, doy - 336>> /\ date(doy + 1, n) = <<Y + 1, 2, (doy - 336) + 1>>
    BY <2>1, <2>2, <2>3, SMT
  <2>5. doy - 336 < MonthLength(Y + 1, 2)
    BY <1>1, <1>2, SMT DEF MonthLength
  <2> QED
    BY <2>4, <2>5, SMT DEF Follows
<1>6. CASE m <= 10 /\ doy + 1 < FirstOf(m + 1)
  <2>1. n = m
    BY <1>1, <1>4, <1>6, MonthIs, SMT DEF n
  <2>2. PICK y \in Int : y = IF MonthNumber(m) <= 2 THEN Y + 1 ELSE Y
    BY <1>1, SMT
  <2>3. day(doy, m) < MonthLength(y, MonthNumber(m)) /\ day(doy + 1, m) = day(doy, m) + 1
    BY <1>4, <1>6, MonthLengths, SMT
  <2> HIDE DEF day
  <2>4. date(doy, m) = <<y, MonthNumber(m), day(doy, m)>>
        /\ date(doy + 1, n) = <<y, MonthNumber(m), day(doy, m) + 1>>
    BY <2>1, <2>2, <2>3, SMT
  <2> QED
    BY <2>3, <2>4, SMT DEF Follows
<1>7. CASE m <= 10 /\ doy + 1 = FirstOf(m + 1)
  <2>1. FirstOf(m + 1) < FirstOf(m + 2)
    <3>1. \/ m = 0 \/ m = 1 \/ m = 2 \/ m = 3 \/ m = 4 \/ m = 5 \/ m = 6 \/ m = 7 \/ m = 8
          \/ m = 9 \/ m = 10
      BY <1>4, <1>7, SMT
    <3> QED
      BY <3>1, MonthsBegin, SMT
  <2>2. n = m + 1
    <3> DEFINE k == m + 1
    <3>1. k \in Nat /\ k <= 11 /\ k + 1 = m + 2
      BY <1>4, <1>7, SMT
    <3>2. doy + 1 \in Nat /\ doy + 1 <= 365
      BY <1>1, SMT
    <3>3. FirstOf(k) <= doy + 1 /\ doy + 1 < FirstOf(k + 1)
      BY <1>4, <1>7, <2>1, <3>1, SMT
    <3> HIDE DEF k
    <3>4. n = k
      BY <3>1, <3>2, <3>3, MonthIs, SMT DEF n
    <3> QED
      BY <3>4, SMT DEF k
  <2>3. PICK y \in Int : y = IF MonthNumber(m) <= 2 THEN Y + 1 ELSE Y
    BY <1>1, SMT
  <2>4. day(doy, m) = MonthLength(y, MonthNumber(m)) /\ day(doy + 1, m + 1) = 1
    BY <1>4, <1>7, MonthLengths, SMT
  <2> HIDE DEF day
  <2>5. date(doy, m) = <<y, MonthNumber(m), MonthLength(y, MonthNumber(m))>>
    BY <2>3, <2>4, SMT
  <2>6. date(doy + 1, n) = IF MonthNumber(m) < 12 THEN <<y, MonthNumber(m) + 1, 1>>
                                                  ELSE <<y + 1, 1, 1>>
    BY <1>1, <1>4, <1>7, <2>2, <2>3, <2>4, SMT DEF MonthNumber
  <2>7. ~(MonthLength(y, MonthNumber(m)) < MonthLength(y, MonthNumber(m)))
    BY <1>4, <1>7, MonthLengths, SMT
  <2> HIDE DEF date
  <2> QED
    BY <2>5, <2>6, <2>7, SMT DEF Follows
<1> QED
  BY <1>1, <1>4, <1>5, <1>6, <1>7, SMT

\* After the last day of a year, which is the last of February, comes the first of March.
LEMMA NextYear ==
  ASSUME NEW era \in Int, NEW yoe \in Nat, yoe <= 399, NEW doy \in Nat, doy + 1 = YearLength(yoe),
         NEW next_era \in Int, NEW next_yoe \in Nat,
         next_yoe + (next_era * 400) = (yoe + (era * 400)) + 1
  PROVE  Follows(DateOf(era, yoe, doy), DateOf(next_era, next_yoe, 0))
<1> DEFINE Y == yoe + (era * 400)
<1>1. YearLength(yoe) \in {365, 366} /\ Y \in Int
  BY YearsAdjoin, SMT
<1>2. IsLeapYear(Y + 1) <=> YearLength(yoe) = 366
  BY LeapOfEra, SMT
<1>3. MonthOf(doy) = 11 /\ MonthOf(0) = 0
  <2>1. PICK m \in Nat : m = 11
    BY SMT
  <2>2. FirstOf(m) = 337 /\ FirstOf(m + 1) = 367
    BY <2>1, MonthsBegin, SMT
  <2>3. MonthOf(doy) = m
    BY <1>1, <2>1, <2>2, MonthIs, SMT
  <2>4. MonthOf(0) = 0
    BY SMT DEF MonthOf
  <2> QED
    BY <2>1, <2>3, <2>4, SMT
<1>4. DateOf(era, yoe, doy) = <<Y + 1, 2, doy - 336>>
  BY <1>1, <1>3, SMT DEF DateOf
<1>5. DateOf(next_era, next_yoe, 0) = <<Y + 1, 3, 1>>
  BY <1>1, <1>3, SMT DEF DateOf
<1>6. MonthLength(Y + 1, 2) = doy - 336
  BY <1>1, <1>2, SMT DEF MonthLength
<1> HIDE DEF Y
<1> QED
  BY <1>1, <1>4, <1>5, <1>6, SMT DEF Follows

\* One day after the other, what civil_from_days says of a day is followed by what it says
\* of the next, for every day before and after 1970.
THEOREM DatesFollow == \A days \in Int : Follows(CivilFromDays(days), CivilFromDays(days + 1))
<1> TAKE days \in Int
<1>1. PICK era \in Int, yoe \in Nat, doy \in Nat :
        /\ yoe <= 399 /\ doy < YearLength(yoe)
        /\ days + 719468 = ((146097 * era) + Start(yoe)) + doy
  BY DayHasDate, SMT
<1>2. CivilFromDays(days) = DateOf(era, yoe, doy)
  BY <1>1, CivilIs, SMT
<1>3. Start(yoe) \in Nat /\ YearLength(yoe) \in {365, 366}
  BY <1>1, YearsAdjoin, SMT
<1> DEFINE next == days + 1
<1>4. next \in Int /\ next + 719468 = (((146097 * era) + Start(yoe)) + doy) + 1
  BY <1>1, SMT
<1> HIDE DEF next
<1> SUFFICES Follows(DateOf(era, yoe, doy), CivilFromDays(next))
  BY <1>2, SMT DEF next
<1>5. CASE doy + 1 < YearLength(yoe)
  <2> DEFINE d == doy + 1
  <2>1. d \in Nat /\ d < YearLength(yoe) /\ next + 719468 = ((146097 * era) + Start(yoe)) + d
    BY <1>3, <1>4, <1>5, SMT
  <2> HIDE DEF d
  <2>2. CivilFromDays(next) = DateOf(era, yoe, d)
    BY <1>1, <1>4, <2>1, CivilIs, SMT
  <2> QED
    BY <1>1, <1>5, <2>2, NextDayOfYear, SMT DEF d
<1>6. CASE doy + 1 = YearLength(yoe) /\ yoe < 399
  <2> DEFINE y == yoe + 1
  <2>1. PICK d \in Nat : d = 0
    BY SMT
  <2>2. y \in Nat /\ y <= 399 /\ Start(yoe) + YearLength(yoe) = Start(y)
    BY <1>1, <1>6, YearsAdjoin, SMT
  <2>3. y + (era * 400) = (yoe + (era * 400)) + 1
    BY SMT
  <2> HIDE DEF y
  <2>4. Start(y) \in Nat /\ YearLength(y) \in {365, 366}
    BY <2>2, YearsAdjoin, SMT
  <2>5. d < YearLength(y) /\ next + 719468 = ((146097 * era) + Start(y)) + d
    BY <1>3, <1>4, <1>6, <2>1, <2>2, <2>4, SMT
  <2>6. CivilFromDays(next) = DateOf(era, y, d)
    BY <1>4, <2>2, <2>5, CivilIs, SMT
  <2>7. Follows(DateOf(era, yoe, doy), DateOf(era, y, 0))
    BY <1>1, <1>6, <2>2, <2>3, NextYear, SMT
  <2> QED
    BY <2>1, <2>6, <2>7, SMT
<1>7. CASE doy + 1 = YearLength(yoe) /\ yoe = 399
  <2> DEFINE e == era + 1
  <2>1. PICK d \in Nat, y \in Nat : d = 0 /\ y = 0
    BY SMT
  <2>2. e \in Int /\ y + (e * 400) = (yoe + (era * 400)) + 1 /\ 146097 * e = (146097 * era) + 146097
    BY <1>7, <2>1, SMT
  <2> HIDE DEF e
  <2>3. Start(y) = 0 /\ YearLength(y) \in {365, 366} /\ y <= 399
    BY <2>1, YearsAdjoin, SMT DEF Start
  <2>4. Start(yoe) + YearLength(yoe) = 146097
    BY <1>1, <1>7, YearsAdjoin, SMT
  <2>5. d < YearLength(y) /\ next + 719468 = ((146097 * e) + Start(y)) + d
    BY <1>3, <1>4, <1>7, <2>1, <2>2, <2>3, <2>4, SMT
  <2>6. CivilFromDays(next) = DateOf(e, y, d)
    BY <1>4, <2>2, <2>3, <2>5, CivilIs, SMT
  <2>7. Follows(DateOf(era, yoe, doy), DateOf(e, y, 0))
    BY <1>1, <1>7, <2>2, NextYear, SMT
  <2> QED
    BY <2>1, <2>6, <2>7, SMT
<1>8. \/ doy + 1 < YearLength(yoe)
      \/ doy + 1 = YearLength(yoe) /\ yoe < 399
      \/ doy + 1 = YearLength(yoe) /\ yoe = 399
  BY <1>1, <1>3, SMT
<1> QED
  BY <1>5, <1>6, <1>7, <1>8, SMT

-----------------------------------------------------------------------------
(* The first day of a year *)

\* The leap years up to a year.
Leaps(y) == ((y \div 4) - (y \div 100)) + (y \div 400)

\* A year more is a leap year more, or none.
LEMMA OneYearMore ==
  ASSUME NEW y \in Int
  PROVE  Leaps(y) \in Int /\ Leaps(y) = Leaps(y - 1) + IF IsLeapYear(y) THEN 1 ELSE 0
<1> DEFINE f == y \div 4
           h == y \div 100
           e == y \div 400
           x == y - 1
           g == x \div 4
           i == x \div 100
           d == x \div 400
<1>1. f \in Int /\ h \in Int /\ e \in Int /\ Divides(y, f, h, e)
  BY Divided, SMT DEF Divides
<1>2. Leaps(y) = (f - h) + e /\ Leaps(x) = (g - i) + d
  BY SMT DEF Leaps
<1>3. x \in Int
  BY SMT
<1>4. g \in Int /\ i \in Int /\ d \in Int /\ Divides(x, g, i, d)
  <2> HIDE DEF x
  <2> QED
    BY <1>3, Divided, SMT DEF Divides
<1> HIDE DEF f, h, e, g, i, d
<1>5. IsLeapYear(y) <=> (y = 4 * f /\ y # 100 * h) \/ y = 400 * e
  BY <1>1, LeapYear, SMT
<1>6. (f - h) + e = ((g - i) + d) + IF (y = 4 * f /\ y # 100 * h) \/ y = 400 * e THEN 1 ELSE 0
  BY <1>1, <1>4, SMT DEF Divides
<1> QED
  BY <1>1, <1>2, <1>5, <1>6, SMT

\* So the leap years of an interval are those up to its end less those before it.
LEMMA LeapYearsAre ==
  ASSUME NEW a \in Int, NEW n \in Nat
  PROVE  LeapYears(a, (a + n) - 1) = Leaps((a + n) - 1) - Leaps(a - 1)
<1> DEFINE Right(k) == LeapYears(a, (a + k) - 1) = Leaps((a + k) - 1) - Leaps(a - 1)
           Wrong == {k \in Nat : ~Right(k)}
<1> SUFFICES ASSUME Wrong # {}
             PROVE  FALSE
  BY Zenon
<1>0. Wrong \in SUBSET Nat
  BY Zenon
<1> HIDE DEF Wrong
<1>1. PICK k \in Wrong : \A j \in Wrong : k <= j
  BY <1>0, LeastNatural, Zenon
<1> USE DEF Wrong
<1>2. k \in Nat /\ ~Right(k)
  BY <1>1, Zenon
<1>3. k # 0
  <2> SUFFICES ASSUME k = 0
               PROVE  FALSE
    BY SMT
  <2>1. {y \in a .. (a + k) - 1 : IsLeapYear(y)} = {}
    BY SMT
  <2>2. LeapYears(a, (a + k) - 1) = 0
    BY <2>1, FS_EmptySet, SMT DEF LeapYears
  <2>3. a - 1 \in Int /\ (a + k) - 1 = a - 1
    BY SMT
  <2>4. Leaps(a - 1) \in Int
    BY <2>3, OneYearMore, SMT
  <2> QED
    BY <1>2, <2>2, <2>3, <2>4, SMT
<1> DEFINE z == (a + k) - 1
           S == {y \in a .. z - 1 : IsLeapYear(y)}
           T == {y \in a .. z : IsLeapYear(y)}
<1>4. k - 1 \in Nat /\ Right(k - 1)
  BY <1>1, <1>2, <1>3, SMT
<1>5. (a + (k - 1)) - 1 = z - 1 /\ z \in Int /\ z >= a
  BY <1>2, <1>3, SMT
<1>6. Cardinality(S) = Leaps(z - 1) - Leaps(a - 1)
  BY <1>4, <1>5, SMT DEF LeapYears
<1>7. IsFiniteSet(S) /\ Cardinality(S) \in Nat
  <2>1. IsFiniteSet(a .. z - 1)
    BY <1>5, FS_Interval, SMT
  <2>2. IsFiniteSet(S)
    BY <2>1, FS_Subset, SMT
  <2> QED
    BY <2>2, FS_CardinalityType, SMT
<1>8. Cardinality(T) = Cardinality(S) + IF IsLeapYear(z) THEN 1 ELSE 0
  <2>1. CASE IsLeapYear(z)
    <3>1. T = S \cup {z} /\ z \notin S
      BY <1>5, <2>1, SMT
    <3> QED
      BY <1>7, <2>1, <3>1, FS_AddElement, SMT
  <2>2. CASE ~IsLeapYear(z)
    <3>1. T = S
      BY <1>5, <2>2, SMT
    <3> QED
      BY <1>7, <2>2, <3>1, SMT
  <2> QED
    BY <2>1, <2>2, SMT
<1>9. Leaps(z) = Leaps(z - 1) + IF IsLeapYear(z) THEN 1 ELSE 0
  BY <1>5, OneYearMore, SMT
<1>10. Leaps(z) \in Int /\ Leaps(z - 1) \in Int /\ Leaps(a - 1) \in Int
  <2>1. z - 1 \in Int /\ a - 1 \in Int
    BY <1>5, SMT
  <2> QED
    BY <1>5, <2>1, OneYearMore, SMT
<1>11. LeapYears(a, z) = Cardinality(T)
  BY SMT DEF LeapYears
<1> HIDE DEF z, S, T
<1>12. LeapYears(a, z) = Leaps(z) - Leaps(a - 1)
  BY <1>6, <1>7, <1>8, <1>9, <1>10, <1>11, SMT
<1> QED
  BY <1>2, <1>12, SMT DEF z

\* There are none between a year and an earlier one.
LEMMA NoLeapYears ==
  ASSUME NEW a \in Int, NEW b \in Int, b < a
  PROVE  LeapYears(a, b) = 0
<1>1. {y \in a .. b : IsLeapYear(y)} = {}
  BY SMT
<1> QED
  BY <1>1, FS_EmptySet, SMT DEF LeapYears

\* The first day of a year, from the leap years before it.
LEMMA FirstDayIs ==
  ASSUME NEW year \in Int
  PROVE  /\ Leaps(year - 1) \in Int
         /\ FirstDay(year) = ((365 * (year - 1970)) + Leaps(year - 1)) - 477
<1>1. year - 1 \in Int /\ Leaps(year - 1) \in Int
  <2>1. year - 1 \in Int
    BY SMT
  <2> QED
    BY <2>1, OneYearMore, SMT
<1>2. Leaps(1969) = 477
  BY SMT DEF Leaps
<1>3. CASE year >= 1970
  <2>1. PICK n \in Nat : n = year - 1970
    BY <1>3, SMT
  <2>2. PICK a \in Int : a = 1970
    BY SMT
  <2>3. LeapYears(a, (a + n) - 1) = Leaps((a + n) - 1) - Leaps(a - 1)
    BY LeapYearsAre, Zenon
  <2>4. (a + n) - 1 = year - 1 /\ a - 1 = 1969
    BY <2>1, <2>2, SMT
  <2>5. LeapYears(1970, year - 1) = Leaps(year - 1) - 477
    BY <1>2, <2>2, <2>3, <2>4, SMT
  <2>6. PICK b \in Int : b = 1969
    BY SMT
  <2>7. b < year
    BY <1>3, <2>6, SMT
  <2>8. LeapYears(year, b) = 0
    BY <2>7, NoLeapYears, Zenon
  <2> QED
    BY <1>1, <2>5, <2>6, <2>8, SMT DEF FirstDay
<1>4. CASE year < 1970
  <2>1. PICK n \in Nat : n = 1970 - year
    BY <1>4, SMT
  <2>2. LeapYears(year, (year + n) - 1) = Leaps((year + n) - 1) - Leaps(year - 1)
    BY LeapYearsAre, Zenon
  <2>3. (year + n) - 1 = 1969
    BY <2>1, SMT
  <2>4. LeapYears(year, 1969) = 477 - Leaps(year - 1)
    BY <1>2, <2>2, <2>3, SMT
  <2>5. PICK a \in Int : a = 1970
    BY SMT
  <2>6. year - 1 < a
    BY <1>4, <2>5, SMT
  <2>7. LeapYears(a, year - 1) = 0
    BY <1>1, <2>6, NoLeapYears, Zenon
  <2> QED
    BY <1>1, <2>4, <2>5, <2>7, SMT DEF FirstDay
<1> QED
  BY <1>1, <1>3, <1>4, SMT

\* What civil_from_days says of that day is 1 January of the year.
LEMMA YearBegins ==
  ASSUME NEW year \in Int
  PROVE  FirstDay(year) \in Int /\ CivilFromDays(FirstDay(year)) = <<year, 1, 1>>
<1>1. /\ Leaps(year - 1) \in Int
      /\ FirstDay(year) = ((365 * (year - 1970)) + Leaps(year - 1)) - 477
  BY FirstDayIs, SMT
<1>2. PICK y \in Int : y = year - 1
  BY SMT
<1>3. PICK f \in Int, h \in Int, e \in Int :
        Divides(y, f, h, e) /\ Leaps(y) = (f - h) + e
  <2> DEFINE a == y \div 4
             b == y \div 100
             c == y \div 400
  <2>1. a \in Int /\ b \in Int /\ c \in Int
    BY Divided, SMT
  <2>2. Divides(y, a, b, c)
    BY Divided, SMT DEF Divides
  <2>3. Leaps(y) = (a - b) + c
    BY SMT DEF Leaps
  <2> HIDE DEF a, b, c
  <2> QED
    BY <2>1, <2>2, <2>3, Zenon
<1>4. PICK q \in Nat : q = y - (400 * e) /\ q <= 399
  BY <1>3, SMT DEF Divides
<1>5. PICK g \in Int, i \in Int :
        /\ 4 * g <= q /\ q < (4 * g) + 4 /\ 100 * i <= q /\ q < (100 * i) + 100
        /\ Start(q) = ((365 * q) + g) - i
  <2>1. q \in Int
    BY SMT
  <2> DEFINE a == q \div 4
             b == q \div 100
  <2>2. /\ a \in Int /\ b \in Int
        /\ 4 * a <= q /\ q < (4 * a) + 4 /\ 100 * b <= q /\ q < (100 * b) + 100
    BY <2>1, Divided, SMT
  <2>3. Start(q) = ((365 * q) + a) - b
    BY SMT DEF Start
  <2> HIDE DEF a, b
  <2> QED
    BY <2>2, <2>3, SMT
<1>6. f = (100 * e) + g /\ h = (4 * e) + i
  BY <1>3, <1>4, <1>5, SMT DEF Divides
<1>7. PICK days \in Int : days = FirstDay(year)
  BY <1>1, SMT
<1>8. PICK d \in Nat : d = 306
  BY SMT
<1>9. days + 719468 = ((146097 * e) + Start(q)) + d
  BY <1>1, <1>2, <1>3, <1>4, <1>5, <1>6, <1>7, <1>8, SMT
<1>10. d < YearLength(q)
  BY <1>8, SMT DEF YearLength
<1>11. CivilFromDays(days) = DateOf(e, q, d)
  BY <1>4, <1>9, <1>10, CivilIs, SMT
<1>12. MonthOf(d) = 10 /\ ((153 * 10) + 2) \div 5 = 306
  BY <1>8, SMT DEF MonthOf
<1>13. DateOf(e, q, d) = <<(q + (e * 400)) + 1, 1, 1>>
  BY <1>8, <1>12, SMT DEF DateOf
<1>14. (q + (e * 400)) + 1 = year
  BY <1>2, <1>4, SMT
<1> QED
  BY <1>7, <1>11, <1>13, <1>14, SMT

\* civil_from_days gives every year the dates of the Gregorian calendar: the first of its
\* days, by the count of the leap years from 1970, is 1 January, and each day is followed by
\* the next.
THEOREM CalendarHolds == \A year \in Int : YearIsGregorian(year)
<1> TAKE year \in Int
<1>1. FirstDay(year) \in Int /\ CivilFromDays(FirstDay(year)) = <<year, 1, 1>>
  BY YearBegins, SMT
<1>2. \A z \in FirstDay(year) .. FirstDay(year + 1) - 1 :
        Follows(CivilFromDays(z), CivilFromDays(z + 1))
  <2> TAKE z \in FirstDay(year) .. FirstDay(year + 1) - 1
  <2>1. year + 1 \in Int
    BY SMT
  <2>2. FirstDay(year + 1) \in Int
    BY <2>1, YearBegins, SMT
  <2>3. z \in Int
    BY <1>1, <2>2, SMT
  <2> QED
    BY <2>3, DatesFollow, Zenon
<1> QED
  BY <1>1, <1>2, Zenon DEF YearIsGregorian

-----------------------------------------------------------------------------
(* Hexadecimal text *)

\* A text of digits only has as many bytes as characters (decode_hex).
LEMMA DigitsAreBytes ==
  ASSUME NEW d \in Seq(Characters), \A i \in 1 .. Len(d) : d[i] \in DOMAIN HexDigit
  PROVE  ByteLen(d) = Len(d)
<1>1. DOMAIN HexDigit = {"0", "9", "f"}
  BY Zenon DEF HexDigit
<1>2. {i \in DOMAIN d : d[i] = "wide"} = {}
  BY <1>1, SMT
<1> QED
  BY <1>2, FS_EmptySet, SMT DEF ByteLen

\* Twice the number of pairs is the number of characters, or one more.
LEMMA Paired ==
  ASSUME NEW n \in Nat
  PROVE  LET last == 2 * ((n + 1) \div 2)
         IN  last \in Nat /\ n <= last /\ (last <= n <=> n % 2 = 0)
BY SMT

\* When the number of bytes is even the pairs are never read past their end: the text is
\* all digits, an even number of them, or one of its characters is refused.
LEMMA PairsAreReadOrRefused ==
  ASSUME NEW d \in Seq(Characters), ByteLen(d) % 2 = 0
  PROVE  \/ /\ \A i \in 1 .. Len(d) : d[i] \in DOMAIN HexDigit
            /\ Len(d) % 2 = 0
            /\ DecodedPairs(d) =
                 [bytes |-> [i \in 1 .. Len(d) \div 2 |->
                               (16 * HexDigit[d[(2 * i) - 1]]) + HexDigit[d[2 * i]]]]
         \/ \E i \in 1 .. Len(d) :
              d[i] \notin DOMAIN HexDigit /\ DecodedPairs(d) = InvalidHex(i - 1)
<1> DEFINE n == Len(d)
           last == 2 * ((n + 1) \div 2)
           bad == {p \in 1 .. last : p > n \/ d[p] \notin DOMAIN HexDigit}
<1>1. n \in Nat
  BY SMT
<1> HIDE DEF n
<1>2. last \in Nat /\ n <= last /\ (last <= n <=> n % 2 = 0)
  BY <1>1, Paired, Zenon
<1> HIDE DEF last
<1>3. CASE bad = {}
  <2>1. \A i \in 1 .. n : d[i] \in DOMAIN HexDigit
    BY <1>1, <1>2, <1>3, SMT
  <2>2. last <= n
    <3> SUFFICES ASSUME ~(last <= n)
                 PROVE  FALSE
      BY Zenon
    <3>1. last \in bad
      BY <1>1, <1>2, SMT
    <3> QED
      BY <1>3, <3>1, Zenon
  <2>3. DecodedPairs(d) = [bytes |-> [i \in 1 .. n \div 2 |->
                               (16 * HexDigit[d[(2 * i) - 1]]) + HexDigit[d[2 * i]]]]
    BY <1>3, Zenon DEF DecodedPairs, n, last
  <2> QED
    BY <1>2, <2>1, <2>2, <2>3, Zenon DEF n
<1>4. CASE bad # {}
  <2>1. bad \in SUBSET Nat
    BY <1>1, <1>2, SMT
  <2> HIDE DEF bad
  <2>2. PICK m \in bad : \A y \in bad : m <= y
    BY <1>4, <2>1, LeastNatural, Zenon
  <2>3. bad \in SUBSET Int
    BY <2>1, SMT
  <2>4. Min(bad) = m
    BY <2>2, <2>3, MinIs, Zenon
  <2> USE DEF bad
  <2>5. m \in 1 .. last /\ (m > n \/ d[m] \notin DOMAIN HexDigit)
    BY <2>2, Zenon
  <2>6. m <= n
    <3> SUFFICES ASSUME m > n
                 PROVE  FALSE
      BY <1>1, <1>2, <2>5, SMT
    <3>1. ASSUME NEW i \in 1 .. n
          PROVE  d[i] \in DOMAIN HexDigit
      <4> SUFFICES ASSUME d[i] \notin DOMAIN HexDigit
                   PROVE  FALSE
        BY Zenon
      <4>1. i \in bad
        BY <1>1, <1>2, SMT
      <4> QED
        BY <1>1, <1>2, <2>2, <2>5, <4>1, SMT
    <3>2. ByteLen(d) = n
      BY <3>1, DigitsAreBytes, Zenon DEF n
    <3>3. last <= n
      BY <1>2, <3>2, Zenon
    <3> QED
      BY <1>1, <1>2, <2>5, <3>3, SMT
  <2>7. m \in 1 .. n /\ ~(m > n)
    BY <1>1, <1>2, <2>5, <2>6, SMT
  <2>8. DecodedPairs(d) = InvalidHex(m - 1)
    BY <1>4, <2>4, <2>7, Zenon DEF DecodedPairs, n, last
  <2> QED
    BY <2>5, <2>7, <2>8, Zenon DEF n
<1> QED
  BY <1>3, <1>4, Zenon

\* Every text, whose characters are left when prefix and white space are gone, is read or
\* refused, however long: the digits are never read past their end, although their number
\* is checked in bytes and they are taken as characters, and what is read is one byte for
\* two digits (decode_hex).
THEOREM HexIsRead ==
  \A text : Cleaned(text) \in Seq(Characters) =>
    LET outcome == DecodeHex(text)
    IN  /\ outcome # Panic
        /\ IF IsHex(text)
           THEN Len(outcome.bytes) = Len(Cleaned(text)) \div 2
           ELSE outcome = OddLength
                \/ \E p \in 0 .. Len(Cleaned(text)) - 1 : outcome = InvalidHex(p)
<1> SUFFICES ASSUME NEW text, Cleaned(text) \in Seq(Characters)
             PROVE  LET outcome == DecodeHex(text)
                    IN  /\ outcome # Panic
                        /\ IF IsHex(text)
                           THEN Len(outcome.bytes) = Len(Cleaned(text)) \div 2
                           ELSE outcome = OddLength
                                \/ \E p \in 0 .. Len(Cleaned(text)) - 1 : outcome = InvalidHex(p)
  BY Zenon
<1> DEFINE d == Cleaned(text)
           outcome == DecodeHex(text)
<1>1. d \in Seq(Characters) /\ Len(d) \in Nat /\ DOMAIN d = 1 .. Len(d)
  BY SMT
<1>2. IsHex(text) <=> (\A i \in 1 .. Len(d) : d[i] \in DOMAIN HexDigit) /\ Len(d) % 2 = 0
  BY <1>1, Zenon DEF IsHex
<1>3. outcome = IF ByteLen(d) % 2 # 0 THEN OddLength ELSE DecodedPairs(d)
  BY Zenon DEF DecodeHex
<1> HIDE DEF d, outcome
<1>4. OddLength # Panic /\ \A p : InvalidHex(p) # Panic
  <2>1. /\ OddLength.error = "OddLength" /\ Panic.error = "index out of bounds"
        /\ \A p : InvalidHex(p).error = "InvalidHex"
    BY SMT DEF OddLength, Panic, InvalidHex
  <2>2. "OddLength" # "index out of bounds" /\ "InvalidHex" # "index out of bounds"
    BY SMT
  <2> QED
    BY <2>1, <2>2, Zenon
<1>5. CASE ByteLen(d) % 2 # 0
  <2>1. outcome = OddLength
    BY <1>3, <1>5, Zenon
  <2>2. ~IsHex(text)
    BY <1>1, <1>2, <1>5, DigitsAreBytes, Zenon
  <2> QED
    BY <1>4, <2>1, <2>2, Zenon DEF outcome
<1>6. CASE ByteLen(d) % 2 = 0
  <2>1. outcome = DecodedPairs(d)
    BY <1>3, <1>6, Zenon
  <2>2. CASE /\ \A i \in 1 .. Len(d) : d[i] \in DOMAIN HexDigit
             /\ Len(d) % 2 = 0
             /\ DecodedPairs(d) =
                  [bytes |-> [i \in 1 .. Len(d) \div 2 |->
                                (16 * HexDigit[d[(2 * i) - 1]]) + HexDigit[d[2 * i]]]]
    <3> DEFINE bytes == [i \in 1 .. Len(d) \div 2 |->
                           (16 * HexDigit[d[(2 * i) - 1]]) + HexDigit[d[2 * i]]]
    <3>1. outcome = [bytes |-> bytes]
      BY <2>1, <2>2, Zenon
    <3>2. DOMAIN bytes = 1 .. Len(d) \div 2 /\ Len(d) \div 2 \in Nat
      BY <1>1, SMT
    <3>3. Len(bytes) = Len(d) \div 2
      BY <3>2, SMT
    <3> HIDE DEF bytes
    <3>4. outcome.bytes = bytes
      BY <3>1, SMT
    <3>5. outcome # Panic
      <4>1. DOMAIN outcome = {"bytes"} /\ DOMAIN Panic = {"error"}
        BY <3>1, SMT DEF Panic
      <4>2. "bytes" # "error"
        BY SMT
      <4> QED
        BY <4>1, <4>2, Zenon
    <3> QED
      BY <1>2, <2>2, <3>3, <3>4, <3>5, Zenon DEF outcome, d
  <2>3. CASE \E i \in 1 .. Len(d) :
               d[i] \notin DOMAIN HexDigit /\ DecodedPairs(d) = InvalidHex(i - 1)
    <3>1. PICK i \in 1 .. Len(d) :
                 d[i] \notin DOMAIN HexDigit /\ DecodedPairs(d) = InvalidHex(i - 1)
      BY <2>3, Zenon
    <3>2. i - 1 \in 0 .. Len(d) - 1
      BY <1>1, <3>1, SMT
    <3>3. ~IsHex(text)
      BY <1>2, <3>1, Zenon
    <3> QED
      BY <1>4, <2>1, <3>1, <3>2, <3>3, Zenon DEF outcome, d
  <2> QED
    BY <1>1, <1>6, <2>2, <2>3, PairsAreReadOrRefused, Zenon
<1> QED
  BY <1>5, <1>6, Zenon
=============================================================================
