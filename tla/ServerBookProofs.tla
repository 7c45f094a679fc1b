-------------------------- MODULE ServerBookProofs --------------------------
(***************************************************************************)
(* The counters of the server add up, with any number of sockets and       *)
(* however their loops interleave.                                         *)
(***************************************************************************)
EXTENDS ServerInvariant, FiniteSetTheorems, TLAPS

-----------------------------------------------------------------------------
(* The counters *)

\* A counter that wraps stays within its width.
LEMMA WrappedType ==
  ASSUME NEW n \in Nat
  PROVE  (n + 1) % CounterModulus \in 0 .. CounterModulus - 1
BY ServerAssumption

\* One for an element of a set, and nothing for the others.
Up(n, S) == IF n \in S THEN 1 ELSE 0

\* The two values it has.
LEMMA UpIs ==
  ASSUME NEW n, NEW S
  PROVE  /\ Up(n, S) \in {0, 1}
         /\ n \in S => Up(n, S) = 1
         /\ n \notin S => Up(n, S) = 0
BY Zenon DEF Up

\* A counter after it went up by one or by nothing: it wraps at its width.
Wrapped(n, up) == IF up = 1 THEN (n + 1) % CounterModulus ELSE n

\* The counters in the set went up, the others did not; gauges are of no account.
Increments(names) ==
  /\ DOMAIN metrics' = Counters \cup Gauges
  /\ \A n \in Counters : metrics'[n] = Wrapped(metrics[n], Up(n, names))

\* An increment of some counters is that.
LEMMA CountedIncrements ==
  ASSUME CountersHold, NEW names \in SUBSET Counters, Counted(names)
  PROVE  Increments(names)
<1>1. /\ DOMAIN metrics' = Counters \cup Gauges
      /\ \A n \in Counters :
           metrics'[n] = IF n \in names THEN (metrics[n] + 1) % CounterModulus ELSE metrics[n]
  BY Zenon DEF Counted, CountersHold
<1> QED
  BY <1>1, UpIs DEF Increments, Wrapped

\* So is no increment at all.
LEMMA UncountedIncrements ==
  ASSUME CountersHold, UNCHANGED metrics
  PROVE  Increments({})
BY UpIs DEF CountersHold, Increments, Wrapped

\* Counters stay within their width.
LEMMA IncrementsHold ==
  ASSUME CountersHold, NEW names, Increments(names),
         NEW received, recv_failed' = Wrapped(recv_failed, received),
         NEW kissed, kod_failed' = Wrapped(kod_failed, kissed)
  PROVE  CountersHold'
<1>1. ASSUME NEW n \in 0 .. CounterModulus - 1, NEW up
      PROVE  Wrapped(n, up) \in 0 .. CounterModulus - 1
  BY WrappedType, ServerAssumption DEF Wrapped
<1>2. \A n \in Counters : metrics'[n] \in 0 .. CounterModulus - 1
  BY <1>1, Zenon DEF CountersHold, Increments
<1>3. recv_failed' \in 0 .. CounterModulus - 1 /\ kod_failed' \in 0 .. CounterModulus - 1
  BY <1>1, Zenon DEF CountersHold
<1> QED
  BY <1>2, <1>3, Zenon DEF Increments, CountersHold

-----------------------------------------------------------------------------
(* Sums of counters, up to their width *)

\* A wrap takes the modulus off.
LEMMA WrapsByTheModulus ==
  ASSUME NEW n \in Nat, n < CounterModulus, NEW up \in {0, 1}
  PROVE  \E w \in Int : Wrapped(n, up) = (n + up) - (w * CounterModulus)
<1>1. CounterModulus \in Nat \ {0}
  BY ServerAssumption, Zenon
<1>2. CASE up = 0
  <2>1. Wrapped(n, up) = (n + up) - (0 * CounterModulus)
    BY <1>1, <1>2 DEF Wrapped
  <2> QED
    BY <2>1
<1>3. CASE up = 1 /\ n + 1 < CounterModulus
  <2>1. (n + 1) % CounterModulus = n + 1
    BY <1>1, <1>3
  <2>2. Wrapped(n, up) = (n + up) - (0 * CounterModulus)
    BY <1>1, <1>3, <2>1 DEF Wrapped
  <2> QED
    BY <2>2
<1>4. CASE up = 1 /\ n + 1 = CounterModulus
  <2>1. CounterModulus % CounterModulus = 0
    BY <1>1
  <2>2. Wrapped(n, up) = (n + up) - (1 * CounterModulus)
    BY <1>1, <1>4, <2>1 DEF Wrapped
  <2> QED
    BY <2>2
<1> QED
  BY <1>1, <1>2, <1>3, <1>4

\* Two sums are equal up to the width if their difference is a multiple of it.
LEMMA SameUpToWidth ==
  ASSUME NEW x \in Nat, NEW y \in Nat, Multiple(x - y)
  PROVE  x % CounterModulus = y % CounterModulus
<1> DEFINE M == CounterModulus
<1>1. M \in Nat \ {0}
  BY ServerAssumption, Zenon
<1>2. PICK k \in Int : x - y = k * M
  BY Zenon DEF Multiple
<1> DEFINE p == x \div M
           q == y \div M
           r == x % M
           t == y % M
<1>3. p \in Int /\ q \in Int /\ r \in 0 .. M - 1 /\ t \in 0 .. M - 1
  BY <1>1
<1>4. x = (M * p) + r /\ y = (M * q) + t
  BY <1>1
<1> HIDE DEF M, p, q, r, t
<1> DEFINE e == (k - p) + q
<1>5. r - t = e * M
  BY <1>1, <1>2, <1>3, <1>4
<1>6. e \in Int
  BY <1>2, <1>3
<1> HIDE DEF e
<1>7. e >= 1 => e * M >= M
  BY <1>1, <1>6
<1>8. e <= -1 => e * M <= -M
  BY <1>1, <1>6
<1>9. e = 0
  BY <1>1, <1>3, <1>5, <1>6, <1>7, <1>8
<1>10. r = t
  BY <1>1, <1>3, <1>5, <1>9
<1> QED
  BY <1>10, Zenon DEF r, t, M

\* Sets that differ at most in one element.
LEMMA NearlySameSize ==
  ASSUME NEW S, NEW T, NEW l, IsFiniteSet(S), IsFiniteSet(T), S \ {l} = T \ {l}
  PROVE  /\ Cardinality(S) \in Nat
         /\ Cardinality(T) \in Nat
         /\ Cardinality(T) = (Cardinality(S) + Up(l, T)) - Up(l, S)
<1> DEFINE U == S \ {l}
<1>1. ASSUME NEW V, IsFiniteSet(V), V \ {l} = U
      PROVE  Cardinality(V) \in Nat /\ Cardinality(V) = Cardinality(U) + Up(l, V)
  <2>1. IsFiniteSet(U) /\ Cardinality(U) \in Nat /\ Cardinality(V) \in Nat
    BY <1>1, FS_Subset, FS_CardinalityType, Zenon
  <2>2. CASE l \in V
    <3>1. V = U \cup {l} /\ l \notin U
      BY <1>1, <2>2, Zenon
    <3> QED
      BY <2>1, <2>2, <3>1, FS_AddElement, UpIs, Zenon
  <2>3. CASE l \notin V
    <3>1. V = U
      BY <1>1, <2>3, Zenon
    <3> QED
      BY <2>1, <2>3, <3>1, UpIs
  <2> QED
    BY <2>2, <2>3, Zenon
<1>2. Cardinality(S) \in Nat /\ Cardinality(S) = Cardinality(U) + Up(l, S)
  BY <1>1, Zenon
<1>3. Cardinality(T) \in Nat /\ Cardinality(T) = Cardinality(U) + Up(l, T)
  BY <1>1, Zenon
<1>4. Cardinality(U) \in Nat
  BY FS_Subset, FS_CardinalityType, Zenon
<1> QED
  BY <1>2, <1>3, <1>4, UpIs

\* A step of loop l that counts the names keeps both.
AnswersBalance(l, names, received) ==
  Up("requests_total", names) + received =
    ((((Up("responses_total", names) + Up("packets_dropped_total", names))
       + Up("socket_errors_total", names)) + Up(l, InFlight')) - Up(l, InFlight))
CausesBalance(l, names, received, kissed) ==
  ((Up("requests_total", names) + received)
   + kissed) + Up("kod_sent_total", names) =
    ((((((((Up("responses_total", names) + Up("socket_errors_total", names))
            + Up("malformed_packets_total", names)) + Up("access_denied_total", names))
          + Up("rate_limited_total", names)) + Up("unsupported_version_total", names))
        + Up("unsupported_mode_total", names)) + Up("clock_errors_total", names))
      + Up(l, Undecided')) - Up(l, Undecided)

Turn(l, names, received, kissed) ==
  /\ received \in {0, 1} /\ kissed \in {0, 1}
  /\ Increments(names)
  /\ recv_failed' = Wrapped(recv_failed, received)
  /\ kod_failed' = Wrapped(kod_failed, kissed)
  /\ InFlight' \ {l} = InFlight \ {l}
  /\ Undecided' \ {l} = Undecided \ {l}
  /\ AnswersBalance(l, names, received)
  /\ CausesBalance(l, names, received, kissed)

\* The loops in the sums are finitely many.
LEMMA FiniteHands ==
  /\ IsFiniteSet(InFlight) /\ IsFiniteSet(Undecided)
  /\ IsFiniteSet(InFlight') /\ IsFiniteSet(Undecided')
BY ServerAssumption, FS_Subset, Zenon DEF InFlight, Undecided

\* Sums of multiples of the width are multiples of it.
LEMMA SumsOfMultiples ==
  ASSUME NEW x \in Int, NEW y \in Int, Multiple(x), Multiple(y)
  PROVE  Multiple(x + y) /\ Multiple(x - y)
<1>1. CounterModulus \in Int
  BY ServerAssumption
<1>2. PICK j \in Int : x = j * CounterModulus
  BY Zenon DEF Multiple
<1>3. PICK k \in Int : y = k * CounterModulus
  BY Zenon DEF Multiple
<1>4. x + y = (j + k) * CounterModulus /\ x - y = (j - k) * CounterModulus
  BY <1>1, <1>2, <1>3
<1> QED
  BY <1>4 DEF Multiple

\* What a counter holds after a turn beyond what it should.
Excess(n, names) == metrics'[n] - (metrics[n] + Up(n, names))

\* A counter of a turn is in excess by a multiple of its width.
LEMMA ExcessOfATurn ==
  ASSUME CountersHold, NEW names, Increments(names), NEW n \in Counters
  PROVE  /\ metrics[n] \in Int /\ metrics'[n] \in Int
         /\ Excess(n, names) \in Int
         /\ Multiple(Excess(n, names))
<1>1. metrics[n] \in Nat /\ metrics[n] < CounterModulus
  BY ServerAssumption DEF CountersHold
<1>2. metrics'[n] = Wrapped(metrics[n], Up(n, names))
  BY Zenon DEF Increments
<1>3. PICK w \in Int : metrics'[n] = (metrics[n] + Up(n, names)) - (w * CounterModulus)
  BY <1>1, <1>2, UpIs, WrapsByTheModulus
<1>4. Up(n, names) \in Int /\ w * CounterModulus \in Int
  BY ServerAssumption, UpIs
<1>5. metrics'[n] \in Int
  BY <1>1, <1>3, <1>4
<1>6. PICK k \in Int : k = -w
  OBVIOUS
<1>7. Excess(n, names) = k * CounterModulus
  BY <1>1, <1>3, <1>4, <1>6, ServerAssumption DEF Excess
<1> QED
  BY <1>1, <1>4, <1>5, <1>7 DEF Excess, Multiple

\* The same of the two counts of failures.
LEMMA ExcessOfAFailure ==
  ASSUME NEW old \in 0 .. CounterModulus - 1, NEW new, NEW up \in {0, 1}, new = Wrapped(old, up)
  PROVE  /\ old \in Int /\ new \in Int
         /\ Multiple(new - (old + up))
<1>1. old \in Nat /\ old < CounterModulus /\ CounterModulus \in Nat
  BY ServerAssumption
<1>2. PICK w \in Int : new = (old + up) - (w * CounterModulus)
  BY <1>1, WrapsByTheModulus, Zenon
<1>3. up \in Int
  OBVIOUS
<1>4. new \in Int
  BY <1>1, <1>2, <1>3
<1>5. PICK k \in Int : k = -w
  OBVIOUS
<1>6. new - (old + up) = k * CounterModulus
  BY <1>1, <1>2, <1>3, <1>5
<1>7. Multiple(new - (old + up))
  BY <1>6, Zenon DEF Multiple
<1> QED
  BY <1>1, <1>4, <1>7

\* A turn keeps the first book.
LEMMA TurnKeepsAnswers ==
  ASSUME CountersHold, AnswersBook, NEW l \in Loops, NEW names, NEW received, NEW kissed,
         Turn(l, names, received, kissed)
  PROVE  AnswersBook'
<1> DEFINE a1 == metrics.requests_total
           b1 == metrics.responses_total
           b2 == metrics.packets_dropped_total
           b3 == metrics.socket_errors_total
           c == Cardinality(InFlight)
           u1 == Up("requests_total", names)
           u2 == received
           v1 == Up("responses_total", names)
           v2 == Up("packets_dropped_total", names)
           v3 == Up("socket_errors_total", names)
           before == Up(l, InFlight)
           after == Up(l, InFlight')
           e1 == a1' - (a1 + u1)
           e2 == recv_failed' - (recv_failed + u2)
           f1 == b1' - (b1 + v1)
           f2 == b2' - (b2 + v2)
           f3 == b3' - (b3 + v3)
           old == (a1 + recv_failed) - (((b1 + b2) + b3) + c)
           new == (a1' + recv_failed') - (((b1' + b2') + b3') + c')
<1>1. ASSUME NEW n \in Counters
      PROVE  /\ metrics[n] \in Int /\ metrics'[n] \in Int
             /\ Multiple(metrics'[n] - (metrics[n] + Up(n, names)))
  BY ExcessOfATurn, Zenon DEF Turn, Excess
<1>2. /\ a1 \in Int /\ a1' \in Int /\ Multiple(e1)
      /\ b1 \in Int /\ b1' \in Int /\ Multiple(f1)
      /\ b2 \in Int /\ b2' \in Int /\ Multiple(f2)
      /\ b3 \in Int /\ b3' \in Int /\ Multiple(f3)
  BY <1>1, Zenon DEF Counters
<1>3. /\ recv_failed \in Int /\ recv_failed' \in Int
      /\ Multiple(e2)
  BY ExcessOfAFailure, Zenon DEF Turn, CountersHold
<1>4. c \in Int /\ c' \in Int /\ c' = (c + after) - before
  BY FiniteHands, NearlySameSize DEF Turn
<1>5. u1 + u2 = (((v1 + v2) + v3) + after) - before
  BY Zenon DEF Turn, AnswersBalance
<1>6. /\ u1 \in Int /\ u2 \in Int /\ v1 \in Int /\ v2 \in Int /\ v3 \in Int
      /\ before \in Int /\ after \in Int
  BY UpIs DEF Turn
<1>7. Multiple(old)
  BY Zenon DEF AnswersBook
<1> HIDE DEF a1, b1, b2, b3, c, u1, u2, v1, v2, v3, before, after
<1>8. /\ e1 \in Int /\ e2 \in Int /\ f1 \in Int /\ f2 \in Int /\ f3 \in Int
      /\ old \in Int /\ new = old + ((e1 + e2) - ((f1 + f2) + f3))
  BY <1>2, <1>3, <1>4, <1>5, <1>6
<1> HIDE DEF e1, e2, f1, f2, f3, old, new
<1>9. PICK gain \in Int : gain = e1 + e2 /\ Multiple(gain)
  BY <1>2, <1>3, <1>8, SumsOfMultiples
<1>10. PICK spent \in Int : spent = (f1 + f2) + f3 /\ Multiple(spent)
  <2>1. f1 + f2 \in Int /\ Multiple(f1 + f2)
    BY <1>2, <1>8, SumsOfMultiples
  <2> QED
    BY <1>2, <1>8, <2>1, SumsOfMultiples
<1>11. Multiple(gain) /\ Multiple(spent)
  BY <1>9, <1>10, Zenon
<1>12. PICK net \in Int : net = gain - spent /\ Multiple(net)
  BY <1>11, SumsOfMultiples
<1>13. new = old + net /\ Multiple(net)
  BY <1>8, <1>9, <1>10, <1>12, Zenon
<1>14. Multiple(new)
  BY <1>7, <1>8, <1>13, SumsOfMultiples, Zenon
<1> QED
  BY <1>14, Zenon DEF AnswersBook, Multiple, new, a1, b1, b2, b3, c

\* A turn keeps the second book.
LEMMA TurnKeepsCauses ==
  ASSUME CountersHold, CausesBook, NEW l \in Loops, NEW names, NEW received, NEW kissed,
         Turn(l, names, received, kissed)
  PROVE  CausesBook'
<1> DEFINE a1 == metrics.requests_total
           a2 == metrics.kod_sent_total
           b1 == metrics.responses_total
           b2 == metrics.socket_errors_total
           b3 == metrics.malformed_packets_total
           b4 == metrics.access_denied_total
           b5 == metrics.rate_limited_total
           b6 == metrics.unsupported_version_total
           b7 == metrics.unsupported_mode_total
           b8 == metrics.clock_errors_total
           c == Cardinality(Undecided)
           u1 == Up("requests_total", names)
           u2 == Up("kod_sent_total", names)
           u3 == received
           u4 == kissed
           v1 == Up("responses_total", names)
           v2 == Up("socket_errors_total", names)
           v3 == Up("malformed_packets_total", names)
           v4 == Up("access_denied_total", names)
           v5 == Up("rate_limited_total", names)
           v6 == Up("unsupported_version_total", names)
           v7 == Up("unsupported_mode_total", names)
           v8 == Up("clock_errors_total", names)
           before == Up(l, Undecided)
           after == Up(l, Undecided')
           e1 == a1' - (a1 + u1)
           e2 == a2' - (a2 + u2)
           e3 == recv_failed' - (recv_failed + u3)
           e4 == kod_failed' - (kod_failed + u4)
           f1 == b1' - (b1 + v1)
           f2 == b2' - (b2 + v2)
           f3 == b3' - (b3 + v3)
           f4 == b4' - (b4 + v4)
           f5 == b5' - (b5 + v5)
           f6 == b6' - (b6 + v6)
           f7 == b7' - (b7 + v7)
           f8 == b8' - (b8 + v8)
           old == ((a1 + recv_failed) + (kod_failed + a2))
                  - ((((((((b1 + b2) + b3) + b4) + b5) + b6) + b7) + b8) + c)
           new == ((a1' + recv_failed') + (kod_failed' + a2'))
                  - ((((((((b1' + b2') + b3') + b4') + b5') + b6') + b7') + b8') + c')
<1>1. ASSUME NEW n \in Counters
      PROVE  /\ metrics[n] \in Int /\ metrics'[n] \in Int
             /\ Multiple(metrics'[n] - (metrics[n] + Up(n, names)))
  BY ExcessOfATurn, Zenon DEF Turn, Excess
<1>2. /\ a1 \in Int /\ a1' \in Int /\ Multiple(e1)
      /\ a2 \in Int /\ a2' \in Int /\ Multiple(e2)
      /\ b1 \in Int /\ b1' \in Int /\ Multiple(f1)
      /\ b2 \in Int /\ b2' \in Int /\ Multiple(f2)
      /\ b3 \in Int /\ b3' \in Int /\ Multiple(f3)
      /\ b4 \in Int /\ b4' \in Int /\ Multiple(f4)
      /\ b5 \in Int /\ b5' \in Int /\ Multiple(f5)
      /\ b6 \in Int /\ b6' \in Int /\ Multiple(f6)
      /\ b7 \in Int /\ b7' \in Int /\ Multiple(f7)
      /\ b8 \in Int /\ b8' \in Int /\ Multiple(f8)
  BY <1>1, Zenon DEF Counters
<1>3. recv_failed \in Int /\ recv_failed' \in Int /\ Multiple(e3)
  BY ExcessOfAFailure, Zenon DEF Turn, CountersHold
<1>4. kod_failed \in Int /\ kod_failed' \in Int /\ Multiple(e4)
  BY ExcessOfAFailure, Zenon DEF Turn, CountersHold
<1>5. c \in Int /\ c' \in Int /\ c' = (c + after) - before
  BY FiniteHands, NearlySameSize DEF Turn
<1>6. ((u1 + u3) + u4) + u2 =
        ((((((((v1 + v2) + v3) + v4) + v5) + v6) + v7) + v8) + after) - before
  BY Zenon DEF Turn, CausesBalance
<1>7. /\ u1 \in Int /\ u2 \in Int /\ u3 \in Int /\ u4 \in Int
      /\ v1 \in Int /\ v2 \in Int /\ v3 \in Int /\ v4 \in Int
      /\ v5 \in Int /\ v6 \in Int /\ v7 \in Int /\ v8 \in Int
      /\ before \in Int /\ after \in Int
  BY UpIs DEF Turn
<1>8. Multiple(old)
  BY Zenon DEF CausesBook
<1> HIDE DEF a1, a2, b1, b2, b3, b4, b5, b6, b7, b8, c, u1, u2, u3, u4,
             v1, v2, v3, v4, v5, v6, v7, v8, before, after
<1>9. /\ e1 \in Int /\ e2 \in Int /\ e3 \in Int /\ e4 \in Int
      /\ f1 \in Int /\ f2 \in Int /\ f3 \in Int /\ f4 \in Int
      /\ f5 \in Int /\ f6 \in Int /\ f7 \in Int /\ f8 \in Int
      /\ old \in Int
  BY <1>2, <1>3, <1>4, <1>5, <1>7
<1>10. new = old + (((e1 + e2) + (e3 + e4))
                    - (((f1 + f2) + (f3 + f4)) + ((f5 + f6) + (f7 + f8))))
  BY <1>2, <1>3, <1>4, <1>5, <1>6, <1>7
<1> HIDE DEF e1, e2, e3, e4, f1, f2, f3, f4, f5, f6, f7, f8, old, new
<1>11. ASSUME NEW x1 \in Int, NEW x2 \in Int, NEW x3 \in Int, NEW x4 \in Int,
              Multiple(x1), Multiple(x2), Multiple(x3), Multiple(x4)
       PROVE  \E x \in Int : x = (x1 + x2) + (x3 + x4) /\ Multiple(x)
  <2>1. PICK y \in Int : y = x1 + x2 /\ Multiple(y)
    BY <1>11, SumsOfMultiples
  <2>2. PICK z \in Int : z = x3 + x4 /\ Multiple(z)
    BY <1>11, SumsOfMultiples
  <2>3. Multiple(y + z)
    BY <2>1, <2>2, SumsOfMultiples, Zenon
  <2> QED
    BY <2>1, <2>2, <2>3
<1>12. PICK gain \in Int : gain = (e1 + e2) + (e3 + e4) /\ Multiple(gain)
  <2>1. Multiple(e1) /\ Multiple(e2) /\ Multiple(e3) /\ Multiple(e4)
    BY <1>2, <1>3, <1>4, Zenon
  <2>2. e1 \in Int /\ e2 \in Int /\ e3 \in Int /\ e4 \in Int
    BY <1>9, Zenon
  <2> QED
    BY <1>11, <2>1, <2>2
<1>13. PICK half \in Int : half = (f1 + f2) + (f3 + f4) /\ Multiple(half)
  BY <1>2, <1>9, <1>11
<1>14. PICK rest \in Int : rest = (f5 + f6) + (f7 + f8) /\ Multiple(rest)
  BY <1>2, <1>9, <1>11
<1>15. Multiple(gain) /\ Multiple(half) /\ Multiple(rest)
  BY <1>12, <1>13, <1>14, Zenon
<1>16. PICK spent \in Int : spent = half + rest /\ Multiple(spent)
  BY <1>15, SumsOfMultiples
<1>17. Multiple(spent)
  BY <1>16, Zenon
<1>18. PICK net \in Int : net = gain - spent /\ Multiple(net)
  BY <1>15, <1>17, SumsOfMultiples
<1>19. new = old + net /\ Multiple(net)
  BY <1>9, <1>10, <1>12, <1>13, <1>14, <1>16, <1>18, Zenon
<1>20. Multiple(new)
  BY <1>8, <1>9, <1>19, SumsOfMultiples, Zenon
<1> QED
  BY <1>20, Zenon DEF CausesBook, Multiple, new, a1, a2, b1, b2, b3, b4, b5, b6, b7, b8, c

\* Hands of the loop that moves: whether it holds a datagram, and one not yet refused.
Hands(l, flew, flies, undecided, decides) ==
  /\ InFlight' \ {l} = InFlight \ {l}
  /\ Undecided' \ {l} = Undecided \ {l}
  /\ l \in InFlight <=> flew
  /\ l \in InFlight' <=> flies
  /\ l \in Undecided <=> undecided
  /\ l \in Undecided' <=> decides

\* They are seen from its record before and after.
LEMMA HandsOfOneLoop ==
  ASSUME LoopsHold, NEW l \in Loops, NEW v, loop' = [loop EXCEPT ![l] = v]
  PROVE  /\ InFlight' \ {l} = InFlight \ {l}
         /\ Undecided' \ {l} = Undecided \ {l}
         /\ l \in InFlight <=> loop[l].at \notin {"select", "stopped"}
         /\ l \in InFlight' <=> v.at \notin {"select", "stopped"}
         /\ l \in Undecided <=>
              /\ loop[l].at \notin {"select", "stopped", "kiss"}
              /\ ~(loop[l].at = "send" /\ loop[l].reply.stratum = KISS_OF_DEATH)
         /\ l \in Undecided' <=>
              /\ v.at \notin {"select", "stopped", "kiss"}
              /\ ~(v.at = "send" /\ v.reply.stratum = KISS_OF_DEATH)
<1>1. \A m \in Loops : loop'[m] = IF m = l THEN v ELSE loop[m]
  BY Zenon DEF LoopsHold
<1> QED
  BY <1>1, Zenon DEF InFlight, Undecided, IsKiss

\* A datagram that is no request has one reason, and one counter.
LEMMA OneRejectionCounter ==
  ASSUME NEW data, ~IsRequest(data)
  PROVE  RejectionCounter(data) \in {"malformed_packets_total", "unsupported_version_total",
                                     "unsupported_mode_total"}
<1>1. CASE ~Parses(data)
  BY <1>1, Zenon DEF RejectionCounter
<1>2. CASE Parses(data)
  <2>1. Rejection(data) \in {"UnsupportedVersion", "UnsupportedMode", "TrailingData",
                             "ZeroTransmitTimestamp"}
    BY <1>2, Zenon DEF IsRequest, Rejection
  <2>2. CASE Rejection(data) = "UnsupportedVersion"
    BY <1>2, <2>2, Zenon DEF RejectionCounter
  <2>3. CASE Rejection(data) = "UnsupportedMode"
    BY <1>2, <2>3, Zenon DEF RejectionCounter
  <2>4. CASE Rejection(data) \in {"TrailingData", "ZeroTransmitTimestamp"}
    BY <1>2, <2>4, Zenon DEF RejectionCounter
  <2> QED
    BY <2>1, <2>2, <2>3, <2>4, Zenon
<1> QED
  BY <1>1, <1>2, Zenon

\* What the sums see of the place of a loop.
LEMMA HandsInPlaces ==
  ASSUME LoopsHold, NEW l \in Loops
  PROVE  /\ loop[l].at = "select" => loop[l] = Waiting
         /\ loop[l].at \in {"received", "limiter", "parse"} => loop[l] \in InHand
         /\ loop[l].at = "stamp" => Built(loop[l])
<1>1. Holds(loop[l])
  BY Zenon DEF LoopsHold
<1>2. ASSUME NEW r, Holds(r)
      PROVE  /\ r.at = "select" => r = Waiting
             /\ r.at \in {"received", "limiter", "parse"} => r \in InHand
             /\ r.at = "stamp" => Built(r)
  BY <1>2 DEF Holds, Waiting, Stopped, Asked, InHand, Kissing, Informed, Built, Ready
<1> QED
  BY <1>1, <1>2, Zenon

\* An answer that was built is no kiss.
LEMMA BuiltIsNoKiss ==
  ASSUME NEW r, Built(r), NEW transmit
  PROVE  Finalize(r.reply, transmit).stratum # KISS_OF_DEATH
<1>1. PICK trusted \in BOOLEAN, ref \in NtpTimestamp :
        r.reply = BuildResponse(Parsed(r.data), trusted, ref, r.receive)
  BY Zenon DEF Built
<1>2. \A request, received :
        Finalize(BuildResponse(request, trusted, ref, received), transmit).stratum # KISS_OF_DEATH
  BY PacketAssumption DEF Finalize, BuildResponse, KISS_OF_DEATH, UNSYNCHRONISED
<1> QED
  BY <1>1, <1>2, Zenon

\* A Kiss-o'-Death is one.
LEMMA KissIsKiss ==
  ASSUME NEW request, NEW code, NEW received, NEW transmit, NEW reply,
         reply = Finalize(BuildKissOfDeath(request, code, received), transmit)
  PROVE  reply.stratum = KISS_OF_DEATH
BY Zenon DEF Finalize, BuildKissOfDeath

\* A step of a loop is a turn if its hands and its counters balance.
LEMMA TurnOfHands ==
  ASSUME NEW l, NEW names, NEW received \in {0, 1}, NEW kissed \in {0, 1},
         NEW flew, NEW flies, NEW undecided, NEW decides,
         Hands(l, flew, flies, undecided, decides), Increments(names),
         recv_failed' = Wrapped(recv_failed, received),
         kod_failed' = Wrapped(kod_failed, kissed),
         AnswersBalance(l, names, received), CausesBalance(l, names, received, kissed)
  PROVE  Turn(l, names, received, kissed)
BY Zenon DEF Hands, Turn

\* The counters that a step of a loop increments.
LEMMA NamesOfTurns ==
  /\ {} \in SUBSET Counters
  /\ \A n \in {"requests_total", "responses_total", "socket_errors_total",
               "packets_dropped_total", "rate_limited_total", "access_denied_total"} :
       {n} \in SUBSET Counters
  /\ \A n \in {"malformed_packets_total", "unsupported_version_total",
               "unsupported_mode_total", "rate_limited_total", "access_denied_total",
               "clock_errors_total"} :
       {n, "packets_dropped_total"} \in SUBSET Counters
  /\ {"clock_errors_total", "requests_total", "packets_dropped_total"} \in SUBSET Counters
  /\ {"responses_total", "kod_sent_total"} \in SUBSET Counters
BY Zenon DEF Counters

\* The counters a step of a loop increments fit what becomes of its datagram, on every
\* path through handle_datagram and send_kod.
LEMMA LoopTurns ==
  ASSUME CountersHold, LoopsHold, NEW l \in Loops, ReceiveSomething(l) \/ LoopStep(l)
  PROVE  \E names, received, kissed : Turn(l, names, received, kissed)
<1> DEFINE quiet == /\ recv_failed' = Wrapped(recv_failed, 0)
                    /\ kod_failed' = Wrapped(kod_failed, 0)
<1>1. ASSUME NEW names \in SUBSET Counters, Counted(names)
      PROVE  Increments(names)
  BY <1>1, CountedIncrements, Zenon
<1>2. ASSUME UNCHANGED <<recv_failed, kod_failed>>
      PROVE  quiet
  BY <1>2 DEF Wrapped
<1> HIDE DEF quiet
<1>3. ASSUME NEW from, Finishes(l, from),
             \/ from \in {"received", "limiter", "parse", "stamp"}
             \/ from = "send" /\ ~IsKiss(l)
      PROVE  Hands(l, TRUE, FALSE, TRUE, FALSE)
  <2>1. loop' = [loop EXCEPT ![l] = Waiting] /\ loop[l].at = from
    BY <1>3, Zenon DEF Finishes
  <2>2. Waiting.at = "select"
    BY Zenon DEF Waiting
  <2> QED
    BY <1>3, <2>1, <2>2, HandsOfOneLoop, Zenon DEF Hands, IsKiss
<1>4. ASSUME NEW from, Finishes(l, from),
             \/ from = "kiss"
             \/ from = "send" /\ IsKiss(l)
      PROVE  Hands(l, TRUE, FALSE, FALSE, FALSE)
  <2>1. loop' = [loop EXCEPT ![l] = Waiting] /\ loop[l].at = from
    BY <1>4, Zenon DEF Finishes
  <2>2. Waiting.at = "select"
    BY Zenon DEF Waiting
  <2> QED
    BY <1>4, <2>1, <2>2, HandsOfOneLoop, Zenon DEF Hands, IsKiss
<1>5. ASSUME NEW from \in {"received", "limiter"}, NEW code, Kisses(l, from, code)
      PROVE  Hands(l, TRUE, TRUE, TRUE, FALSE)
  <2> DEFINE v == [at |-> "kiss", source |-> loop[l].source, data |-> loop[l].data,
                   receive |-> loop[l].receive, alarm |-> loop[l].alarm, code |-> code]
  <2>1. loop' = [loop EXCEPT ![l] = v] /\ loop[l].at = from /\ v.at = "kiss"
    BY <1>5, Zenon DEF Kisses
  <2> HIDE DEF v
  <2> QED
    BY <2>1, HandsOfOneLoop, Zenon DEF Hands
\* What is counted for a datagram that a loop is done with, and did not refuse before.
<1>6. ASSUME Hands(l, TRUE, FALSE, TRUE, FALSE), quiet,
             NEW cause \in {"malformed_packets_total", "unsupported_version_total",
                            "unsupported_mode_total", "rate_limited_total",
                            "access_denied_total", "clock_errors_total"},
             Counted({cause, "packets_dropped_total"})
      PROVE  Turn(l, {cause, "packets_dropped_total"}, 0, 0)
  <2>1. Increments({cause, "packets_dropped_total"})
    BY <1>1, <1>6, NamesOfTurns, Zenon
  <2>2. AnswersBalance(l, {cause, "packets_dropped_total"}, 0)
    BY <1>6, UpIs DEF Hands, AnswersBalance
  <2>3. CausesBalance(l, {cause, "packets_dropped_total"}, 0, 0)
    BY <1>6, UpIs DEF Hands, CausesBalance
  <2> QED
    BY <1>6, <2>1, <2>2, <2>3, TurnOfHands, Zenon DEF quiet
\* What is counted for a datagram that will get a kiss.
<1>7. ASSUME Hands(l, TRUE, TRUE, TRUE, FALSE), quiet,
             NEW cause \in {"rate_limited_total", "access_denied_total"}, Counted({cause})
      PROVE  Turn(l, {cause}, 0, 0)
  <2>1. Increments({cause})
    BY <1>1, <1>7, NamesOfTurns, Zenon
  <2>2. AnswersBalance(l, {cause}, 0)
    BY <1>7, UpIs DEF Hands, AnswersBalance
  <2>3. CausesBalance(l, {cause}, 0, 0)
    BY <1>7, UpIs DEF Hands, CausesBalance
  <2> QED
    BY <1>7, <2>1, <2>2, <2>3, TurnOfHands, Zenon DEF quiet
\* A loop whose datagram stays where the sums see it counts nothing.
<1>8. ASSUME NEW flies \in BOOLEAN, NEW decides \in BOOLEAN,
             Hands(l, flies, flies, decides, decides), UNCHANGED metrics, quiet
      PROVE  Turn(l, {}, 0, 0)
  <2>1. Increments({})
    BY <1>8, UncountedIncrements, Zenon
  <2>2. Up(l, InFlight) = Up(l, InFlight') /\ Up(l, Undecided) = Up(l, Undecided')
    BY <1>8, Zenon DEF Hands, Up
  <2>3. Up(l, InFlight) \in {0, 1} /\ Up(l, Undecided) \in {0, 1}
    BY UpIs, Zenon
  <2>4. AnswersBalance(l, {}, 0)
    BY <2>2, <2>3, UpIs DEF AnswersBalance
  <2>5. CausesBalance(l, {}, 0, 0)
    BY <2>2, <2>3, UpIs DEF CausesBalance
  <2> QED
    BY <1>8, <2>1, <2>4, <2>5, TurnOfHands, Zenon DEF quiet
\* So does one that goes on with it.
<1>9. ASSUME NEW v, loop' = [loop EXCEPT ![l] = v], UNCHANGED metrics, quiet,
             loop[l].at \in {"received", "limiter", "parse", "status", "stamp"},
             \/ v.at \in {"received", "limiter", "parse", "status", "stamp"}
             \/ v.at = "send" /\ v.reply.stratum # KISS_OF_DEATH
      PROVE  Turn(l, {}, 0, 0)
  <2>1. Hands(l, TRUE, TRUE, TRUE, TRUE)
    BY <1>9, HandsOfOneLoop, Zenon DEF Hands
  <2> QED
    BY <1>8, <1>9, <2>1, Zenon
<1>10. ASSUME NEW from \in {"received", "limiter"}, NEW to \in {"limiter", "parse"},
              Goes(l, from, to), UNCHANGED metrics, quiet
       PROVE  Turn(l, {}, 0, 0)
  <2> DEFINE v == [loop[l] EXCEPT !.at = to]
  <2>1. loop[l] \in InHand
    BY <1>10, HandsInPlaces, Zenon DEF Goes
  <2>2. v.at = to
    BY <2>1, Zenon DEF InHand
  <2>3. loop' = [loop EXCEPT ![l] = v] /\ loop[l].at = from
    BY <1>10, Zenon DEF Goes
  <2> HIDE DEF v
  <2> QED
    BY <1>9, <1>10, <2>2, <2>3, Zenon
<1>11. ASSUME NEW d \in Datagrams, NEW c \in Clients, Receive(l, d, c)
       PROVE  Turn(l, {"requests_total"}, 0, 0)
  <2> DEFINE v == [at |-> "received", source |-> c, data |-> Truncated(d),
                   receive |-> ReadClock, alarm |-> ~synchronised]
  <2>1. loop' = [loop EXCEPT ![l] = v] /\ loop[l].at = "select" /\ v.at = "received"
    BY <1>11, Zenon DEF Receive, Selects
  <2>2. Counted({"requests_total"}) /\ quiet
    BY <1>2, <1>11, Zenon DEF Receive, OnlyServes
  <2> HIDE DEF v
  <2>3. Hands(l, FALSE, TRUE, FALSE, TRUE)
    BY <2>1, HandsOfOneLoop, Zenon DEF Hands
  <2>4. Increments({"requests_total"})
    BY <1>1, <2>2, NamesOfTurns, Zenon
  <2>5. AnswersBalance(l, {"requests_total"}, 0)
    BY <2>3, UpIs DEF Hands, AnswersBalance
  <2>6. CausesBalance(l, {"requests_total"}, 0, 0)
    BY <2>3, UpIs DEF Hands, CausesBalance
  <2> QED
    BY <2>2, <2>3, <2>4, <2>5, <2>6, TurnOfHands, Zenon DEF quiet
\* A loop that fails to receive keeps waiting.
<1>12. ASSUME UNCHANGED loop, Selects(l)
       PROVE  Hands(l, FALSE, FALSE, FALSE, FALSE)
  <2>1. InFlight' = InFlight /\ Undecided' = Undecided
    BY <1>12, Zenon DEF InFlight, Undecided, IsKiss
  <2>2. l \notin InFlight /\ l \notin Undecided
    BY <1>12, Zenon DEF InFlight, Undecided, Selects
  <2> QED
    BY <2>1, <2>2, Zenon DEF Hands
<1>13. CASE ReceiveWithoutClock(l)
  <2> DEFINE names == {"clock_errors_total", "requests_total", "packets_dropped_total"}
  <2>1. Counted(names) /\ quiet /\ Hands(l, FALSE, FALSE, FALSE, FALSE)
    BY <1>2, <1>12, <1>13, Zenon DEF ReceiveWithoutClock, OnlyServes
  <2>2. Increments(names)
    BY <1>1, <2>1, NamesOfTurns, Zenon
  <2>3. AnswersBalance(l, names, 0)
    BY <2>1, UpIs DEF Hands, AnswersBalance
  <2>4. CausesBalance(l, names, 0, 0)
    BY <2>1, UpIs DEF Hands, CausesBalance
  <2>5. Turn(l, names, 0, 0)
    <3> HIDE DEF names
    <3> QED
      BY <2>1, <2>2, <2>3, <2>4, TurnOfHands, Zenon DEF quiet
  <2> QED
    BY <2>5, Zenon
<1>14. CASE ReceiveFails(l)
  <2> DEFINE names == {"socket_errors_total"}
  <2>1. /\ Counted(names) /\ Hands(l, FALSE, FALSE, FALSE, FALSE)
        /\ recv_failed' = (recv_failed + 1) % CounterModulus /\ kod_failed' = kod_failed
    BY <1>12, <1>14, Zenon DEF ReceiveFails
  <2>2. /\ recv_failed' = Wrapped(recv_failed, 1)
        /\ kod_failed' = Wrapped(kod_failed, 0)
    BY <2>1 DEF Wrapped
  <2>3. Increments(names)
    BY <1>1, <2>1, NamesOfTurns, Zenon
  <2>4. AnswersBalance(l, names, 1)
    BY <2>1, UpIs DEF Hands, AnswersBalance
  <2>5. CausesBalance(l, names, 1, 0)
    BY <2>1, UpIs DEF Hands, CausesBalance
  <2>6. Turn(l, names, 1, 0)
    <3> HIDE DEF names
    <3> QED
      BY <2>1, <2>2, <2>3, <2>4, <2>5, TurnOfHands, Zenon
  <2> QED
    BY <2>6, Zenon
<1>15. CASE DropOversized(l)
  <2>1. /\ Finishes(l, "received") /\ quiet
        /\ Counted({"malformed_packets_total", "packets_dropped_total"})
    BY <1>2, <1>15, Zenon DEF DropOversized, OnlyServes
  <2> QED
    BY <1>3, <1>6, <2>1, Zenon
<1>16. CASE Deny(l)
  <2>1. quiet
    BY <1>2, <1>16, Zenon DEF Deny, OnlyServes
  <2>2. CASE Finishes(l, "received") /\ Counted({"access_denied_total", "packets_dropped_total"})
    BY <1>3, <1>6, <2>1, <2>2, Zenon
  <2>3. CASE \E code : Kisses(l, "received", code) /\ Counted({"access_denied_total"})
    BY <1>5, <1>7, <2>1, <2>3, Zenon
  <2> QED
    BY <1>16, <2>2, <2>3, Zenon DEF Deny
<1>17. CASE AskLimiter(l)
  <2>1. Goes(l, "received", "limiter") /\ UNCHANGED metrics /\ quiet
    BY <1>2, <1>17, Zenon DEF AskLimiter
  <2> QED
    BY <1>10, <2>1, Zenon
<1>18. CASE LimiterAllows(l)
  <2>1. Goes(l, "limiter", "parse") /\ UNCHANGED metrics /\ quiet
    BY <1>2, <1>18, Zenon DEF LimiterAllows, LimiterLeft
  <2> QED
    BY <1>10, <2>1, Zenon
<1>19. CASE LimiterLimits(l)
  <2>1. quiet
    BY <1>2, <1>19, Zenon DEF LimiterLimits, LimiterLeft
  <2>2. CASE Finishes(l, "limiter") /\ Counted({"rate_limited_total", "packets_dropped_total"})
    BY <1>3, <1>6, <2>1, <2>2, Zenon
  <2>3. CASE \E code : Kisses(l, "limiter", code) /\ Counted({"rate_limited_total"})
    BY <1>5, <1>7, <2>1, <2>3, Zenon
  <2> QED
    BY <1>19, <2>2, <2>3, Zenon DEF LimiterLimits
<1>20. CASE LimiterOverloaded(l)
  <2>1. /\ Finishes(l, "limiter") /\ quiet
        /\ Counted({"rate_limited_total", "packets_dropped_total"})
    BY <1>2, <1>20, Zenon DEF LimiterOverloaded, LimiterLeft
  <2> QED
    BY <1>3, <1>6, <2>1, Zenon
<1>21. CASE Reject(l)
  <2>1. RejectionCounter(loop[l].data) \in {"malformed_packets_total",
          "unsupported_version_total", "unsupported_mode_total"}
    BY <1>21, OneRejectionCounter, Zenon DEF Reject
  <2>2. /\ Finishes(l, "parse") /\ quiet
        /\ Counted({RejectionCounter(loop[l].data), "packets_dropped_total"})
    BY <1>2, <1>21, Zenon DEF Reject, OnlyServes
  <2> QED
    BY <1>3, <1>6, <2>1, <2>2, Zenon
<1>22. CASE ReadStatus(l)
  <2> DEFINE v == [at |-> "status", source |-> loop[l].source, data |-> loop[l].data,
                   receive |-> loop[l].receive, alarm |-> loop[l].alarm,
                   synchronised |-> synchronised]
  <2>1. loop' = [loop EXCEPT ![l] = v] /\ loop[l].at = "parse" /\ v.at = "status"
    BY <1>22, Zenon DEF ReadStatus
  <2>2. UNCHANGED metrics /\ quiet
    BY <1>2, <1>22, Zenon DEF ReadStatus, OnlyServes
  <2> HIDE DEF v
  <2> QED
    BY <1>9, <2>1, <2>2, Zenon
<1>23. CASE Build(l)
  <2> DEFINE v == [at |-> "stamp", source |-> loop[l].source, data |-> loop[l].data,
                   receive |-> loop[l].receive, alarm |-> loop[l].alarm,
                   reply |-> BuildResponse(Parsed(loop[l].data), loop[l].synchronised,
                                           reference, loop[l].receive)]
  <2>1. loop' = [loop EXCEPT ![l] = v] /\ loop[l].at = "status" /\ v.at = "stamp"
    BY <1>23, Zenon DEF Build
  <2>2. UNCHANGED metrics /\ quiet
    BY <1>2, <1>23, Zenon DEF Build, OnlyServes
  <2> HIDE DEF v
  <2> QED
    BY <1>9, <2>1, <2>2, Zenon
<1>24. CASE Stamp(l)
  <2>1. Built(loop[l])
    BY <1>24, HandsInPlaces, Zenon DEF Stamp
  <2>2. Finalize(loop[l].reply, ReadClock).stratum # KISS_OF_DEATH
    BY <2>1, BuiltIsNoKiss, Zenon
  <2> DEFINE v == [at |-> "send", source |-> loop[l].source, receive |-> loop[l].receive,
                   alarm |-> loop[l].alarm, reply |-> Finalize(loop[l].reply, ReadClock)]
  <2>3. loop' = [loop EXCEPT ![l] = v] /\ loop[l].at = "stamp"
    BY <1>24, Zenon DEF Stamp, Stamped
  <2>4. v.at = "send" /\ v.reply.stratum # KISS_OF_DEATH
    BY <2>2, Zenon
  <2> HIDE DEF v
  <2>5. UNCHANGED metrics /\ quiet
    BY <1>2, <1>24, Zenon DEF Stamp, OnlyServes
  <2> QED
    BY <1>9, <2>3, <2>4, <2>5, Zenon
<1>25. CASE StampWithoutClock(l)
  <2>1. /\ Finishes(l, "stamp") /\ quiet
        /\ Counted({"clock_errors_total", "packets_dropped_total"})
    BY <1>2, <1>25, Zenon DEF StampWithoutClock, OnlyServes
  <2> QED
    BY <1>3, <1>6, <2>1, Zenon
<1>26. CASE DropUnkissed(l)
  <2> DEFINE names == {"packets_dropped_total"}
  <2>1. Hands(l, TRUE, FALSE, FALSE, FALSE)
    BY <1>4, <1>26, Zenon DEF DropUnkissed
  <2>2. Counted(names) /\ quiet
    BY <1>2, <1>26, Zenon DEF DropUnkissed, OnlyServes
  <2>3. Increments(names)
    BY <1>1, <2>2, NamesOfTurns, Zenon
  <2>4. AnswersBalance(l, names, 0)
    BY <2>1, UpIs DEF Hands, AnswersBalance
  <2>5. CausesBalance(l, names, 0, 0)
    BY <2>1, UpIs DEF Hands, CausesBalance
  <2>6. Turn(l, names, 0, 0)
    <3> HIDE DEF names
    <3> QED
      BY <2>1, <2>2, <2>3, <2>4, <2>5, TurnOfHands, Zenon DEF quiet
  <2> QED
    BY <2>6, Zenon
<1>27. CASE StampKiss(l)
  <2> DEFINE transmit == IF ReadClock = BeforeNtpEpoch THEN ZERO ELSE ReadClock
             reply == Finalize(BuildKissOfDeath(Parsed(loop[l].data), loop[l].code,
                                                loop[l].receive), transmit)
             v == [at |-> "send", source |-> loop[l].source, receive |-> loop[l].receive,
                   alarm |-> loop[l].alarm, reply |-> reply]
  <2>1. loop' = [loop EXCEPT ![l] = v] /\ loop[l].at = "kiss"
    BY <1>27, Zenon DEF StampKiss, Stamped
  <2>2. UNCHANGED metrics /\ quiet
    BY <1>2, <1>27, Zenon DEF StampKiss, OnlyServes
  <2> HIDE DEF transmit
  <2>3. reply.stratum = KISS_OF_DEATH
    BY KissIsKiss, Zenon
  <2> HIDE DEF reply
  <2>4. v.at = "send" /\ v.reply.stratum = KISS_OF_DEATH
    BY <2>3, Zenon
  <2> HIDE DEF v
  <2>5. Hands(l, TRUE, TRUE, FALSE, FALSE)
    BY <2>1, <2>4, HandsOfOneLoop, Zenon DEF Hands
  <2>6. Turn(l, {}, 0, 0)
    BY <1>8, <2>2, <2>5, Zenon
  <2> QED
    BY <2>6, Zenon
<1>28. CASE Send(l) /\ IsKiss(l)
  <2> DEFINE names == {"responses_total", "kod_sent_total"}
  <2>1. Hands(l, TRUE, FALSE, FALSE, FALSE)
    BY <1>4, <1>28, Zenon DEF Send
  <2>2. Counted({"responses_total"} \cup {"kod_sent_total"}) /\ quiet
    BY <1>2, <1>28, Zenon DEF Send, OnlyServes
  <2>3. {"responses_total"} \cup {"kod_sent_total"} = names
    BY Zenon
  <2>4. Increments(names)
    BY <1>1, <2>2, <2>3, NamesOfTurns, Zenon
  <2>5. AnswersBalance(l, names, 0)
    BY <2>1, UpIs DEF Hands, AnswersBalance
  <2>6. CausesBalance(l, names, 0, 0)
    BY <2>1, UpIs DEF Hands, CausesBalance
  <2>7. Turn(l, names, 0, 0)
    <3> HIDE DEF names
    <3> QED
      BY <2>1, <2>2, <2>4, <2>5, <2>6, TurnOfHands, Zenon DEF quiet
  <2> QED
    BY <2>7, Zenon
<1>29. CASE Send(l) /\ ~IsKiss(l)
  <2> DEFINE names == {"responses_total"}
  <2>1. Hands(l, TRUE, FALSE, TRUE, FALSE)
    BY <1>3, <1>29, Zenon DEF Send
  <2>2. Counted({"responses_total"} \cup {}) /\ quiet
    BY <1>2, <1>29, Zenon DEF Send, OnlyServes
  <2>3. {"responses_total"} \cup {} = names
    BY Zenon
  <2>4. Increments(names)
    BY <1>1, <2>2, <2>3, NamesOfTurns, Zenon
  <2>5. AnswersBalance(l, names, 0)
    BY <2>1, UpIs DEF Hands, AnswersBalance
  <2>6. CausesBalance(l, names, 0, 0)
    BY <2>1, UpIs DEF Hands, CausesBalance
  <2>7. Turn(l, names, 0, 0)
    <3> HIDE DEF names
    <3> QED
      BY <2>1, <2>2, <2>4, <2>5, <2>6, TurnOfHands, Zenon DEF quiet
  <2> QED
    BY <2>7, Zenon
<1>30. CASE SendFails(l)
  <2> DEFINE names == {"socket_errors_total"}
  <2>1. Finishes(l, "send") /\ Counted(names) /\ recv_failed' = recv_failed
    BY <1>30, Zenon DEF SendFails
  <2>2. Increments(names)
    BY <1>1, <2>1, NamesOfTurns, Zenon
  <2>3. recv_failed' = Wrapped(recv_failed, 0)
    BY <2>1 DEF Wrapped
  <2>4. CASE IsKiss(l)
    <3>1. Hands(l, TRUE, FALSE, FALSE, FALSE)
      BY <1>4, <2>1, <2>4, Zenon
    <3>2. kod_failed' = Wrapped(kod_failed, 1)
      BY <1>30, <2>4, Zenon DEF SendFails, Wrapped
    <3>3. AnswersBalance(l, names, 0)
      BY <3>1, UpIs DEF Hands, AnswersBalance
    <3>4. CausesBalance(l, names, 0, 1)
      BY <3>1, UpIs DEF Hands, CausesBalance
    <3> HIDE DEF names
    <3>5. Turn(l, names, 0, 1)
      BY <2>2, <2>3, <3>1, <3>2, <3>3, <3>4, TurnOfHands, Zenon
    <3> QED
      BY <3>5, Zenon
  <2>5. CASE ~IsKiss(l)
    <3>1. Hands(l, TRUE, FALSE, TRUE, FALSE)
      BY <1>3, <2>1, <2>5, Zenon
    <3>2. kod_failed' = Wrapped(kod_failed, 0)
      BY <1>30, <2>5 DEF SendFails, Wrapped
    <3>3. AnswersBalance(l, names, 0)
      BY <3>1, UpIs DEF Hands, AnswersBalance
    <3>4. CausesBalance(l, names, 0, 0)
      BY <3>1, UpIs DEF Hands, CausesBalance
    <3> HIDE DEF names
    <3>5. Turn(l, names, 0, 0)
      BY <2>2, <2>3, <3>1, <3>2, <3>3, <3>4, TurnOfHands, Zenon
    <3> QED
      BY <3>5, Zenon
  <2> QED
    BY <2>4, <2>5, Zenon
<1>31. CASE StopLoop(l)
  <2>1. [loop[l] EXCEPT !.at = "stopped"] = Stopped
    BY <1>31, HandsInPlaces DEF StopLoop, Goes, Waiting, Stopped
  <2>2. loop' = [loop EXCEPT ![l] = Stopped] /\ loop[l].at = "select" /\ Stopped.at = "stopped"
    BY <1>31, <2>1, Zenon DEF StopLoop, Goes, Stopped
  <2>3. Hands(l, FALSE, FALSE, FALSE, FALSE)
    BY <2>2, HandsOfOneLoop, Zenon DEF Hands
  <2>4. UNCHANGED metrics /\ quiet
    BY <1>2, <1>31, Zenon DEF StopLoop, OnlyServes
  <2> QED
    BY <1>8, <2>3, <2>4, Zenon
<1>32. CASE ReceiveSomething(l)
  BY <1>11, <1>13, <1>14, <1>32, Zenon DEF ReceiveSomething
<1>33. CASE LoopStep(l)
  BY <1>15, <1>16, <1>17, <1>18, <1>19, <1>20, <1>21, <1>22, <1>24, <1>25, <1>26, <1>27,
     <1>23, <1>28, <1>29, <1>30, <1>31, <1>33, Zenon
  DEF LoopStep
<1> QED
  BY <1>32, <1>33, Zenon

\* Housekeeping and the environment count nothing but jumps of the clock.
LEMMA OthersCountJumps ==
  ASSUME CountersHold, HousekeepingStep \/ Signal \/ STick \/ SSetWallClock \/ UNCHANGED svars
  PROVE  /\ UNCHANGED <<loop, recv_failed, kod_failed>>
         /\ Increments({}) \/ Increments({"clock_jumps_total"})
<1>1. CASE HkJump
  <2>1. DOMAIN metrics' = Counters \cup Gauges
    BY <1>1, Zenon DEF HkJump, CountersHold
  <2>2. \A n \in Counters :
          metrics'[n] = IF n = "clock_jumps_total"
                        THEN IF Jumped THEN (metrics[n] + 1) % CounterModulus ELSE metrics[n]
                        ELSE metrics[n]
    BY <1>1, Zenon DEF HkJump, CountersHold, Counters, Gauges
  <2>3. CASE Jumped
    BY <1>1, <2>1, <2>2, <2>3, UpIs DEF HkJump, OnlyKeepsHouse, Increments, Wrapped
  <2>4. CASE ~Jumped
    BY <1>1, <2>1, <2>2, <2>4, UpIs DEF HkJump, OnlyKeepsHouse, Increments, Wrapped
  <2> QED
    BY <2>3, <2>4, Zenon
<1>2. CASE HkGauges
  <2>1. DOMAIN metrics' = Counters \cup Gauges /\ \A n \in Counters : metrics'[n] = metrics[n]
    BY <1>2, Zenon DEF HkGauges, CountersHold, Counters, Gauges
  <2> QED
    BY <1>2, <2>1, UpIs DEF HkGauges, OnlyKeepsHouse, Increments, Wrapped
<1>3. CASE UNCHANGED <<loop, recv_failed, kod_failed, metrics>>
  BY <1>3, UncountedIncrements, Zenon
<1> QED
  BY <1>1, <1>2, <1>3, Zenon
  DEF HousekeepingStep, HkTick, HkStartSweep, HkSweep, StopHousekeeping, OnlyKeepsHouse,
      Signal, STick, SSetWallClock, svars, server

\* Every step keeps the counters within their width, and both books.
LEMMA BooksStep ==
  ASSUME LoopsHold, CountersHold, AnswersBook, CausesBook, [SNext]_svars
  PROVE  CountersHold' /\ AnswersBook' /\ CausesBook'
<1>1. ASSUME NEW l \in Loops, ReceiveSomething(l) \/ LoopStep(l)
      PROVE  CountersHold' /\ AnswersBook' /\ CausesBook'
  <2>1. PICK names, received, kissed : Turn(l, names, received, kissed)
    BY <1>1, LoopTurns, Zenon
  <2>2. CountersHold'
    BY <2>1, IncrementsHold, Zenon DEF Turn
  <2> QED
    BY <2>1, <2>2, TurnKeepsAnswers, TurnKeepsCauses, Zenon
<1>2. CASE HousekeepingStep \/ Signal \/ STick \/ SSetWallClock \/ UNCHANGED svars
  <2>1. PICK names \in {{}, {"clock_jumps_total"}} : Increments(names)
    BY <1>2, OthersCountJumps, Zenon
  <2>2. UNCHANGED <<loop, recv_failed, kod_failed>>
    BY <1>2, OthersCountJumps, Zenon
  <2>3. CountersHold'
    <3>1. recv_failed' = Wrapped(recv_failed, 0) /\ kod_failed' = Wrapped(kod_failed, 0)
      BY <2>2 DEF Wrapped
    <3> QED
      BY <2>1, <3>1, IncrementsHold, Zenon
  <2>4. \A n \in Counters \ {"clock_jumps_total"} : metrics'[n] = metrics[n]
    BY <2>1, UpIs DEF Increments, Wrapped
  <2>5. InFlight' = InFlight /\ Undecided' = Undecided
    BY <2>2, Zenon DEF InFlight, Undecided, IsKiss
  <2>6. /\ metrics'.requests_total = metrics.requests_total
        /\ metrics'.responses_total = metrics.responses_total
        /\ metrics'.packets_dropped_total = metrics.packets_dropped_total
        /\ metrics'.socket_errors_total = metrics.socket_errors_total
        /\ metrics'.malformed_packets_total = metrics.malformed_packets_total
        /\ metrics'.access_denied_total = metrics.access_denied_total
        /\ metrics'.rate_limited_total = metrics.rate_limited_total
        /\ metrics'.unsupported_version_total = metrics.unsupported_version_total
        /\ metrics'.unsupported_mode_total = metrics.unsupported_mode_total
        /\ metrics'.clock_errors_total = metrics.clock_errors_total
        /\ metrics'.kod_sent_total = metrics.kod_sent_total
    BY <2>4, Zenon DEF Counters
  <2>7. AnswersBook'
    BY <2>2, <2>5, <2>6, Zenon DEF AnswersBook, Multiple
  <2>8. CausesBook'
    BY <2>2, <2>5, <2>6, Zenon DEF CausesBook, Multiple
  <2> QED
    BY <2>3, <2>7, <2>8, Zenon
<1> QED
  BY <1>1, <1>2, Zenon DEF SNext

-----------------------------------------------------------------------------
(* What the books show *)

\* The books are balanced as the server starts: nothing is counted and nothing is in hand.
LEMMA BookInvInit ==
  ASSUME SInit
  PROVE  BookInv
<1>1. \A l \in Loops : loop[l].at = "select"
  BY Zenon DEF SInit, Waiting
<1>2. CounterModulus \in Nat \ {0}
  BY ServerAssumption, Zenon
<1>3. \A n \in Counters : metrics[n] = 0
  BY Zenon DEF SInit, Counters
<1>4. CountersHold
  BY <1>2, <1>3 DEF SInit, CountersHold
<1>5. InFlight = {} /\ Undecided = {}
  BY <1>1, Zenon DEF InFlight, Undecided
<1>6. Cardinality(InFlight) = 0 /\ Cardinality(Undecided) = 0
  BY <1>5, FS_EmptySet, Zenon
<1>7. Multiple(0)
  <2>1. 0 = 0 * CounterModulus
    BY <1>2
  <2> QED
    BY <2>1 DEF Multiple
<1>8. /\ metrics.requests_total = 0 /\ metrics.responses_total = 0
      /\ metrics.packets_dropped_total = 0 /\ metrics.socket_errors_total = 0
      /\ metrics.malformed_packets_total = 0 /\ metrics.access_denied_total = 0
      /\ metrics.rate_limited_total = 0 /\ metrics.unsupported_version_total = 0
      /\ metrics.unsupported_mode_total = 0 /\ metrics.clock_errors_total = 0
      /\ metrics.kod_sent_total = 0 /\ recv_failed = 0 /\ kod_failed = 0
  BY <1>3, Zenon DEF SInit, Counters
<1>9. AnswersBook
  BY <1>6, <1>7, <1>8 DEF AnswersBook
<1>10. CausesBook
  BY <1>6, <1>7, <1>8 DEF CausesBook
<1> QED
  BY <1>4, <1>9, <1>10, Zenon DEF BookInv

\* The first book says that no request is unaccounted for.
LEMMA AnswersAreBooked ==
  ASSUME BookInv
  PROVE  EveryRequestAccounted
<1> DEFINE x == metrics.requests_total + recv_failed
           y == ((metrics.responses_total + metrics.packets_dropped_total)
                 + metrics.socket_errors_total) + Cardinality(InFlight)
<1>1. (\A n \in Counters : metrics[n] \in Nat) /\ recv_failed \in Nat
  BY ServerAssumption DEF BookInv, CountersHold
<1>2. Cardinality(InFlight) \in Nat
  BY FiniteHands, FS_CardinalityType, Zenon
<1>3. x \in Nat /\ y \in Nat
  BY <1>1, <1>2 DEF Counters
<1>4. Multiple(x - y)
  BY Zenon DEF BookInv, AnswersBook
<1> HIDE DEF x, y
<1>5. x % CounterModulus = y % CounterModulus
  BY <1>3, <1>4, SameUpToWidth, Zenon
<1> QED
  BY <1>5, Zenon DEF EveryRequestAccounted, x, y

\* The second says that every refusal has one cause.
LEMMA CausesAreBooked ==
  ASSUME BookInv
  PROVE  EveryRefusalHasOneCause
<1> DEFINE x == (metrics.requests_total + recv_failed) + (kod_failed + metrics.kod_sent_total)
           y == (((((((metrics.responses_total + metrics.socket_errors_total)
                      + metrics.malformed_packets_total) + metrics.access_denied_total)
                    + metrics.rate_limited_total) + metrics.unsupported_version_total)
                  + metrics.unsupported_mode_total) + metrics.clock_errors_total)
                + Cardinality(Undecided)
<1>1. (\A n \in Counters : metrics[n] \in Nat) /\ recv_failed \in Nat /\ kod_failed \in Nat
  BY ServerAssumption DEF BookInv, CountersHold
<1>2. Cardinality(Undecided) \in Nat
  BY FiniteHands, FS_CardinalityType, Zenon
<1>3. x \in Nat
  BY <1>1, <1>2 DEF Counters
<1>4. y \in Nat
  BY <1>1, <1>2 DEF Counters
<1>5. Multiple(x - y)
  BY Zenon DEF BookInv, CausesBook
<1> HIDE DEF x, y
<1>6. x % CounterModulus = y % CounterModulus
  BY <1>3, <1>4, <1>5, SameUpToWidth, Zenon
<1> QED
  BY <1>6, Zenon DEF EveryRefusalHasOneCause, x, y
=============================================================================
