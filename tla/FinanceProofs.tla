---------------------------- MODULE FinanceProofs ----------------------------
(***************************************************************************)
(* Proofs about Finance, for all amounts, prices and numbers of documents. *)
(***************************************************************************)
EXTENDS Finance, Integers, TLAPS

-----------------------------------------------------------------------------
(* ROUND_HALF_UP.                                                          *)

LEMMA MagnitudeFacts ==
    ASSUME NEW n \in Int
    PROVE  /\ Magnitude(n) \in Nat
           /\ n >= 0 => Magnitude(n) = n
           /\ n <= 0 => Magnitude(n) = -n
           /\ Magnitude(-n) = Magnitude(n)
           /\ n # 0 => Magnitude(n) > 0
BY DEF Magnitude

Size(a, b) == (2 * a + b) \div (2 * b)

LEMMA SizeBounds ==
    ASSUME NEW a \in Nat, NEW b \in Nat, b > 0
    PROVE  /\ Size(a, b) \in Nat
           /\ 2 * (Size(a, b) * b) <= 2 * a + b
           /\ 2 * a < 2 * (Size(a, b) * b) + b
<1> DEFINE x == 2 * a + b
           y == 2 * b
           s == x \div y
<1>1. x \in Int /\ y \in Int /\ y > 0 /\ x >= 0
  OBVIOUS
<1> HIDE DEF x, y
<1>2. s \in Int /\ s >= 0 /\ y * s <= x /\ x < y * s + y
  BY <1>1
<1> HIDE DEF s
<1>3. y * s = 2 * (s * b)
  BY <1>2 DEF y
<1> QED BY <1>2, <1>3 DEF x, y, s, Size

\* A larger amount has no smaller size.
LEMMA SizeGrows ==
    ASSUME NEW a \in Nat, NEW c \in Nat, NEW b \in Nat, b > 0, a <= c
    PROVE  Size(a, b) <= Size(c, b)
<1> DEFINE s == Size(a, b)
           t == Size(c, b)
<1>1. /\ s \in Nat /\ 2 * (s * b) <= 2 * a + b
      /\ t \in Nat /\ 2 * c < 2 * (t * b) + b
  BY SizeBounds
<1> HIDE DEF s, t
<1>2. ASSUME t + 1 <= s PROVE (t + 1) * b <= s * b
  BY <1>1, <1>2
<1>3. (t + 1) * b = t * b + b
  BY <1>1
<1> QED BY <1>1, <1>2, <1>3 DEF s, t

LEMMA HalfUpIsSize ==
    ASSUME NEW n \in Int, NEW d \in Int, d # 0
    PROVE  /\ HalfUp(n, d) \in Int
           /\ (n < 0) = (d < 0) => HalfUp(n, d) = Size(Magnitude(n), Magnitude(d))
           /\ (n < 0) # (d < 0) => HalfUp(n, d) = -Size(Magnitude(n), Magnitude(d))
<1>1. Size(Magnitude(n), Magnitude(d)) \in Nat
  BY MagnitudeFacts, SizeBounds
<1> QED BY <1>1 DEF HalfUp, Size

LEMMA HalfUpByPositive ==
    ASSUME NEW n \in Int, NEW d \in Int, d > 0
    PROVE  /\ n >= 0 => HalfUp(n, d) = Size(Magnitude(n), d)
           /\ n < 0 => HalfUp(n, d) = -Size(Magnitude(n), d)
<1>1. Magnitude(d) = d /\ d # 0 /\ ~(d < 0)
  BY MagnitudeFacts
<1>2. n >= 0 => ~(n < 0)
  OBVIOUS
<1> QED BY <1>1, <1>2, HalfUpIsSize

\* Decimals are rounded to the nearest unit, and halves away from zero.
THEOREM HalfUpIsNearest ==
    ASSUME NEW n \in Int, NEW d \in Int, d # 0
    PROVE  HalfUp(n, d) \in Int /\ IsNearest(HalfUp(n, d), n, d)
<1> DEFINE a == Magnitude(n)
           b == Magnitude(d)
           s == Size(a, b)
           r == HalfUp(n, d)
<1>1. a \in Nat /\ b \in Nat /\ b > 0
  BY MagnitudeFacts
<1>2. s \in Nat /\ 2 * (s * b) <= 2 * a + b /\ 2 * a < 2 * (s * b) + b
  BY <1>1, SizeBounds
<1>3. r \in Int /\ r * d = IF n < 0 THEN -(s * b) ELSE s * b
  <2>1. CASE d > 0
    <3>1. b = d
      BY <2>1, MagnitudeFacts
    <3>2. r = IF n < 0 THEN -s ELSE s
      BY <2>1, HalfUpIsSize
    <3> HIDE DEF r, s, b
    <3> QED BY <1>2, <3>1, <3>2
  <2>2. CASE d < 0
    <3>1. b = -d
      BY <2>2, MagnitudeFacts
    <3>2. r = IF n < 0 THEN s ELSE -s
      BY <2>2, HalfUpIsSize
    <3> HIDE DEF r, s, b
    <3> QED BY <1>2, <3>1, <3>2
  <2> QED BY <2>1, <2>2
<1>4. n = IF n < 0 THEN -a ELSE a
  BY MagnitudeFacts
<1> DEFINE p == s * b
<1>5. p \in Nat
  BY <1>1, <1>2
<1>6. /\ 2 * Magnitude(r * d - n) <= b
      /\ 2 * Magnitude(r * d - n) = b => Magnitude(r * d) > a
  <2>1. 2 * p <= 2 * a + b /\ 2 * a < 2 * p + b /\ r * d = IF n < 0 THEN -p ELSE p
    BY <1>2, <1>3
  <2>2. r * d \in Int
    BY <1>3
  <2> HIDE DEF p, a, b, r
  <2> QED BY <1>1, <1>4, <1>5, <2>1, <2>2 DEF Magnitude
<1> QED BY <1>3, <1>6 DEF IsNearest

\* A credit note is rounded as the invoice it reverses.
LEMMA HalfUpIsOdd ==
    ASSUME NEW n \in Int, NEW d \in Int, d > 0
    PROVE  HalfUp(-n, d) = -HalfUp(n, d)
<1>1. -n \in Int /\ Magnitude(-n) = Magnitude(n)
  BY MagnitudeFacts
<1>2. Size(Magnitude(n), d) \in Nat
  BY MagnitudeFacts, SizeBounds
<1>3. CASE n # 0
  BY <1>1, <1>2, <1>3, HalfUpByPositive
<1>4. CASE n = 0
  <2>1. Size(0, d) = 0
    <3>1. Size(0, d) \in Nat /\ 2 * (Size(0, d) * d) <= d
      BY SizeBounds
    <3> DEFINE s == Size(0, d)
    <3> HIDE DEF s
    <3>2. s >= 1 => s * d >= d
      BY <3>1 DEF s
    <3> QED BY <3>1, <3>2 DEF s
  <2> QED BY <1>4, <2>1, HalfUpByPositive, MagnitudeFacts
<1> QED BY <1>3, <1>4

LEMMA HalfUpGrows ==
    ASSUME NEW n \in Int, NEW m \in Int, NEW d \in Int, d > 0, n <= m
    PROVE  HalfUp(n, d) <= HalfUp(m, d)
<1>m. Magnitude(n) \in Nat /\ Magnitude(m) \in Nat
  BY MagnitudeFacts
<1>1. /\ Magnitude(n) \in Nat /\ Magnitude(m) \in Nat
      /\ Size(Magnitude(n), d) \in Nat /\ Size(Magnitude(m), d) \in Nat
  BY <1>m, SizeBounds
<1>2. CASE n >= 0
  <2>1. Magnitude(n) <= Magnitude(m)
    BY <1>2, MagnitudeFacts
  <2> QED BY <1>1, <1>2, <2>1, SizeGrows, HalfUpByPositive
<1>3. CASE m < 0
  <2>1. Magnitude(m) <= Magnitude(n)
    BY <1>3, MagnitudeFacts
  <2>2. Size(Magnitude(m), d) <= Size(Magnitude(n), d)
    BY <1>1, <2>1, SizeGrows
  <2> QED BY <1>1, <1>3, <2>2, HalfUpByPositive
<1>4. CASE n < 0 /\ m >= 0
  BY <1>1, <1>4, HalfUpByPositive
<1> QED BY <1>2, <1>3, <1>4
-----------------------------------------------------------------------------
(* quantize.                                                               *)

LEMMA Floor ==
    ASSUME NEW n \in Int, NEW q \in {100, 1000}
    PROVE  n \div q \in Int /\ (n \div q) * q <= n /\ n - (n \div q) * q < q
<1>1. CASE q = 100
  BY <1>1
<1>2. CASE q = 1000
  BY <1>2
<1> QED BY <1>1, <1>2

LEMMA Multiple ==
    ASSUME NEW k \in Int, NEW q \in {10, 100, 1000}
    PROVE  k * q \in Int /\ (k * q) % q = 0 /\ (k * q) \div q = k
<1>1. CASE q = 10
  BY <1>1
<1>2. CASE q = 100
  BY <1>2
<1>3. CASE q = 1000
  BY <1>3
<1> QED BY <1>1, <1>2, <1>3

LEMMA QuantumFacts ==
    ASSUME NEW scale \in {0, 1}
    PROVE  Quantum(scale) \in {100, 1000} /\ Quantum(scale) \in Int /\ Quantum(scale) # 0
BY DEF Quantum, Unit

\* So many units of the quantum are a rounding, and less than a quantum away.
LEMMA UnitsAreRight ==
    ASSUME NEW n \in Int, NEW scale \in {0, 1}, NEW operation \in Rounding
    PROVE  /\ Units(operation, n, scale) \in Int
           /\ IsRounded(operation, Units(operation, n, scale) * Quantum(scale), n, scale)
           /\ Magnitude(Units(operation, n, scale) * Quantum(scale) - n) < Quantum(scale)
<1> DEFINE q == Quantum(scale)
           u == Units(operation, n, scale)
           v == u * q
<1>1. q \in {100, 1000} /\ q \in Int /\ q # 0 /\ q > 0
  BY QuantumFacts
<1>2. /\ operation = "round" => u = HalfUp(n, q)
      /\ operation = "ceil"  => u = -((-n) \div q)
      /\ operation = "floor" => u = n \div q
  BY DEF Units
<1> HIDE DEF q, u
<1>3. CASE operation = "round"
  <2>1. u \in Int /\ IsNearest(u, n, q)
    BY <1>1, <1>2, <1>3, HalfUpIsNearest
  <2>2. v % q = 0 /\ v \div q = u /\ v \in Int
    BY <1>1, <2>1, Multiple
  <2>3. Magnitude(q) = q /\ Magnitude(v - n) \in Nat
    BY <1>1, <2>2, MagnitudeFacts
  <2>4. Magnitude(v - n) < q
    <3>1. 2 * Magnitude(v - n) <= Magnitude(q)
      BY <2>1 DEF IsNearest
    <3> HIDE DEF v
    <3> QED BY <1>1, <2>3, <3>1
  <2>5. IsRounded(operation, v, n, scale)
    BY <1>3, <2>1, <2>2 DEF IsRounded, q
  <2> QED BY <2>1, <2>4, <2>5 DEF q, u
<1>4. CASE operation = "ceil"
  <2> DEFINE k == (-n) \div q
  <2>1. k \in Int /\ k * q <= -n /\ -n - k * q < q
    BY <1>1, Floor
  <2> HIDE DEF k
  <2>2. u = -k /\ u \in Int /\ v = -(k * q) /\ k * q \in Int
    BY <1>1, <1>2, <1>4, <2>1 DEF k
  <2>3. v % q = 0
    BY <1>1, <2>2, Multiple
  <2>4. v >= n /\ v - n < q /\ v - n >= 0 /\ v - n \in Int
    BY <2>1, <2>2
  <2>5. Magnitude(v - n) < q
    BY <2>4, MagnitudeFacts
  <2>6. IsRounded(operation, v, n, scale)
    BY <1>4, <2>3, <2>4 DEF IsRounded, q
  <2> QED BY <2>2, <2>5, <2>6 DEF q, u
<1>5. CASE operation = "floor"
  <2>1. u \in Int /\ v <= n /\ n - v < q
    BY <1>1, <1>2, <1>5, Floor
  <2>2. v % q = 0 /\ v \in Int
    BY <1>1, <2>1, Multiple
  <2>3. Magnitude(v - n) < q
    BY <1>1, <2>1, <2>2, MagnitudeFacts
  <2>4. IsRounded(operation, v, n, scale)
    BY <1>5, <2>1, <2>2 DEF IsRounded, q
  <2> QED BY <2>1, <2>3, <2>4 DEF q, u
<1> QED BY <1>3, <1>4, <1>5 DEF Rounding

\* The units are within the digits of the context when their amount is, and a number
\* rounded beyond them is beyond them itself.
LEMMA Digits ==
    ASSUME NEW limit \in Nat, NEW n \in Int, NEW u \in Int, NEW q \in {100, 1000},
           Magnitude(u * q - n) < q
    PROVE  /\ Magnitude(u) <= limit => Magnitude(u * q) <= limit * q
           /\ Magnitude(u) > limit => Magnitude(n) > limit * q
<1>1. CASE q = 100
  BY <1>1 DEF Magnitude
<1>2. CASE q = 1000
  BY <1>2 DEF Magnitude
<1> QED BY <1>1, <1>2

\* Whatever quantize returns (DecimalCalculator._apply) is a multiple of the
\* quantum: rounded up, rounded down, or the nearest; and it raises only for a
\* number of more digits than the context keeps.
THEOREM RoundingsAreRight ==
    MaxCoefficient \in Nat => \A n \in Int, scale \in {0, 1} : RoundingAgrees(n, scale)
<1> SUFFICES ASSUME MaxCoefficient \in Nat,
                    NEW n \in Int, NEW scale \in {0, 1}, NEW operation \in Rounding
             PROVE  LET r       == Quantize(operation, n, scale)
                        largest == MaxCoefficient * Quantum(scale)
                    IN  IF r.type = "number"
                        THEN /\ IsRounded(operation, r.value, n, scale)
                             /\ Magnitude(r.value) <= largest
                        ELSE Magnitude(n) > largest
  BY DEF RoundingAgrees
<1> DEFINE u == Units(operation, n, scale)
           r == Quantize(operation, n, scale)
<1>1. /\ u \in Int /\ IsRounded(operation, u * Quantum(scale), n, scale)
      /\ Magnitude(u * Quantum(scale) - n) < Quantum(scale)
  BY UnitsAreRight
<1>2. Magnitude(u) \in Nat
  BY <1>1, MagnitudeFacts
<1>3. /\ Magnitude(u) <= MaxCoefficient =>
            Magnitude(u * Quantum(scale)) <= MaxCoefficient * Quantum(scale)
      /\ Magnitude(u) > MaxCoefficient => Magnitude(n) > MaxCoefficient * Quantum(scale)
  BY <1>1, QuantumFacts, Digits
<1>4. IF Magnitude(u) > MaxCoefficient THEN r = [type |-> "InvalidOperation", value |-> 0]
      ELSE r = [type |-> "number", value |-> u * Quantum(scale)]
  BY DEF Quantize
<1> HIDE DEF u, r
<1>5. CASE Magnitude(u) > MaxCoefficient
  <2>1. r.type = "InvalidOperation"
    BY <1>4, <1>5
  <2> QED BY <1>3, <1>5, <2>1 DEF r
<1>6. CASE Magnitude(u) <= MaxCoefficient
  <2>1. r.type = "number" /\ r.value = u * Quantum(scale)
    BY <1>2, <1>4, <1>6
  <2> QED BY <1>1, <1>3, <1>6, <2>1 DEF r
<1> QED BY <1>2, <1>5, <1>6

-----------------------------------------------------------------------------
(* finance.py.                                                             *)

\* evaluate_tolerance treats a credit note as the invoice it reverses, and a
\* difference that is tolerated is tolerated with every smaller one.
THEOREM ToleranceIsFair ==
    \A charged, expected \in Int, absolute, percent \in Nat :
       ToleranceAgrees(charged, expected, absolute, percent)
<1> TAKE charged, expected \in Int, absolute, percent \in Nat
<1> DEFINE d == charged - expected
           allowance == Magnitude(expected) * percent
           Within(x) == Magnitude(x) <= absolute \/ 100 * Magnitude(x) <= allowance
<1>1. d \in Int /\ allowance \in Nat
  BY MagnitudeFacts
<1>2. HalfUp(d, 10) \in Int /\ IsNearest(HalfUp(d, 10), d, 10)
  BY <1>1, HalfUpIsNearest
<1>3. \A c \in Int : Tolerance(c, expected, absolute, percent)
                        = [rounded |-> HalfUp(c - expected, 10) * 10,
                           within  |-> Within(c - expected)]
  BY DEF Tolerance
<1>4. Tolerance(-charged, -expected, absolute, percent)
        = [rounded |-> (-HalfUp(d, 10)) * 10, within |-> Within(d)]
  <2>1. Magnitude(-expected) = Magnitude(expected) /\ Magnitude(-d) = Magnitude(d)
    BY <1>1, MagnitudeFacts
  <2>2. (-charged) - (-expected) = -d
    OBVIOUS
  <2>3. HalfUp(-d, 10) = -HalfUp(d, 10)
    BY <1>1, HalfUpIsOdd
  <2> HIDE DEF d
  <2> QED BY <2>1, <2>2, <2>3 DEF Tolerance
<1>5. (-HalfUp(d, 10)) * 10 = -(HalfUp(d, 10) * 10)
  BY <1>2
<1>6. Within(0)
  BY <1>1, MagnitudeFacts
<1>7. ASSUME NEW nearer \in expected - Magnitude(d) .. expected + Magnitude(d), Within(d)
      PROVE  Within(nearer - expected)
  <2>1. Magnitude(d) \in Nat
    BY <1>1, MagnitudeFacts
  <2>2. nearer \in Int /\ Magnitude(nearer - expected) <= Magnitude(d)
    BY <2>1 DEF Magnitude
  <2>3. Magnitude(nearer - expected) \in Nat
    BY <2>2, MagnitudeFacts
  <2> HIDE DEF d, allowance
  <2> QED BY <1>1, <1>7, <2>1, <2>2, <2>3
<1>8. (HalfUp(d, 10) * 10) \div 10 = HalfUp(d, 10)
  BY <1>2, Multiple
<1> DEFINE t == Tolerance(charged, expected, absolute, percent)
<1>9. t = [rounded |-> HalfUp(d, 10) * 10, within |-> Within(d)]
  BY <1>3
<1>10. Tolerance(-charged, -expected, absolute, percent) = [t EXCEPT !.rounded = -t.rounded]
  BY <1>4, <1>5, <1>9
<1>w. \A c \in Int : Tolerance(c, expected, absolute, percent).within = Within(c - expected)
  BY DEF Tolerance
<1>11. Tolerance(expected, expected, absolute, percent).within
  <2>1. expected - expected = 0
    OBVIOUS
  <2>2. Within(expected - expected)
    BY <1>6, <2>1
  <2> HIDE DEF Within
  <2> QED BY <1>w, <2>2
<1>12. \A nearer \in expected - Magnitude(d) .. expected + Magnitude(d) :
          t.within => Tolerance(nearer, expected, absolute, percent).within
  <2> TAKE nearer \in expected - Magnitude(d) .. expected + Magnitude(d)
  <2>1. nearer \in Int
    BY <1>1, MagnitudeFacts
  <2>2. t.within = Within(d)
    BY <1>w
  <2> HIDE DEF Within, t
  <2> QED BY <1>w, <1>7, <2>1, <2>2
<1>13. IsNearest(t.rounded \div 10, d, 10)
  BY <1>2, <1>8, <1>9
<1> QED BY <1>10, <1>11, <1>12, <1>13 DEF ToleranceAgrees

\* consolidate_statuses gives an invoice the status of its worst document, for
\* any number of documents in any order.
THEOREM WorstDocumentDecides ==
    ASSUME NEW n \in Nat, NEW statuses \in [1..n -> Statuses]
    PROVE  ConsolidationAgrees(statuses)
<1> DEFINE Counted(s) == \E i \in 1..n : statuses[i] = s
           c == Consolidated(statuses)
<1>1. DOMAIN statuses = 1..n
  OBVIOUS
<1>2. CASE 1..n = {}
  BY <1>1, <1>2 DEF ConsolidationAgrees, Consolidated
<1>3. CASE 1..n # {}
  <2>1. CASE Counted("INCORRECT")
    BY <1>1, <1>3, <2>1 DEF ConsolidationAgrees, Consolidated, Badness, Statuses, Pending
  <2>2. CASE ~Counted("INCORRECT") /\ \E s \in Pending : Counted(s)
    <3>1. c = "PENDING"
      BY <1>1, <1>3, <2>2 DEF Consolidated
    <3>2. PICK i \in 1..n : statuses[i] \in Pending
      BY <2>2
    <3>3. Badness(c) = 4 /\ Badness(statuses[i]) = 4
      BY <3>1, <3>2 DEF Badness, Pending
    <3>4. \A k \in 1..n : Badness(statuses[k]) <= 4
      BY <2>2 DEF Badness, Statuses, Pending
    <3> QED BY <1>1, <1>3, <3>3, <3>4 DEF ConsolidationAgrees
  <2>3. CASE /\ ~Counted("INCORRECT") /\ ~\E s \in Pending : Counted(s)
             /\ Counted("ERROR")
    <3>1. c = "ERROR"
      BY <1>1, <1>3, <2>3 DEF Consolidated
    <3>2. \A k \in 1..n : Badness(statuses[k]) <= 3
      BY <2>3 DEF Badness, Statuses
    <3>3. Badness("ERROR") = 3
      BY DEF Badness, Pending
    <3> QED BY <1>1, <1>3, <2>3, <3>1, <3>2, <3>3 DEF ConsolidationAgrees
  <2>4. CASE /\ ~Counted("INCORRECT") /\ ~\E s \in Pending : Counted(s)
             /\ ~Counted("ERROR") /\ Counted("MANUAL_REVIEW")
    <3>1. c = "MANUAL_REVIEW"
      BY <1>1, <1>3, <2>4 DEF Consolidated
    <3>2. \A k \in 1..n : Badness(statuses[k]) <= 2
      BY <2>4 DEF Badness, Statuses
    <3>3. Badness("MANUAL_REVIEW") = 2
      BY DEF Badness, Pending
    <3> QED BY <1>1, <1>3, <2>4, <3>1, <3>2, <3>3 DEF ConsolidationAgrees
  <2>5. CASE /\ ~Counted("INCORRECT") /\ ~\E s \in Pending : Counted(s)
             /\ ~Counted("ERROR") /\ ~Counted("MANUAL_REVIEW")
    <3>1. \A k \in 1..n : statuses[k] = "CORRECT"
      BY <2>5 DEF Statuses
    <3>2. c = "CORRECT"
      BY <1>1, <1>3, <2>5, <3>1 DEF Consolidated, Pending
    <3>3. Badness("CORRECT") = 1
      BY DEF Badness, Pending
    <3> QED BY <1>1, <1>3, <3>1, <3>2, <3>3 DEF ConsolidationAgrees
  <2> QED BY <2>1, <2>2, <2>3, <2>4, <2>5
<1> QED BY <1>2, <1>3

\* gross_margin gives the nearest percentage of the margin, also of a credit note,
\* and none when an amount is missing or nothing was charged.
THEOREM MarginIsNearest ==
    ASSUME NEW revenue \in {Missing} \cup {<<n>> : n \in Int},
           NEW cost \in {Missing} \cup {<<n>> : n \in Int}
    PROVE  MarginAgrees(revenue, cost)
<1>1. CASE revenue = Missing \/ cost = Missing
  BY <1>1 DEF MarginAgrees, Margin, Missing
<1>2. ASSUME NEW r \in Int, NEW k \in Int, revenue = <<r>>, cost = <<k>>
      PROVE  MarginAgrees(revenue, cost)
  <2>1. revenue # Missing /\ cost # Missing /\ revenue[1] = r /\ cost[1] = k
    BY <1>2 DEF Missing
  <2> DEFINE x == (r - k) * 100 * Unit
  <2>2. x \in Int
    BY DEF Unit
  <2>3. /\ Margin(revenue, cost).margin = <<r - k>>
        /\ Margin(revenue, cost).percent = IF r = 0 THEN Missing ELSE <<HalfUp(x, r)>>
    BY <2>1 DEF Margin, Missing
  <2>4. r # 0 => IsNearest(HalfUp(x, r), x, r)
    BY <2>2, HalfUpIsNearest
  <2> HIDE DEF x
  <2>5. \A y : <<y>> # Missing /\ <<y>>[1] = y
    BY DEF Missing
  <2> QED BY <2>1, <2>3, <2>4, <2>5 DEF MarginAgrees, x
<1> QED BY <1>1, <1>2

-----------------------------------------------------------------------------
(* What an AI call cost.                                                   *)

\* n tokens, k of them at the price q and the others at p, cost no less than all
\* of them at the lower price and no more than all at the higher.
LEMMA MixLiesBetween ==
    ASSUME NEW n \in Nat, NEW k \in Nat, k <= n, NEW p \in Nat, NEW q \in Nat, p <= q
    PROVE  /\ n * p <= (n - k) * p + k * q /\ (n - k) * p + k * q <= n * q
           /\ n * p <= (n - k) * q + k * p /\ (n - k) * q + k * p <= n * q
<1>1. /\ n - k \in Nat
      /\ (n - k) * p + k * p = n * p
      /\ (n - k) * q + k * q = n * q
  OBVIOUS
<1>2. k * p <= k * q /\ (n - k) * p <= (n - k) * q
  BY <1>1
<1>3. {k * p, k * q, (n - k) * p, (n - k) * q, n * p, n * q} \subseteq Int
  BY <1>1
<1> QED BY <1>1, <1>2, <1>3

\* _estimate_cost of accounting that execute accepted is never negative and within
\* what the call would cost without the cache and from nothing but the cache.
THEOREM CostIsBounded ==
    ASSUME NEW usage \in [input : Int, cached : Int, output : Int],
           NEW price \in [input : Nat, cached : Nat, output : Nat],
           NEW million \in Nat \ {0}
    PROVE  CostAgrees(usage, price, million)
<1> SUFFICES ASSUME Accounted(usage)
             PROVE  CostAgrees(usage, price, million)
  BY DEF CostAgrees
<1> DEFINE n == usage.input
           k == usage.cached
           p == price.input
           q == price.cached
           o == usage.output * price.output
           Total(rate) == n * rate + o
           mixed == (n - k) * p + k * q + o
           cost(rate) == EstimateCost([usage EXCEPT !.cached = 0],
                                      [price EXCEPT !.input = rate], million)
           c == EstimateCost(usage, price, million)
<1>1. n \in Nat /\ k \in Nat /\ k <= n /\ p \in Nat /\ q \in Nat /\ usage.output \in Nat
      /\ price.output \in Nat
  BY DEF Accounted
<1>2. o \in Nat
  BY <1>1
<1>3. \A rate \in Nat : Total(rate) \in Nat /\ cost(rate) = HalfUp(Total(rate), million)
  <2> TAKE rate \in Nat
  <2> DEFINE u == [usage EXCEPT !.cached = 0]
             v == [price EXCEPT !.input = rate]
  <2>1. /\ u.input = n /\ u.cached = 0 /\ u.output = usage.output
        /\ v.input = rate /\ v.output = price.output /\ v.cached = q
    OBVIOUS
  <2>2. (n - 0) * rate + 0 * q + o = Total(rate) /\ Total(rate) \in Nat
    BY <1>1, <1>2
  <2>3. cost(rate) = HalfUp((n - 0) * rate + 0 * q + o, million)
    <3> HIDE DEF u, v
    <3>1. EstimateCost(u, v, million) = HalfUp((n - 0) * rate + 0 * q + o, million)
      BY <2>1 DEF EstimateCost
    <3> QED BY <3>1 DEF u, v
  <2> QED BY <2>2, <2>3
<1>4. c = HalfUp(mixed, million)
  BY DEF EstimateCost
<1>s. ASSUME /\ c >= 0
             /\ \/ cost(p) <= c /\ c <= cost(q)
                \/ cost(q) <= c /\ c <= cost(p)
             /\ \A rate \in {p, q} : IsNearest(cost(rate), Total(rate), million)
      PROVE  CostAgrees(usage, price, million)
  BY <1>s, Zenon DEF CostAgrees
<1> HIDE DEF n, k, p, q, o, c, cost
<1>5. /\ mixed \in Int
      /\ \/ Total(p) <= mixed /\ mixed <= Total(q)
         \/ Total(q) <= mixed /\ mixed <= Total(p)
  <2>1. (n - k) * p \in Int /\ k * q \in Int /\ n * p \in Int /\ n * q \in Int
    BY <1>1
  <2>2. CASE p <= q
    <3>1. n * p <= (n - k) * p + k * q /\ (n - k) * p + k * q <= n * q
      BY <1>1, <2>2, MixLiesBetween
    <3> QED BY <1>2, <2>1, <3>1
  <2>3. CASE q <= p
    <3>1. n * q <= (n - k) * p + k * q /\ (n - k) * p + k * q <= n * p
      BY <1>1, <2>3, MixLiesBetween
    <3> QED BY <1>2, <2>1, <3>1
  <2> QED BY <1>1, <2>2, <2>3
<1> HIDE DEF mixed, Total
<1>t. Total(p) \in Nat /\ Total(q) \in Nat
  BY <1>1, <1>3, Zenon
<1>6. Total(p) \in Nat /\ Total(q) \in Nat /\ million \in Int /\ million > 0
  BY <1>t
<1>7. \/ cost(p) <= c /\ c <= cost(q)
      \/ cost(q) <= c /\ c <= cost(p)
  BY <1>1, <1>3, <1>4, <1>5, <1>6, HalfUpGrows
<1>8. c >= 0
  <2>1. mixed >= 0 /\ Magnitude(mixed) \in Nat
    BY <1>5, <1>6, MagnitudeFacts
  <2>2. Size(Magnitude(mixed), million) \in Nat
    BY <1>6, <2>1, SizeBounds
  <2> QED BY <1>4, <1>5, <1>6, <2>1, <2>2, HalfUpByPositive
<1>9. \A rate \in {p, q} : IsNearest(cost(rate), Total(rate), million)
  BY <1>1, <1>3, <1>6, HalfUpIsNearest
<1> QED BY <1>7, <1>8, <1>9, <1>s

=============================================================================
