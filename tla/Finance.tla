------------------------------- MODULE Finance -------------------------------
(***************************************************************************)
(* The arithmetic that decides about money: the roundings of the decimal   *)
(* calculator, the rules of finance.py and the cost of an AI call, as      *)
(* operators, each with a definition of what it should give.               *)
(*                                                                         *)
(* A decimal is an integer number of thousandths; quantize fails on more   *)
(* than MaxCoefficient units.                                              *)
(***************************************************************************)
LOCAL INSTANCE Integers

CONSTANT MaxCoefficient

Unit == 1000

Magnitude(n) == IF n < 0 THEN -n ELSE n

\* n / d to an integer, ROUND_HALF_UP: halves go away from zero.
HalfUp(n, d) ==
    LET size == (2 * Magnitude(n) + Magnitude(d)) \div (2 * Magnitude(d))
    IN  IF (n < 0) = (d < 0) THEN size ELSE -size

\* What that is: an integer nearest to n / d and, of two, the larger in magnitude.
IsNearest(r, n, d) ==
    /\ 2 * Magnitude(r * d - n) <= Magnitude(d)
    /\ 2 * Magnitude(r * d - n) = Magnitude(d) => Magnitude(r * d) > Magnitude(n)

-----------------------------------------------------------------------------
(* quantize to a scale.                                                    *)

Rounding == {"round", "ceil", "floor"}

Quantum(scale) == CASE scale = 0 -> Unit [] scale = 1 -> 100

\* Mutant of Units: up and down both drop the digits.
UnitsTruncated(operation, n, scale) ==
    CASE operation = "round" -> HalfUp(n, Quantum(scale))
      [] n < 0               -> -((-n) \div Quantum(scale))
      [] OTHER               -> n \div Quantum(scale)

\* How many quanta there are in the result.
Units(operation, n, scale) ==
    CASE operation = "round" -> HalfUp(n, Quantum(scale))
      [] operation = "ceil"  -> -((-n) \div Quantum(scale))
      [] operation = "floor" -> n \div Quantum(scale)

Quantize(operation, n, scale) ==
    IF Magnitude(Units(operation, n, scale)) > MaxCoefficient
    THEN [type |-> "InvalidOperation", value |-> 0]
    ELSE [type |-> "number", value |-> Units(operation, n, scale) * Quantum(scale)]

\* A result is a multiple of the quantum: the next one above, the next below, or
\* the nearest.
IsRounded(operation, r, n, scale) ==
    LET q == Quantum(scale)
    IN  /\ r % q = 0
        /\ operation = "ceil"  => r >= n /\ r - n < q
        /\ operation = "floor" => r <= n /\ n - r < q
        /\ operation = "round" => IsNearest(r \div q, n, q)

\* quantize gives that, unless a number has more digits than the context.
RoundingAgrees(n, scale) ==
    \A operation \in Rounding :
       LET r       == Quantize(operation, n, scale)
           largest == MaxCoefficient * Quantum(scale)
       IN  IF r.type = "number"
           THEN IsRounded(operation, r.value, n, scale) /\ Magnitude(r.value) <= largest
           ELSE Magnitude(n) > largest

-----------------------------------------------------------------------------
(* finance.py.                                                             *)

\* evaluate_tolerance: the difference may be as large as the larger allowance;
\* both sides are in hundredths to keep percentages exact.
Tolerance(charged, expected, absolute, percent) ==
    LET difference == charged - expected
    IN  [rounded |-> HalfUp(difference, 10) * 10,
         within  |-> \/ Magnitude(difference) <= absolute
                     \/ 100 * Magnitude(difference) <= Magnitude(expected) * percent]

\* A credit note is judged as the invoice it reverses, what was expected is always
\* within, so is everything nearer than a charge that is, and the rounded
\* difference is the nearest cent.
ToleranceAgrees(charged, expected, absolute, percent) ==
    LET t == Tolerance(charged, expected, absolute, percent)
    IN  /\ Tolerance(-charged, -expected, absolute, percent)
             = [t EXCEPT !.rounded = -t.rounded]
        /\ Tolerance(expected, expected, absolute, percent).within
        /\ \A nearer \in expected - Magnitude(charged - expected) ..
                         expected + Magnitude(charged - expected) :
              t.within => Tolerance(nearer, expected, absolute, percent).within
        /\ IsNearest(t.rounded \div 10, charged - expected, 10)

Pending  == {"PENDING_MISSING_INFO", "PENDING_AMBIGUITY", "PENDING_NO_TARIFF"}
Statuses == Pending \cup {"CORRECT", "INCORRECT", "MANUAL_REVIEW", "ERROR"}

\* consolidate_statuses asks of a status only whether any document, or every
\* document, has it.
Consolidated(statuses) ==
    LET Counted(s) == \E i \in DOMAIN statuses : statuses[i] = s
    IN  IF DOMAIN statuses = {} THEN "NOT_AUDITABLE"
        ELSE IF Counted("INCORRECT") THEN "INCORRECT"
        ELSE IF \E s \in Pending : Counted(s) THEN "PENDING"
        ELSE IF Counted("ERROR") THEN "ERROR"
        ELSE IF Counted("MANUAL_REVIEW") THEN "MANUAL_REVIEW"
        ELSE IF \A i \in DOMAIN statuses : statuses[i] = "CORRECT" THEN "CORRECT"
        ELSE "MANUAL_REVIEW"

\* An invoice is as bad as the worst of its documents, in whatever order.
Badness(s) == CASE s = "CORRECT"                -> 1
                [] s = "MANUAL_REVIEW"          -> 2
                [] s = "ERROR"                  -> 3
                [] s \in Pending \cup {"PENDING"} -> 4
                [] s = "INCORRECT"              -> 5

ConsolidationAgrees(statuses) ==
    IF DOMAIN statuses = {} THEN Consolidated(statuses) = "NOT_AUDITABLE"
    ELSE /\ \A i \in DOMAIN statuses : Badness(statuses[i]) <= Badness(Consolidated(statuses))
         /\ \E i \in DOMAIN statuses : Badness(statuses[i]) = Badness(Consolidated(statuses))

\* gross_margin of one cost: the margin and its percentage, in units of 1/Unit; the
\* digits of the decimal context are taken to be enough for the quotient.
\* What may be missing is a sequence of at most one number.
Missing == <<>>

Margin(revenue, cost) ==
    LET margin == IF Missing \in {revenue, cost} THEN Missing ELSE <<revenue[1] - cost[1]>>
    IN  [margin  |-> margin,
         percent |-> IF margin = Missing \/ revenue[1] = 0 THEN Missing
                     ELSE <<HalfUp(margin[1] * 100 * Unit, revenue[1])>>]

\* The percentage is the nearest that gives the margin back, also of a negative
\* revenue, and there is none without a revenue to divide by.
MarginAgrees(revenue, cost) ==
    LET m == Margin(revenue, cost)
    IN  /\ (m.margin = Missing) = (Missing \in {revenue, cost})
        /\ (m.percent = Missing) = (m.margin = Missing \/ revenue[1] = 0)
        /\ m.percent # Missing =>
              IsNearest(m.percent[1], (revenue[1] - cost[1]) * 100 * Unit, revenue[1])

-----------------------------------------------------------------------------
(* What an AI call cost: tokens and prices, and how many of their products  *)
(* make the smallest amount that is stored.                                 *)

\* The accounting execute accepts of a provider.
Accounted(usage) ==
    /\ {usage.input, usage.cached, usage.output} \subseteq Nat
    /\ usage.cached <= usage.input

EstimateCost(usage, price, million) ==
    HalfUp((usage.input - usage.cached) * price.input + usage.cached * price.cached
              + usage.output * price.output, million)

\* Of a call whose accounting was accepted every token is paid once: the cost is
\* never below zero, and it lies between what it would be if all of the input were
\* charged at the one and at the other of its two prices.
CostAgrees(usage, price, million) ==
    LET Nearest(c, rate) ==
            IsNearest(c, usage.input * rate + usage.output * price.output, million)
        cost(rate) ==
            EstimateCost([usage EXCEPT !.cached = 0], [price EXCEPT !.input = rate], million)
        c          == EstimateCost(usage, price, million)
    IN  Accounted(usage) =>
           /\ c >= 0
           /\ \/ cost(price.input) <= c /\ c <= cost(price.cached)
              \/ cost(price.cached) <= c /\ c <= cost(price.input)
           /\ \A rate \in {price.input, price.cached} : Nearest(cost(rate), rate)
=============================================================================
