----------------------------- MODULE Calculation -----------------------------
(***************************************************************************)
(* The decimal calculator as an operator, and what it should compute.      *)
(*                                                                         *)
(* A decimal is an integer number of thousandths; where the code rounds to *)
(* the 50 digits of its context, the thousandth is the last digit kept.    *)
(***************************************************************************)
EXTENDS Finance
LOCAL INSTANCE Integers
LOCAL INSTANCE SequencesExt
LOCAL INSTANCE FiniteSetsExt

CONSTANTS MaxDepth, MaxNodes

-----------------------------------------------------------------------------
(* DecimalCalculator.  An expression has an operation, operands and perhaps *)
(* a scale or a comparator; a literal is an expression "literal".           *)

Literal(n)   == [operation |-> "literal", value |-> n]
IsLiteral(e) == e.operation = "literal"

Number(n)   == [type |-> "number", value |-> n]
Boolean(b)  == [type |-> "boolean", value |-> IF b THEN 1 ELSE 0]
Error(code) == [type |-> code, value |-> 0]
IsError(v)  == v.type \notin {"number", "boolean"}

Compared(a, b, comparator) ==
    CASE comparator = "eq"  -> a = b
      [] comparator = "ne"  -> a # b
      [] comparator = "gt"  -> a > b
      [] comparator = "gte" -> a >= b
      [] comparator = "lt"  -> a < b
      [] comparator = "lte" -> a <= b

\* The numbers of operands an operation takes.
Arity(operation, count) ==
    CASE operation \in {"compare", "subtract", "divide", "percent"} -> count = 2
      [] operation = "multiply"                                     -> count >= 2
      [] operation \in Rounding                                     -> count = 1
      [] operation \in {"sum", "max", "min"}                        -> count >= 1

\* _apply to the values of the operands.
Apply(e, values) ==
    LET n == [i \in DOMAIN values |-> values[i].value]
    IN  CASE (e.operation = "compare") # (e.comparator # "none") -> Error("INVALID_EXPRESSION")
          [] \E i \in DOMAIN values : values[i].type = "boolean" -> Error("INVALID_EXPRESSION")
          [] ~Arity(e.operation, Len(values)) -> Error("INVALID_EXPRESSION")
          [] OTHER ->
             CASE e.operation = "compare"  -> Boolean(Compared(n[1], n[2], e.comparator))
               [] e.operation = "sum"      -> Number(FoldLeft(LAMBDA a, b : a + b, 0, n))
               [] e.operation = "subtract" -> Number(n[1] - n[2])
               [] e.operation = "multiply" ->
                    Number(FoldLeft(LAMBDA a, b : HalfUp(a * b, Unit), Unit, n))
               [] e.operation = "divide"   -> IF n[2] = 0 THEN Error("DIVISION_BY_ZERO")
                                              ELSE Number(HalfUp(n[1] * Unit, n[2]))
               [] e.operation = "max"      -> Number(Max({n[i] : i \in DOMAIN n}))
               [] e.operation = "min"      -> Number(Min({n[i] : i \in DOMAIN n}))
               [] e.operation = "percent"  -> Number(HalfUp(n[1] * n[2], 100 * Unit))
               [] e.operation \in Rounding -> Quantize(e.operation, n[1], e.scale)

Step(e, inputs, result) == [operation |-> e.operation, scale |-> e.scale,
                            comparator |-> e.comparator, inputs |-> inputs, result |-> result]

\* _evaluate, with the node count, the trace and the values so far.
RECURSIVE Evaluate(_, _, _)

Operand(state, e, depth) ==
    IF state.error # "none" THEN state
    ELSE IF ~IsLiteral(e) THEN Evaluate(e, depth + 1, state)
    ELSE IF state.nodes + 1 > MaxNodes THEN [state EXCEPT !.error = "CALCULATION_LIMIT"]
    ELSE [state EXCEPT !.nodes = @ + 1, !.values = Append(@, Number(e.value))]

Evaluate(e, depth, state) ==
    IF depth > MaxDepth \/ state.nodes + 1 > MaxNodes
    THEN [state EXCEPT !.error = "CALCULATION_LIMIT"]
    ELSE LET after  == FoldLeft(LAMBDA s, operand : Operand(s, operand, depth),
                                [state EXCEPT !.nodes = @ + 1, !.values = <<>>], e.operands)
             result == Apply(e, after.values)
         IN  IF after.error # "none" THEN after
             ELSE IF IsError(result) THEN [after EXCEPT !.error = result.type]
             ELSE [after EXCEPT !.values = Append(state.values, result),
                                !.trace = Append(@, Step(e, after.values, result))]

Calculate(e) == Evaluate(e, 1, [nodes |-> 0, trace |-> <<>>, values |-> <<>>, error |-> "none"])

-----------------------------------------------------------------------------
(* What a calculation should be, from the calculations of the operands.    *)

RECURSIVE Size(_), Depth(_)

Size(e)  == IF IsLiteral(e) THEN 1
            ELSE 1 + MapThenSumSet(LAMBDA i : Size(e.operands[i]), DOMAIN e.operands)
Depth(e) == IF IsLiteral(e) THEN 0 ELSE 1 + Max({Depth(e.operands[i]) : i \in DOMAIN e.operands})

Value(e) == IF IsLiteral(e) THEN Number(e.value) ELSE Calculate(e).values[1]
Trace(e) == IF IsLiteral(e) THEN <<>> ELSE Calculate(e).trace
Fails(e) == ~IsLiteral(e) /\ Calculate(e).error # "none"

\* The differences between two numbers, of sign -1, 0 or 1, that a comparator is for.
Signs == [eq |-> {0}, ne |-> {-1, 1}, gt |-> {1}, gte |-> {0, 1}, lt |-> {-1}, lte |-> {-1, 0}]
Sign(n) == IF n = 0 THEN 0 ELSE n \div Magnitude(n)

\* r is what the operation makes of the numbers n, judged by what undoes it.
IsResult(e, n, r) ==
    /\ e.operation = "sum"      => r = MapThenSumSet(LAMBDA i : n[i], DOMAIN n)
    /\ e.operation = "subtract" => r + n[2] = n[1]
    /\ (e.operation = "multiply" /\ Len(n) = 2) => IsNearest(r, n[1] * n[2], Unit)
    /\ e.operation = "divide"   => n[2] # 0 /\ IsNearest(r, n[1] * Unit, n[2])
    /\ e.operation = "percent"  => IsNearest(r, n[1] * n[2], 100 * Unit)
    /\ e.operation \in {"max", "min"} => \E i \in DOMAIN n : r = n[i]
    /\ e.operation = "max"      => \A i \in DOMAIN n : n[i] <= r
    /\ e.operation = "min"      => \A i \in DOMAIN n : n[i] >= r
    /\ e.operation = "compare"  => (r = 1) = (Sign(n[1] - n[2]) \in Signs[e.comparator])
    /\ e.operation \in Rounding =>
          /\ IsRounded(e.operation, r, n[1], e.scale)
          /\ Magnitude(r) <= MaxCoefficient * Quantum(e.scale)

\* An operation that says something: as many operands as it needs, none of them a
\* truth value, and a comparator only to compare with.
Sensible(e) ==
    /\ (e.operation = "compare") = (e.comparator # "none")
    /\ \A i \in DOMAIN e.operands : e.operands[i].operation # "compare"
    /\ e.operation \in Rounding => Len(e.operands) = 1
    /\ Len(e.operands) = 1 => e.operation \in Rounding \cup {"sum", "max", "min"}
    /\ Len(e.operands) > 2 => e.operation \in {"sum", "max", "min", "multiply"}

\* Why an operation whose operands have values may fail.
MayFail(e, error) ==
    CASE error = "INVALID_EXPRESSION" -> ~Sensible(e)
      [] error = "DIVISION_BY_ZERO"   -> e.operation = "divide" /\ Value(e.operands[2]).value = 0
      [] error = "InvalidOperation"   ->
            /\ e.operation \in Rounding
            /\ Magnitude(Value(e.operands[1]).value) > MaxCoefficient * Quantum(e.scale)
      [] error = "CALCULATION_LIMIT"  -> FALSE

\* An expression has a result or says what is wrong with it: with its size, with an
\* operand, or with the operation itself, where only a number of too many digits to
\* be quantized may raise what is not a CalculationError.  The result is right for
\* the values of the operands, and the trace has their steps and then its own.
CalculationAgrees(e) ==
    LET c        == Calculate(e)
        operands == {e.operands[i] : i \in DOMAIN e.operands}
        values   == [i \in DOMAIN e.operands |-> Value(e.operands[i])]
        within   == Depth(e) <= MaxDepth /\ Size(e) <= MaxNodes
    IN  IF c.error = "none"
        THEN /\ within /\ c.nodes = Size(e)
             /\ Sensible(e) /\ \A operand \in operands : ~Fails(operand)
             /\ Len(c.values) = 1
             /\ (c.values[1].type = "boolean") = (e.operation = "compare")
             /\ IsResult(e, [i \in DOMAIN values |-> values[i].value], c.values[1].value)
             /\ c.trace = FlattenSeq([i \in DOMAIN e.operands |-> Trace(e.operands[i])])
                             \o <<Step(e, values, c.values[1])>>
        ELSE \/ c.error = "CALCULATION_LIMIT" /\ ~within
             \/ \E operand \in operands : Fails(operand) /\ Calculate(operand).error = c.error
             \/ (\A operand \in operands : ~Fails(operand)) /\ MayFail(e, c.error)
=============================================================================
