----------------------------- MODULE MCServices -----------------------------
(* Instances of Services and Operators for TLC.                            *)
EXTENDS Services, Operators, TLC

Literals == {[operation |-> "literal", value |-> n] : n \in {0, 500, -500, 2000}}

\* Expressions of an operation over one or two operands, with and without a
\* comparator.
Over(operations, operands) ==
    {[operation |-> o, operands |-> s, scale |-> scale, comparator |-> c] :
        o \in operations, s \in SeqsUpTo(operands, 2) \ {<<>>}, scale \in {0, 1}, c \in {"none", "gte", "lt", "ne"}}

Operations == {"sum", "subtract", "multiply", "divide", "max", "min", "percent", "round", "ceil",
               "floor", "compare"}

Flat   == Over(Operations, Literals)
Few    == {e \in Flat : /\ e.operation \in {"subtract", "divide", "compare", "round"}
                        /\ e.comparator = (IF e.operation = "compare" THEN "gte" ELSE "none")
                        /\ e.operands \in {<<e.operands[1]>>, <<e.operands[1], e.operands[1]>>}
                        /\ e.operands[1].value \in {0, 500}
                        /\ e.scale = 1}
Nested == {e \in Over({"sum", "divide", "compare"}, Few \cup Literals) :
              e.scale = 1 /\ (e.operation = "compare") = (e.comparator # "none")}

\* Also an expression nested too deep, around those with one operand.
MCFormulas == Flat \cup Nested \cup
    {[operation |-> "sum", operands |-> <<e>>, scale |-> 0, comparator |-> "none"] :
        e \in {n \in Nested : Len(n.operands) = 1}}

\* The services, or examples of the operators.
MCInit == Init /\ IF part = "operators" THEN Example ELSE NoExample

MCNext == Next /\ UNCHANGED example

MCSpec == MCInit /\ [][MCNext]_<<vars, example>>
=============================================================================
