----------------------------- MODULE Conditions -----------------------------
(***************************************************************************)
(* The predicates of a condition in a query, their translation to          *)
(* expressions of the query builder (internal/sqlq/translate.go), with and *)
(* without a NOT that stands in front of them, and what the database makes *)
(* of such an expression on a row, which gives every column its value.     *)
(***************************************************************************)
EXTENDS Integers, Sequences, FiniteSetsExt

CONSTANT Null  \* the value NULL

\* A predicate on a column; operands are values or, for a comparison, a column.
Predicate(cond, col, args) == [cond |-> cond, col |-> col, args |-> args]
ColumnOperand(col) == [kind |-> "column", col |-> col]

ComparisonOps == {"=", "!=", "<>", "<", "<=", ">", ">="}

negateOp(op) ==
  CASE op = "=" -> "!="
    [] op \in {"!=", "<>"} -> "="
    [] op = "<" -> ">="
    [] op = "<=" -> ">"
    [] op = ">" -> "<="
    [] op = ">=" -> "<"

\* The comparison the builder (goqu) emits for Eq, Neq, Lt, Lte, Gt and Gte: Eq and
\* Neq of NULL, TRUE or FALSE become tests with IS.
BuilderOp(op, operand) ==
  LET is == IF op = "=" THEN "IS" ELSE "IS NOT"
  IN  IF operand.kind \in {"null", "bool"} /\ op \in {"=", "!=", "<>"} THEN is
      ELSE IF op = "<>" THEN "!=" ELSE op

compareExpr(c, negate) ==
  [c EXCEPT !.cond = BuilderOp(IF negate THEN negateOp(c.cond) ELSE c.cond, c.args[1])]

Opposite(cond) ==
  CASE cond = "IN" -> "NOT IN"
    [] cond = "LIKE" -> "NOT LIKE"
    [] cond = "BETWEEN" -> "NOT BETWEEN"
    [] cond = "IS NULL" -> "IS NOT NULL"
    [] cond = "IS NOT NULL" -> "IS NULL"

\* Under a negation AND becomes OR, and OR becomes AND.
buildOp(op, negate) == IF (op = "AND") # negate THEN "AND" ELSE "OR"

\* The builder has no NOT: a predicate switches to its opposite.
buildPredicate(c, negate) ==
  IF c.cond \in ComparisonOps THEN compareExpr(c, negate)
  ELSE IF negate THEN [c EXCEPT !.cond = Opposite(@)] ELSE c

-----------------------------------------------------------------------------
(***************************************************************************)
(* What the database makes of it.                                          *)
(***************************************************************************)

\* Three-valued logic: 2 for true, 1 for unknown, 0 for false.
Truth(b) == IF b THEN 2 ELSE 0
And3(x, y) == Min({x, y})
Or3(x, y) == Max({x, y})
Not3(x) == 2 - x

Rel3(op, x, y) ==
  IF x = Null \/ y = Null THEN 1
  ELSE Truth(CASE op = "=" -> x = y
               [] op \in {"!=", "<>"} -> x # y
               [] op = "<" -> x < y
               [] op = "<=" -> x <= y
               [] op = ">" -> x > y
               [] op = ">=" -> x >= y)

Connect(op, x, y) == IF op = "AND" THEN And3(x, y) ELSE Or3(x, y)

Operand(a, row) == IF a.kind = "column" THEN row[a.col] ELSE a.go

PredicateValue(e, row) ==
  LET x == row[e.col]
      y(i) == Operand(e.args[i], row)
      each(op) == {Rel3(op, x, y(i)) : i \in DOMAIN e.args}
  IN  CASE e.cond \in ComparisonOps -> Rel3(e.cond, x, y(1))
        [] e.cond = "IS" -> Truth(x = y(1))
        [] e.cond = "IS NOT" -> Truth(x # y(1))
        [] e.cond = "IS NULL" -> Truth(x = Null)
        [] e.cond = "IS NOT NULL" -> Truth(x # Null)
        [] e.cond \in {"IN", "LIKE"} -> Max(each("="))
        [] e.cond \in {"NOT IN", "NOT LIKE"} -> Min(each("!="))
        [] e.cond = "BETWEEN" -> And3(Rel3(">=", x, y(1)), Rel3("<=", x, y(2)))
        [] e.cond = "NOT BETWEEN" -> Or3(Rel3("<", x, y(1)), Rel3(">", x, y(2)))
=============================================================================
