------------------------------ MODULE ExprEval ------------------------------
(***************************************************************************)
(* Rows on their way through the executor, and the evaluation of           *)
(* expressions on them (exec_row.cpp, expr_eval.cpp).                      *)
(*                                                                         *)
(* A row is a sequence of fields [table, column, value].  A value is its   *)
(* kind and a number: an INTEGER's own, or the length of a TEXT, which     *)
(* stands for the text: a longer one is greater.                           *)
(* What may throw returns a result: an error, or Ok with a value.          *)
(***************************************************************************)
EXTENDS Ast, FiniteSetsExt

Ok(value) == [error |-> "none", value |-> value]
Throw(error) == [error |-> error]
Failed(result) == result.error # "none"

\* LiteralToValue: the member that the kind selects.
LiteralToValue(literal) ==
    [kind |-> literal.kind,
     data |-> IF literal.kind = "INTEGER" THEN literal.int_value ELSE Len(literal.text_value)]

\* ExecRow::Find: the field of that table, or the only one of that name.
Find(row, table, column) ==
    LET found == {i \in 1 .. Len(row) :
                    row[i].column = column /\ table \in {Absent, row[i].table}}
    IN  IF found = {} \/ (table = Absent /\ Cardinality(found) > 1)
        THEN Throw("ColumnResolutionError")
        ELSE Ok(row[Min(found)].value)

EvalValue(expr, row) ==
    CASE expr.kind = "ColumnRef" -> Find(row, expr.table, expr.column)
      [] expr.kind = "Literal" -> Ok(LiteralToValue(expr.value))
      [] OTHER -> Throw("EvalError")

\* CompareValues: -1, 0 or 1, for two values of one kind.
CompareValues(a, b) ==
    IF a.kind # b.kind THEN Throw("EvalError")
    ELSE Ok(IF a.data < b.data THEN -1 ELSE IF a.data > b.data THEN 1 ELSE 0)

\* Whether op holds of two values that compare as c.
Holds(op, c) ==
    CASE op = "="  -> c = 0
      [] op = "!=" -> c # 0
      [] op = "<"  -> c < 0
      [] op = "<=" -> c <= 0
      [] op = ">"  -> c > 0
      [] op = ">=" -> c >= 0

\* The case of a comparison: both sides are evaluated, the left one first.
EvalComparison(expr, row) ==
    LET left  == EvalValue(expr.left, row)
        right == EvalValue(expr.right, row)
    IN  IF Failed(left) THEN left
        ELSE IF Failed(right) THEN right
        ELSE LET c == CompareValues(left.value, right.value)
             IN  IF Failed(c) THEN c ELSE Ok(Holds(expr.op, c.value))

\* AND and OR do not evaluate their right side when the left one decides.
RECURSIVE EvalBool(_, _)
EvalBool(expr, row) ==
    CASE expr.kind = "Comparison" -> EvalComparison(expr, row)
      [] expr.kind \in {"And", "Or"} ->
            LET left == EvalBool(expr.left, row)
            IN  IF Failed(left) \/ left.value = (expr.kind = "Or") THEN left
                ELSE EvalBool(expr.right, row)
      [] OTHER -> Throw("EvalError")
=============================================================================
