-------------------------------- MODULE Ast --------------------------------
(***************************************************************************)
(* The syntax trees the parser builds and the engine executes (ast.h).     *)
(*                                                                         *)
(* Names are strings.  Of an optional name the empty string says that it   *)
(* is absent: no identifier is empty.                                      *)
(***************************************************************************)
EXTENDS Integers, Sequences

Absent == ""

\* Literal; the member its kind does not use keeps its default.
IntegerLiteral(n) == [kind |-> "INTEGER", int_value |-> n, text_value |-> ""]
TextLiteral(t) == [kind |-> "TEXT", int_value |-> 0, text_value |-> t]

\* Expr.
ColumnRef(table, column) == [kind |-> "ColumnRef", table |-> table, column |-> column]
LiteralExpr(literal) == [kind |-> "Literal", value |-> literal]
Comparison(op, left, right) ==
    [kind |-> "Comparison", op |-> op, left |-> left, right |-> right]
AndExpr(left, right) == [kind |-> "And", left |-> left, right |-> right]
OrExpr(left, right) == [kind |-> "Or", left |-> left, right |-> right]

\* A WHERE clause that is not there (a null pointer).
NoExpr == [kind |-> "None"]

ComparisonOps == {"=", "!=", "<", "<=", ">", ">="}

ColumnDef(name, type, is_primary_key) ==
    [name |-> name, type |-> type, is_primary_key |-> is_primary_key]
TableRef(table, alias) == [table |-> table, alias |-> alias]
JoinClause(table, on_condition) == [table |-> table, on_condition |-> on_condition]
SelectItem(table, column, alias) == [table |-> table, column |-> column, alias |-> alias]

\* Statement.
CreateTableStmt(table_name, columns) ==
    [kind |-> "CreateTable", table_name |-> table_name, columns |-> columns]
InsertStmt(table_name, columns, values) ==
    [kind |-> "Insert", table_name |-> table_name, columns |-> columns, values |-> values]
SelectStmt(is_star, select_items, from, joins, where) ==
    [kind |-> "Select", is_star |-> is_star, select_items |-> select_items,
     from |-> from, joins |-> joins, where |-> where]

\* The name a table is known by in a query: its alias, or its own.
AliasOf(ref) == IF ref.alias = Absent THEN ref.table ELSE ref.alias

\* The tables of a query in the order they are written.
TableRefs(stmt) == <<stmt.from>> \o [i \in 1 .. Len(stmt.joins) |-> stmt.joins[i].table]

\* The column references in an expression.
RECURSIVE ColumnRefsIn(_)
ColumnRefsIn(expr) ==
    CASE expr.kind = "ColumnRef" -> {expr}
      [] expr.kind \in {"Comparison", "And", "Or"} ->
            ColumnRefsIn(expr.left) \cup ColumnRefsIn(expr.right)
      [] OTHER -> {}
=============================================================================
