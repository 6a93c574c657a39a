------------------------------- MODULE Engine -------------------------------
(***************************************************************************)
(* Engine::ExecuteSQL from the parsed statement on (engine.cpp): semantic  *)
(* analysis, CREATE TABLE and INSERT on the catalog, and SELECT through    *)
(* the logical plan, the planner and the executor.                         *)
(*                                                                         *)
(* The catalog is seen as module Catalog leaves it between two calls.  Of  *)
(* a table it shows the columns, the row stored under each key, and the    *)
(* row count, the planner's only statistic, which is not always exact: an  *)
(* INSERT that replaces a row counts too, and one that is cut short        *)
(* between the row and the count does not.                                 *)
(*                                                                         *)
(* A SELECT is executed in the steps of the planner and of the iterators.  *)
(***************************************************************************)
EXTENDS Executor, Semantic, RowCodec

CONSTANTS
    Statements,             \* the statements that are tried
    MAX_CATALOG_TABLES,
    MAX_CATALOG_COLUMNS,
    VALUE_SIZE,
    MaxInserts,             \* bound on the number of rows inserted
    MaxInterrupted          \* bound on the number of INSERTs cut short

ASSUME EngineBoundsAssumption ==
    /\ {MAX_CATALOG_TABLES, MAX_CATALOG_COLUMNS, VALUE_SIZE} \subseteq Nat \ {0}
    /\ {MaxInserts, MaxInterrupted} \subseteq Nat

VARIABLES
    pc,                     \* "idle", or how far the SELECT is
    stmt,                   \* the SELECT under way
    result,                 \* QueryResult
    inserts, interrupted,   \* bounded counters
    written                 \* for each table and key, what was last inserted, by column name

query == <<planner, executor, pc, stmt, result>>
vars == <<tables, query, inserts, interrupted, written>>

NoStatement == [kind |-> "None"]
NoResult == [column_names |-> << >>, rows |-> << >>]
NoTables == << >>

Init ==
    /\ tables = NoTables
    /\ written = NoTables
    /\ PlannerInit
    /\ ExecutorInit
    /\ pc = "idle"
    /\ stmt = NoStatement
    /\ result = NoResult
    /\ inserts = 0
    /\ interrupted = 0

\* The schemas semantic analysis looks up.
Schemas == [t \in DOMAIN tables |-> tables[t].columns]

-----------------------------------------------------------------------------
(* CREATE TABLE and INSERT. *)

\* Catalog::CreateTable's checks.  (Every name here is short enough.)
CanCreate(name, columns) ==
    LET keys == {i \in 1 .. Len(columns) : columns[i].is_primary_key}
    IN  /\ name \notin DOMAIN tables
        /\ Len(columns) \in 1 .. MAX_CATALOG_COLUMNS
        /\ Cardinality(keys) = 1
        /\ \A i \in keys : columns[i].type = "INTEGER"
        /\ EncodedSize(columns) <= VALUE_SIZE
        /\ Cardinality(DOMAIN tables) < MAX_CATALOG_TABLES

ExecuteCreateTable(s) ==
    /\ pc = "idle"
    /\ s.kind = "CreateTable"
    /\ CanCreate(s.table_name, s.columns)
    /\ tables' = tables @@
           (s.table_name :> [columns |-> s.columns, rows |-> << >>, row_count |-> 0])
    /\ written' = written @@ (s.table_name :> << >>)
    /\ UNCHANGED <<query, inserts, interrupted>>

\* The values of an INSERT in the order of the table's columns: the order
\* they are written in, or the one the column list says.
InsertValues(s) ==
    LET columns == tables[s.table_name].columns
        place(i) == IF s.columns = << >> THEN i
                    ELSE CHOOSE j \in 1 .. Len(s.columns) :
                            ColumnIndex(columns, s.columns[j]) = i
    IN  [i \in 1 .. Len(columns) |-> LiteralToValue(s.values[place(i)])]

\* What Catalog::InsertRow and RowCodec::Encode demand of the values.
CanInsert(s) ==
    LET columns == tables[s.table_name].columns
        values  == InsertValues(s)
    IN  /\ values[PrimaryKeyIndex(columns)].kind = "INTEGER"
        /\ Encodable(columns, values)

\* BTree::Insert stores the row under its key, in place of one that is there;
\* BumpRowCount counts it.
StoreRow(s, counted) ==
    LET columns == tables[s.table_name].columns
        values  == InsertValues(s)
        key     == values[PrimaryKeyIndex(columns)].data
        names   == IF s.columns # << >> THEN s.columns
                   ELSE [i \in 1 .. Len(columns) |-> columns[i].name]
        by_name == [n \in Range(names) |->
                      LiteralToValue(s.values[CHOOSE i \in 1 .. Len(names) : names[i] = n])]
    IN  /\ tables' = [tables EXCEPT ![s.table_name].rows = (key :> values) @@ @,
                                      ![s.table_name].row_count = @ + counted]
        /\ written' = [written EXCEPT ![s.table_name] = (key :> by_name) @@ @]

Insertable(s) ==
    /\ pc = "idle"
    /\ s.kind = "Insert"
    /\ ValidateInsert(s, Schemas)
    /\ CanInsert(s)
    /\ inserts < MaxInserts
    /\ inserts' = inserts + 1

\* InsertRow stores the row and then counts it.
ExecuteInsert(s) ==
    /\ Insertable(s)
    /\ StoreRow(s, 1)
    /\ UNCHANGED <<query, interrupted>>

\* The buffer pool runs out of frames in a split, or the process dies and the
\* database is opened again, after the row is stored and before it is counted.
InsertInterrupted(s) ==
    /\ Insertable(s)
    /\ interrupted < MaxInterrupted
    /\ interrupted' = interrupted + 1
    /\ StoreRow(s, 0)
    /\ UNCHANGED query

\* SemanticError, CatalogError or RowEncodingError: nothing happens.
Refuse(s) ==
    /\ pc = "idle"
    /\ \/ ~ValidateStatement(s, Schemas)
       \/ s.kind = "CreateTable" /\ ~CanCreate(s.table_name, s.columns)
       \/ s.kind = "Insert" /\ ValidateInsert(s, Schemas) /\ ~CanInsert(s)
    /\ UNCHANGED vars

-----------------------------------------------------------------------------
(* SELECT. *)

\* ExtractEquiJoin: the columns of a condition that is one equality of two.
ExtractEquiJoin(condition) ==
    IF /\ condition.kind = "Comparison"
       /\ condition.op = "="
       /\ condition.left.kind = "ColumnRef"
       /\ condition.right.kind = "ColumnRef"
    THEN <<condition.left, condition.right>>
    ELSE << >>

\* CollectReferencedTables: the tables that are named as qualifiers.
ReferencedTables(condition) == {ref.table : ref \in ColumnRefsIn(condition)} \ {Absent}

\* BuildLogicalPlan and FlattenJoins: the tables with the conditions that
\* introduce them, the first one with none; EstimatedRowCount of each.
TableNodes(s) ==
    LET refs == TableRefs(s)
    IN  [i \in 1 .. Len(refs) |->
            LET condition == IF i = 1 THEN NoExpr ELSE s.joins[i - 1].on_condition
            IN  [table |-> refs[i].table, alias |-> AliasOf(refs[i]),
                 condition |-> condition,
                 refs |-> ReferencedTables(condition),
                 equi |-> ExtractEquiJoin(condition),
                 rows |-> tables[refs[i].table].row_count]]

data == <<tables, inserts, interrupted, written>>

BeginSelect(s) ==
    /\ pc = "idle"
    /\ s.kind = "Select"
    /\ ValidateSelect(s, Schemas)
    /\ StartPlan(TableNodes(s))
    /\ stmt' = s
    /\ pc' = "plan"
    /\ UNCHANGED <<data, executor, result>>

PlanJoin ==
    /\ pc = "plan"
    /\ JoinNext
    /\ UNCHANGED <<data, executor, pc, stmt, result>>

\* physical->Open().
OpenPlan ==
    /\ pc = "plan"
    /\ PlanComplete
    /\ iters' = [k \in 1 .. Len(plan) |-> NewIterator]
    /\ Pass(Len(plan), OpenCall)
    /\ pc' = "run"
    /\ UNCHANGED <<data, planner, error, stmt, result>>

\* A step inside physical->Open() or physical->Next().
RunPlan ==
    /\ pc = "run"
    /\ ExecutorStep
    /\ UNCHANGED <<data, planner, pc, stmt, result>>

\* Control is back in ExecuteSelect.
Back(kind) ==
    /\ pc = "run"
    /\ at = Len(plan) + 1
    /\ signal.kind = kind

\* Open() has returned: the first call of Next().
PullFirst ==
    /\ Back("opened")
    /\ Pass(Len(plan), NextCall)
    /\ UNCHANGED <<data, planner, iters, error, pc, stmt, result>>

\* The row joins the result; the first one also names the columns.
WithRow(row) ==
    [column_names |-> IF result.rows = << >> THEN [i \in 1 .. Len(row) |-> row[i].column]
                      ELSE result.column_names,
     rows |-> Append(result.rows, [i \in 1 .. Len(row) |-> row[i].value])]

\* The joins return a row: it is filtered, projected and added, and the next
\* one is pulled.
PullRow ==
    LET test == PassesFilter(stmt.where, signal.row)
        row  == Project(stmt, signal.row)
    IN  /\ Back("row")
        /\ signal.row # End
        /\ IF Failed(test) THEN Raise(test.error) /\ UNCHANGED result
           ELSE IF test.value /\ Failed(row) THEN Raise(row.error) /\ UNCHANGED result
           ELSE /\ result' = IF test.value THEN WithRow(row.value) ELSE result
                /\ Pass(Len(plan), NextCall)
                /\ UNCHANGED <<iters, error>>
        /\ UNCHANGED <<data, planner, pc, stmt>>

\* Seeded fault: the loop pulls on after the last row.
FinishSelectPullsOn ==
    /\ Back("row")
    /\ signal.row = End
    /\ Pass(Len(plan), NextCall)
    /\ UNCHANGED <<data, planner, iters, error, pc, stmt, result>>

\* There are no more rows: physical->Close().
FinishSelect ==
    /\ Back("row")
    /\ signal.row = End
    /\ iters' = << >>
    /\ Pass(0, NoSignal)
    /\ pc' = "done"
    /\ UNCHANGED <<data, planner, error, stmt, result>>

\* An exception leaves ExecuteSelect.
FailSelect ==
    /\ pc = "run"
    /\ error # "none"
    /\ result' = NoResult
    /\ pc' = "done"
    /\ UNCHANGED <<data, planner, executor, stmt>>

\* The caller gets the result or the exception.
Return ==
    /\ pc = "done"
    /\ DropPlan
    /\ stmt' = NoStatement
    /\ result' = NoResult
    /\ error' = "none"
    /\ pc' = "idle"
    /\ UNCHANGED <<data, iters, at, signal>>

SelectStep ==
    \/ PlanJoin
    \/ OpenPlan
    \/ RunPlan
    \/ PullFirst
    \/ PullRow
    \/ FinishSelect
    \/ FailSelect
    \/ Return

Next ==
    \/ \E s \in Statements :
          \/ ExecuteCreateTable(s)
          \/ ExecuteInsert(s)
          \/ InsertInterrupted(s)
          \/ Refuse(s)
          \/ BeginSelect(s)
    \/ SelectStep

Spec == Init /\ [][Next]_vars

\* Nothing else runs while a statement is executed.
FairSpec == Spec /\ WF_vars(SelectStep)
-----------------------------------------------------------------------------
(* What a SELECT means, by the rows that were inserted.  A combination     *)
(* takes the key of one row from each table of the query.                  *)

\* The table of the scope that semantic analysis finds for a reference.
Home(ref, scope) ==
    CHOOSE i \in 1 .. Len(scope) :
        IF ref.table = Absent THEN HasColumn(Schemas[scope[i].table], ref.column)
        ELSE AliasOf(scope[i]) = ref.table

Operand(expr, scope, combination) ==
    IF expr.kind = "Literal" THEN LiteralToValue(expr.value)
    ELSE LET i == Home(expr, scope)
         IN  written[scope[i].table][combination[i]][expr.column]

Compares(op, a, b) ==
    CASE op = "="  -> a = b
      [] op = "!=" -> a # b
      [] op = "<"  -> a < b
      [] op = "<=" -> a <= b
      [] op = ">"  -> a > b
      [] op = ">=" -> a >= b

\* The condition holds of the combination.
RECURSIVE Satisfies(_, _, _)
Satisfies(c, expr, scope) ==
    CASE expr.kind = "None" -> TRUE
      [] expr.kind = "Comparison" ->
            Compares(expr.op, Operand(expr.left, scope, c).data, Operand(expr.right, scope, c).data)
      [] expr.kind = "And" -> Satisfies(c, expr.left, scope) /\ Satisfies(c, expr.right, scope)
      [] expr.kind = "Or" -> Satisfies(c, expr.left, scope) \/ Satisfies(c, expr.right, scope)

Combinations(s) ==
    LET scope == TableRefs(s)
        keys(i) == DOMAIN written[scope[i].table]
    IN  {c \in [1 .. Len(scope) -> UNION {keys(i) : i \in 1 .. Len(scope)}] :
            \A i \in 1 .. Len(scope) : c[i] \in keys(i)}

\* The combinations the query asks for.
Selected(s) ==
    LET scope == TableRefs(s)
    IN  {c \in Combinations(s) :
            /\ \A i \in 2 .. Len(scope) :
                  Satisfies(c, s.joins[i - 1].on_condition, SubSeq(scope, 1, i))
            /\ Satisfies(c, s.where, scope)}

\* The columns of the answer: the SELECT list, or for * all of the tables',
\* these in the given order.
OutputColumns(s, order) ==
    LET scope == TableRefs(s)
        all(i) == [c \in 1 .. Len(Schemas[scope[i].table]) |->
                      SelectItem(AliasOf(scope[i]), Schemas[scope[i].table][c].name, Absent)]
    IN  IF ~s.is_star THEN s.select_items
        ELSE FlattenSeq([k \in 1 .. Len(order) |-> all(order[k])])

OutputName(item) == IF item.alias = Absent THEN item.column ELSE item.alias

OutputRow(combination, items, scope) ==
    [c \in 1 .. Len(items) |->
        LET i == Home(items[c], scope)
        IN  written[scope[i].table][combination[i]][items[c].column]]

\* The result has exactly the selected rows, each as often as it is selected.
Answers(s, order) ==
    LET items == OutputColumns(s, order)
        scope == TableRefs(s)
        selected == Selected(s)
        output == [c \in selected |-> OutputRow(c, items, scope)]
    IN  /\ Len(result.rows) = Cardinality(selected)
        /\ \A r \in Range(result.rows) :
              Cardinality({k \in 1 .. Len(result.rows) : result.rows[k] = r})
                = Cardinality({c \in selected : output[c] = r})
        /\ result.rows # << >> =>
              result.column_names = [c \in 1 .. Len(items) |-> OutputName(items[c])]

\* For some order of the tables, which only SELECT * shows.
RightAnswer(s) == \E order \in SetToSeqs(1 .. Len(TableRefs(s))) : Answers(s, order)

\* The type of an operand.
TypeOf(expr, scope) ==
    IF expr.kind = "Literal" THEN expr.value.kind
    ELSE LET columns == Schemas[scope[Home(expr, scope)].table]
         IN  columns[ColumnIndex(columns, expr.column)].type

\* No comparison has an INTEGER and a TEXT side.
RECURSIVE WellTypedExpr(_, _)
WellTypedExpr(expr, scope) ==
    CASE expr.kind = "Comparison" -> TypeOf(expr.left, scope) = TypeOf(expr.right, scope)
      [] expr.kind \in {"And", "Or"} ->
            WellTypedExpr(expr.left, scope) /\ WellTypedExpr(expr.right, scope)
      [] OTHER -> TRUE

WellTyped(s) ==
    LET scope == TableRefs(s)
    IN  /\ \A i \in 2 .. Len(scope) :
              WellTypedExpr(s.joins[i - 1].on_condition, SubSeq(scope, 1, i))
        /\ WellTypedExpr(s.where, scope)

\* No table declares a column twice, which CREATE TABLE does not refuse.
ColumnsAreDistinct ==
    \A t \in DOMAIN tables : \A i, j \in 1 .. Len(tables[t].columns) :
        tables[t].columns[i].name = tables[t].columns[j].name => i = j

\* The query does not rely on the order of its joins: with more than one join
\* the names in its ON conditions are qualified, and no ON condition is an
\* equality of two columns of the table that it introduces.
SaysWhatItMeans(s) ==
    LET scope == TableRefs(s)
    IN  \A i \in 2 .. Len(scope) :
            LET on   == s.joins[i - 1].on_condition
                equi == ExtractEquiJoin(on)
                home(ref) == Home(ref, SubSeq(scope, 1, i))
            IN  /\ Len(s.joins) > 1 => \A ref \in ColumnRefsIn(on) : ref.table # Absent
                /\ equi # << >> => home(equi[1]) # i \/ home(equi[2]) # i

-----------------------------------------------------------------------------
(* Properties. *)

\* A SELECT that semantic analysis accepts, of this kind, throws nothing and
\* returns exactly the rows it describes, as often as it describes them,
\* under the right column names, whatever plan the row counts led to: the
\* order of the joins, hash join or nested loop, the side that is built, a
\* count that is stale.
AnswerIsRight ==
    (pc = "done" /\ WellTyped(stmt) /\ ColumnsAreDistinct /\ SaysWhatItMeans(stmt)) =>
        error = "none" /\ RightAnswer(stmt)

\* A SELECT ends, with a result or an exception: the planner's loop consumes
\* the tables and every iterator runs dry.
SelectReturns == (pc # "idle") ~> (pc = "idle")

\* Semantic analysis rejects references that do not resolve "rather than
\* surfacing later as a ColumnResolutionError from deep inside the executor"
\* (docs/milestone-4.md).
NoLateResolution == error # "ColumnResolutionError"

\* The order of the joins is a matter of cost only: "correctness doesn't
\* depend on this choice" (physical_plan.cpp).
OrderKeepsTheAnswer ==
    (pc = "done" /\ error = "none" /\ WellTyped(stmt) /\ ColumnsAreDistinct) =>
        RightAnswer(stmt)
=============================================================================
