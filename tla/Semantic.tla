------------------------------ MODULE Semantic ------------------------------
(***************************************************************************)
(* Semantic analysis (semantic.cpp): which statements are let through to   *)
(* planning and execution.  schemas gives the column list of every table   *)
(* that exists.  Every refusal is a SemanticError, so that only whether    *)
(* there is one is modelled, not which check comes first.                  *)
(***************************************************************************)
EXTENDS Ast, FiniteSets

\* TableSchema::ColumnIndex is not -1.
HasColumn(columns, name) == \E i \in 1 .. Len(columns) : columns[i].name = name

\* TableSchema::ColumnIndex, for a column that is there: the first one.
ColumnIndex(columns, name) ==
    CHOOSE i \in 1 .. Len(columns) :
        /\ columns[i].name = name
        /\ \A j \in 1 .. i - 1 : columns[j].name # name

\* The column reference resolves to one of the tables in scope: to the one it
\* names, or else to the only one that has such a column.
Resolves(ref, scope, schemas) ==
    LET candidates == {i \in 1 .. Len(scope) : HasColumn(schemas[scope[i].table], ref.column)}
    IN  IF ref.table # Absent
        THEN \E i \in candidates : AliasOf(scope[i]) = ref.table
        ELSE Cardinality(candidates) = 1

\* ValidateColumnRefsIn.
ValidateColumnRefsIn(expr, scope, schemas) ==
    \A ref \in ColumnRefsIn(expr) : Resolves(ref, scope, schemas)

\* ValidateSelect: the tables exist, under different names; an ON condition
\* sees the tables up to its own, the select list and WHERE see them all.
ValidateSelect(stmt, schemas) ==
    LET refs == TableRefs(stmt)
        n    == Len(refs)
    IN  /\ \A i \in 1 .. n : refs[i].table \in DOMAIN schemas
        /\ \A i, j \in 1 .. n : i # j => AliasOf(refs[i]) # AliasOf(refs[j])
        /\ \A i \in 2 .. n :
              ValidateColumnRefsIn(stmt.joins[i - 1].on_condition, SubSeq(refs, 1, i), schemas)
        /\ \A i \in 1 .. Len(stmt.select_items) : Resolves(stmt.select_items[i], refs, schemas)
        /\ ValidateColumnRefsIn(stmt.where, refs, schemas)

\* ValidateInsert: a value for every column, and a column list, if there is
\* one, that names every column once.
ValidateInsert(stmt, schemas) ==
    /\ stmt.table_name \in DOMAIN schemas
    /\ LET columns == schemas[stmt.table_name]
       IN  /\ Len(stmt.values) = Len(columns)
           /\ stmt.columns # << >> =>
                 /\ Len(stmt.columns) = Len(columns)
                 /\ \A i \in 1 .. Len(stmt.columns) : HasColumn(columns, stmt.columns[i])
                 /\ \A i, j \in 1 .. Len(stmt.columns) :
                       i # j => stmt.columns[i] # stmt.columns[j]

\* ValidateStatement; CREATE TABLE is left to the catalog.
ValidateStatement(stmt, schemas) ==
    CASE stmt.kind = "CreateTable" -> TRUE
      [] stmt.kind = "Insert" -> ValidateInsert(stmt, schemas)
      [] stmt.kind = "Select" -> ValidateSelect(stmt, schemas)
=============================================================================
