------------------------------ MODULE MCEngine ------------------------------
(* Small instances of Engine for TLC: the tables and the statements. *)
EXTENDS Engine

Key(name) == ColumnDef(name, "INTEGER", TRUE)
Number(name) == ColumnDef(name, "INTEGER", FALSE)
Text(name) == ColumnDef(name, "TEXT", FALSE)

Int1(n) == IntegerLiteral(n)
Letters(n) == TextLiteral(SubSeq("aaaaaaaaaaaaaaaa", 1, n))

Col(name) == ColumnRef(Absent, name)
Of(table, name) == ColumnRef(table, name)
Num(n) == LiteralExpr(IntegerLiteral(n))

As(table, alias) == TableRef(table, alias)
Plain(table) == TableRef(table, Absent)
Join(table, on) == JoinClause(Plain(table), on)
Star(from, joins, where) == SelectStmt(TRUE, << >>, from, joins, where)
Pick(items, from, joins, where) == SelectStmt(FALSE, items, from, joins, where)

\* a(id, x), b(y, id) and c(id, x, z): the key first and second, a column
\* name in two tables, one column of type TEXT.
Creates ==
    { CreateTableStmt("a", <<Key("id"), Number("x")>>),
      CreateTableStmt("b", <<Number("y"), Key("id")>>),
      CreateTableStmt("c", <<Key("id"), Number("x"), Text("z")>>),
      CreateTableStmt("d", <<Number("id")>>) }

Inserts ==
    { InsertStmt("a", << >>, <<Int1(1), Int1(1)>>),
      InsertStmt("a", << >>, <<Int1(2), Int1(1)>>),
      InsertStmt("b", <<"id", "y">>, <<Int1(1), Int1(2)>>),
      InsertStmt("b", << >>, <<Int1(1), Int1(2)>>),
      InsertStmt("c", << >>, <<Int1(1), Int1(1), Letters(1)>>),
      InsertStmt("c", <<"z", "id", "x">>, <<Letters(2), Int1(2), Int1(1)>>),
      InsertStmt("c", << >>, <<Int1(1), Int1(1), Letters(16)>>),
      InsertStmt("b", <<"id", "id">>, <<Int1(1), Int1(2)>>) }

\* Conditions that join b and c to what comes before.
OnIds == Comparison("=", Of("a", "id"), Of("b", "id"))
OnB == { Comparison("=", Of("b", "y"), Of("a", "x")), OnIds }
OnC == { Comparison("=", Of("c", "x"), Of("a", "x")),
         Comparison("=", Of("b", "id"), Of("c", "id")),
         Comparison("!=", Of("c", "id"), Of("b", "y")),
         AndExpr(Comparison("=", Of("c", "x"), Of("a", "x")),
                 Comparison(">=", Of("c", "id"), Of("a", "id"))) }
Where == OrExpr(Comparison("<=", Of("a", "x"), Col("y")),
                Comparison(">", Of("a", "id"), Num(1)))
Items == <<SelectItem("c", "x", Absent), SelectItem(Absent, "y", "n"), SelectItem("a", "id", Absent)>>

Selects ==
    { Star(Plain("a"), <<Join("b", on_b), Join("c", on_c)>>, NoExpr) :
        on_b \in OnB, on_c \in OnC }
    \cup { Pick(Items, Plain("a"), <<Join("b", OnIds), Join("c", on_c)>>, Where) : on_c \in OnC }
    \cup
    { Star(Plain("c"), << >>, Comparison("=", Col("z"), LiteralExpr(Letters(1)))),
      Star(Plain("a"), <<Join("b", Comparison("=", Col("y"), Col("x")))>>, NoExpr),
      Star(Plain("a"), <<Join("b", Comparison("=", Of("b", "y"), Col("x")))>>, NoExpr),
      Star(As("a", "l"), <<JoinClause(As("a", "r"), Comparison("=", Of("l", "x"), Of("r", "x")))>>, NoExpr),
      Star(Plain("a"), <<Join("c", Comparison("=", Of("c", "z"), Of("a", "x")))>>, NoExpr),
      Star(Plain("a"), <<Join("c", Comparison("=", Of("c", "id"), Of("c", "x")))>>, NoExpr),
      Star(Plain("a"), <<Join("b", Comparison("=", Of("b", "y"), Of("c", "x"))), Join("c", Comparison("=", Of("c", "x"), Num(1)))>>, NoExpr),
      Star(Plain("a"), <<Join("c", Comparison("=", Col("x"), Num(1)))>>, NoExpr),
      Star(Plain("a"), <<Join("a", Comparison("=", Num(1), Num(1)))>>, NoExpr),
      Star(Plain("a"), << >>, Comparison("=", Col("x"), LiteralExpr(Letters(1)))) }

MCStatements == Creates \cup Inserts \cup Selects

-----------------------------------------------------------------------------

\* y is a column of b when the second ON is checked; e has one, too.
WrongColumn ==
    { CreateTableStmt("a", <<Key("id")>>),
      CreateTableStmt("b", <<Key("id"), Number("y")>>),
      CreateTableStmt("d", <<Key("id")>>),
      CreateTableStmt("e", <<Key("id"), Number("y")>>),
      InsertStmt("a", << >>, <<Int1(1)>>),
      InsertStmt("b", << >>, <<Int1(1), Int1(2)>>),
      InsertStmt("b", << >>, <<Int1(2), Int1(2)>>),
      InsertStmt("b", << >>, <<Int1(3), Int1(2)>>),
      InsertStmt("d", << >>, <<Int1(1)>>),
      InsertStmt("d", << >>, <<Int1(2)>>),
      InsertStmt("e", << >>, <<Int1(1), Int1(1)>>),
      Pick(<<SelectItem("b", "y", Absent), SelectItem("d", "id", Absent)>>, Plain("a"),
           <<Join("b", Comparison("=", Of("b", "id"), Of("a", "id"))),
             Join("d", Comparison("=", Col("y"), Of("d", "id"))),
             Join("e", Comparison("=", Of("e", "id"), Of("a", "id")))>>, NoExpr) }

\* A column equal to another of its table.
LateResolution ==
    { CreateTableStmt("a", <<Key("id"), Number("x")>>),
      InsertStmt("a", << >>, <<Int1(1), Int1(1)>>),
      InsertStmt("a", << >>, <<Int1(2), Int1(1)>>),
      Star(As("a", "l"),
           <<JoinClause(As("a", "r"), Comparison("=", Of("r", "id"), Of("r", "x")))>>, NoExpr) }
=============================================================================
