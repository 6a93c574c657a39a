------------------------------- MODULE MCSql -------------------------------
(* Small instances of Parser for TLC: the texts. *)
EXTENDS Parser

MCLetters == {"a", "b", "c", "or"} \cup Keywords
MCToUpper == [word \in {"or"} |-> "OR"]

Whole(n) == IntegerLiteral(n)
Num(n) == LiteralExpr(Whole(n))
Col(name) == ColumnRef(Absent, name)
Of(table, name) == ColumnRef(table, name)
Eq(left, right) == Comparison("=", left, right)
Plain(table) == TableRef(table, Absent)

MCKnown ==
    { CreateTableStmt("a", <<ColumnDef("b", "INTEGER", TRUE), ColumnDef("c", "TEXT", FALSE)>>),
      CreateTableStmt("a", <<ColumnDef("b", "TEXT", FALSE)>>),
      InsertStmt("a", << >>, <<Whole(1), TextLiteral("b")>>),
      InsertStmt("a", <<"c", "b">>, <<TextLiteral("'"), Whole(20)>>),
      SelectStmt(TRUE, << >>, Plain("a"), << >>, NoExpr),
      SelectStmt(FALSE, <<SelectItem("a", "b", Absent), SelectItem(Absent, "c", "b")>>,
                 TableRef("a", "b"),
                 <<JoinClause(Plain("c"), Comparison("<=", Of("b", "a"), Col("c"))),
                   JoinClause(TableRef("a", "c"),
                              AndExpr(Eq(Col("a"), Num(1)), Eq(Col("b"), Of("c", "a"))))>>,
                 NoExpr),
      SelectStmt(TRUE, << >>, Plain("a"), <<JoinClause(Plain("c"), Eq(Col("a"), Col("b")))>>,
                 OrExpr(Comparison("!=", Num(1), Of("a", "b")), Comparison(">", Col("b"), Num(2)))) }

\* A lexeme as it is typed.
Typed(lexeme) ==
    CASE lexeme[1] = "INTEGER_LITERAL" -> IF lexeme[2] < 10 THEN <<ToString(lexeme[2])>>
                                          ELSE <<"2", "0">>
      [] lexeme[1] = "STRING_LITERAL" -> IF lexeme[2] = Quote THEN <<Quote, Quote, Quote, Quote>>
                                         ELSE <<Quote, lexeme[2], Quote>>
      [] lexeme[1] = "IDENTIFIER" -> <<lexeme[2]>>
      [] lexeme[1] = "<=" -> <<"<", "=">>
      [] lexeme[1] = "!=" -> <<"!", "=">>
      [] OTHER -> <<lexeme[1]>>

Text(lexemes, blank) == FlattenSeq([i \in 1 .. Len(lexemes) |-> Typed(lexemes[i]) \o <<blank>>])

\* The known statements as they are, and with one token dropped, doubled or
\* replaced by another.
Edits(lexemes) ==
    UNION { { SubSeq(lexemes, 1, i - 1) \o middle \o SubSeq(lexemes, i + 1, Len(lexemes)) :
                middle \in { << >>, <<lexemes[i], lexemes[i]>>, <<Sign(")")>>, <<Sign("AS")>>, <<Name("b")>>,
                             <<Sign(",")>>, <<Sign("OR")>> } } :
            i \in 1 .. Len(lexemes) }

Edited == {Text(lexemes, " ") : lexemes \in UNION {Edits(Spelling(s)) : s \in MCKnown}}
Complete ==
    {Text(Spelling(s) \o ends, blank) :
        s \in MCKnown, ends \in {<< >>, <<Sign(";")>>}, blank \in {"\n", "\r", "\f"}}

\* Three comparisons under AND and OR, with parentheses before and after
\* each, matching or not.
Parenthesised ==
    LET some(n, sign) == [i \in 1 .. n |-> sign]
    IN  { <<"SELECT", "*", "FROM", " ", "a", " ", "WHERE">>
          \o some(o1, "(") \o <<"1", "<", "b", " ">> \o some(c1, ")") \o <<op1, " ">>
          \o some(o2, "(") \o <<"2", "<", "b">> \o some(c2, ")") \o <<"\n", op2, " ">>
          \o some(o3, "(") \o <<"3", "<", "b">> \o some(c3, ")") :
            o1 \in 0 .. 2, o2 \in 0 .. 1, o3 \in 0 .. 1, c1 \in 0 .. 1, c2 \in 0 .. 1, c3 \in 0 .. 2,
            op1 \in {"AND", "OR"}, op2 \in {"AND", "or"} }

\* Every short text over a few characters.
Short ==
    UNION {[1 .. n -> {"a", "or", "1", Quote, "\n", "<", "=", "!", "?"}] : n \in 0 .. 4}

MCSources == Edited \cup Complete \cup Parenthesised \cup Short
=============================================================================
