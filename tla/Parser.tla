------------------------------- MODULE Parser -------------------------------
(***************************************************************************)
(* Parser::ParseStatement and ParseSQL: the tokens become one statement    *)
(* (parser.cpp, ast.h).                                                    *)
(*                                                                         *)
(* Each method of the recursive descent, or each round of its loop, is an  *)
(* action; rule is the grammar rule that is next.  A method expects its    *)
(* tokens from left to right, and the alternatives it can take are told    *)
(* apart by one token, so an action compares the tokens with the list it   *)
(* expects and the first one that differs is the one reported.             *)
(***************************************************************************)
EXTENDS Lexer, Ast

CONSTANTS
    Known                   \* some statements there are, whose texts the parser must accept

VARIABLES
    index,                  \* pos_ of the parser, from 1
    rule,                   \* the method that reads on
    stmt,                   \* the statement so far
    calls,                  \* the ParseExpr calls in progress, the innermost last
    parse_error             \* the ParseError thrown, or NoError

parser == <<index, rule, stmt, calls, parse_error>>
sql == <<lexer, parser>>

\* Peek(offset), which stays at END_OF_INPUT.
TokenAt(offset) == tokens[Min({index + offset, Len(tokens)})]
Check(offset, type) == TokenAt(offset).type = type

Optional(cond, types) == IF cond THEN types ELSE << >>

\* Advance past n tokens, END_OF_INPUT never, to the next rule with the
\* statement as it is then.
Accept(n, then, s) ==
    /\ index' = Min({index + n, Len(tokens)})
    /\ rule' = then
    /\ stmt' = s
    /\ UNCHANGED parse_error

Error(token) ==
    /\ parse_error' = [kind |-> "syntax", line |-> token.line, column |-> token.column]
    /\ rule' = "error"
    /\ UNCHANGED <<index, stmt>>

\* Seeded fault: the token is advanced over before it is reported.
ExpectAfterAdvance(types, then, s) ==
    LET wrong == {k \in 1 .. Len(types) : ~ Check(k - 1, types[k])}
    IN  \/ wrong = {} /\ Accept(Len(types), then, s)
        \/ wrong # {} /\ Error(TokenAt(Min(wrong)))

\* Expect, for a list of tokens: the first that is wrong is reported.
Expect(types, then, s) ==
    LET wrong == {k \in 1 .. Len(types) : ~ Check(k - 1, types[k])}
    IN  \/ wrong = {} /\ Accept(Len(types), then, s)
        \/ wrong # {} /\ Error(TokenAt(Min(wrong) - 1))

Reading(r) == rule = r /\ UNCHANGED lexer

\* The switch of ParseStatement.
StartStatement ==
    /\ Reading("statement")
    /\ mode = "end"
    /\ lex_error = NoError
    /\ UNCHANGED calls
    /\ LET columns == Check(3, "(")
           star    == Check(1, "*")
       IN  CASE Check(0, "CREATE") ->
                    Expect(<<"CREATE", "TABLE", "IDENTIFIER", "(">>, "column_def",
                           CreateTableStmt(TokenAt(2).text, << >>))
             [] Check(0, "INSERT") ->
                    Expect(<<"INSERT", "INTO", "IDENTIFIER">>
                               \o (IF columns THEN <<"(">> ELSE <<"VALUES", "(">>),
                           IF columns THEN "column" ELSE "literal",
                           InsertStmt(TokenAt(2).text, << >>, << >>))
             [] Check(0, "SELECT") ->
                    Expect(<<"SELECT">> \o Optional(star, <<"*", "FROM">>),
                           IF star THEN "from" ELSE "select_item",
                           SelectStmt(star, << >>, TableRef(Absent, Absent), << >>, NoExpr))
             [] OTHER -> Error(TokenAt(0))

\* One column of CREATE TABLE and the ',' or ')' after it; ParseTypeName.
ParseColumnDef ==
    /\ Reading("column_def")
    /\ UNCHANGED calls
    /\ LET type == IF Check(1, "TEXT") THEN "TEXT" ELSE "INTEGER"
           key  == Check(2, "PRIMARY")
           more == Check(IF key THEN 4 ELSE 2, ",")
       IN  Expect(<<"IDENTIFIER", type>> \o Optional(key, <<"PRIMARY", "KEY">>)
                      \o <<IF more THEN "," ELSE ")">>,
                  IF more THEN "column_def" ELSE "end",
                  [stmt EXCEPT !.columns = Append(@, ColumnDef(TokenAt(0).text, type, key))])

\* One name of INSERT's column list, and VALUES after the last.
ParseColumnName ==
    /\ Reading("column")
    /\ UNCHANGED calls
    /\ LET more == Check(1, ",")
       IN  Expect(<<"IDENTIFIER">> \o (IF more THEN <<",">> ELSE <<")", "VALUES", "(">>),
                  IF more THEN "column" ELSE "literal",
                  [stmt EXCEPT !.columns = Append(@, TokenAt(0).text)])

LiteralType(offset) == IF Check(offset, "STRING_LITERAL") THEN "STRING_LITERAL" ELSE "INTEGER_LITERAL"
LiteralAt(offset) ==
    IF Check(offset, "STRING_LITERAL") THEN TextLiteral(TokenAt(offset).string_value)
    ELSE IntegerLiteral(TokenAt(offset).int_value)

ParseLiteral ==
    /\ Reading("literal")
    /\ UNCHANGED calls
    /\ LET more == Check(1, ",")
       IN  Expect(<<LiteralType(0), IF more THEN "," ELSE ")">>,
                  IF more THEN "literal" ELSE "end",
                  [stmt EXCEPT !.values = Append(@, LiteralAt(0))])

\* [table .] column [AS alias], and the ',' or FROM after it.
ParseSelectItem ==
    /\ Reading("select_item")
    /\ UNCHANGED calls
    /\ LET dot   == Check(1, ".")
           named == IF dot THEN 3 ELSE 1
           as    == Check(named, "AS")
           more  == Check(IF as THEN named + 2 ELSE named, ",")
       IN  Expect(<<"IDENTIFIER">> \o Optional(dot, <<".", "IDENTIFIER">>)
                      \o Optional(as, <<"AS", "IDENTIFIER">>) \o <<IF more THEN "," ELSE "FROM">>,
                  IF more THEN "select_item" ELSE "from",
                  [stmt EXCEPT !.select_items =
                      Append(@, SelectItem(IF dot THEN TokenAt(0).text ELSE Absent,
                                           TokenAt(named - 1).text,
                                           IF as THEN TokenAt(named + 1).text ELSE Absent))])

\* table [AS alias], from the offset on.
TableRefTypes(offset) == <<"IDENTIFIER">> \o Optional(Check(offset + 1, "AS"), <<"AS", "IDENTIFIER">>)
TableRefAt(offset) ==
    TableRef(TokenAt(offset).text,
             IF Check(offset + 1, "AS") THEN TokenAt(offset + 2).text ELSE Absent)

ParseTableRef ==
    /\ Reading("from")
    /\ UNCHANGED calls
    /\ Expect(TableRefTypes(0), "joins", [stmt EXCEPT !.from = TableRefAt(0)])

\* No operand yet on either level of a ParseExpr call.
NewCall == [or |-> NoExpr, and |-> NoExpr]

\* ParseSelect after its FROM: JOIN ... ON and WHERE read an expression.
ParseJoinClause ==
    /\ Reading("joins")
    /\ Check(0, "JOIN")
    /\ calls' = <<NewCall>>
    /\ Expect(<<"JOIN">> \o TableRefTypes(1) \o <<"ON">>, "primary",
              [stmt EXCEPT !.joins = Append(@, JoinClause(TableRefAt(1), NoExpr))])

ParseWhere ==
    /\ Reading("joins")
    /\ ~ Check(0, "JOIN")
    /\ LET where == Check(0, "WHERE")
       IN  /\ calls' = IF where THEN <<NewCall>> ELSE << >>
           /\ Accept(IF where THEN 1 ELSE 0, IF where THEN "primary" ELSE "end", stmt)

-----------------------------------------------------------------------------

\* Seeded fault: AND and OR bind alike.
OperandInOrder(call, expr) ==
    IF call.or # NoExpr /\ call.and = NoExpr
    THEN [or |-> NoExpr, and |-> OrExpr(call.or, expr)]
    ELSE [call EXCEPT !.and = IF @ = NoExpr THEN expr ELSE AndExpr(@, expr)]

\* A primary expression is the first operand of AND, or joins the others.
Operand(call, expr) == [call EXCEPT !.and = IF @ = NoExpr THEN expr ELSE AndExpr(@, expr)]

\* The operand of OR is complete.
Alternative(call) ==
    [or |-> IF call.or = NoExpr THEN call.and ELSE OrExpr(call.or, call.and), and |-> NoExpr]

Innermost == calls[Len(calls)]
Caller == Front(calls)

\* ParsePrimaryExpr with a '(': another ParseExpr begins.
OpenParenthesis ==
    /\ Reading("primary")
    /\ Check(0, "(")
    /\ calls' = Append(calls, NewCall)
    /\ Accept(1, "primary", stmt)

\* ParseValue: a column or a literal, its tokens from the offset on.
ValueTypes(offset) ==
    IF Check(offset, "IDENTIFIER")
    THEN <<"IDENTIFIER">> \o Optional(Check(offset + 1, "."), <<".", "IDENTIFIER">>)
    ELSE <<LiteralType(offset)>>

\* Seeded fault: the table of a qualified column is forgotten.
ValueWithoutTable(offset) ==
    IF ~ Check(offset, "IDENTIFIER") THEN LiteralExpr(LiteralAt(offset))
    ELSE IF Check(offset + 1, ".") THEN ColumnRef(Absent, TokenAt(offset + 2).text)
    ELSE ColumnRef(Absent, TokenAt(offset).text)

ValueAt(offset) ==
    IF ~ Check(offset, "IDENTIFIER") THEN LiteralExpr(LiteralAt(offset))
    ELSE IF Check(offset + 1, ".") THEN ColumnRef(TokenAt(offset).text, TokenAt(offset + 2).text)
    ELSE ColumnRef(Absent, TokenAt(offset).text)

\* An operator, or what any other token is not.
OperatorType(offset) == IF TokenAt(offset).type \in ComparisonOps THEN TokenAt(offset).type ELSE "="

ParseComparison ==
    /\ Reading("primary")
    /\ ~ Check(0, "(")
    /\ LET n  == Len(ValueTypes(0))
           op == OperatorType(n)
       IN  /\ calls' = Append(Caller, Operand(Innermost, Comparison(op, ValueAt(0), ValueAt(n + 1))))
           /\ Expect(ValueTypes(0) \o <<op>> \o ValueTypes(n + 1), "operator", stmt)

\* The loops of ParseAndExpr and ParseExpr.
ParseAnd ==
    /\ Reading("operator")
    /\ Check(0, "AND")
    /\ UNCHANGED calls
    /\ Accept(1, "primary", stmt)

ParseOr ==
    /\ Reading("operator")
    /\ Check(0, "OR")
    /\ calls' = Append(Caller, Alternative(Innermost))
    /\ Accept(1, "primary", stmt)

\* ParseExpr returns to ParsePrimaryExpr, which expects a ')',
CloseParenthesis ==
    /\ Reading("operator")
    /\ TokenAt(0).type \notin {"AND", "OR"}
    /\ Len(calls) > 1
    /\ calls' = Append(Front(Caller), Operand(Last(Caller), Alternative(Innermost).or))
    /\ Expect(<<")">>, "operator", stmt)

\* or to the clause it is the condition of.
EndExpression ==
    /\ Reading("operator")
    /\ TokenAt(0).type \notin {"AND", "OR"}
    /\ Len(calls) = 1
    /\ LET expr  == Alternative(Innermost).or
           joins == stmt.joins
           open  == joins # << >> /\ Last(joins).on_condition = NoExpr
       IN  IF open
           THEN Accept(0, "joins", [stmt EXCEPT !.joins[Len(joins)].on_condition = expr])
           ELSE Accept(0, "end", [stmt EXCEPT !.where = expr])
    /\ calls' = << >>

-----------------------------------------------------------------------------

\* The end of ParseStatement: an optional ';', and nothing else.
EndStatement ==
    /\ Reading("end")
    /\ UNCHANGED calls
    /\ Expect(Optional(Check(0, ";"), <<";">>) \o <<"END_OF_INPUT">>, "done", stmt)

ParseStatement ==
    \/ StartStatement
    \/ ParseColumnDef
    \/ ParseColumnName
    \/ ParseLiteral
    \/ ParseSelectItem
    \/ ParseTableRef
    \/ ParseJoinClause
    \/ ParseWhere
    \/ OpenParenthesis
    \/ ParseComparison
    \/ ParseAnd
    \/ ParseOr
    \/ CloseParenthesis
    \/ EndExpression
    \/ EndStatement

\* ParseSQL: the tokens first, all of them.
ParserInit ==
    /\ index = 1
    /\ rule = "statement"
    /\ stmt = NoExpr
    /\ calls = << >>
    /\ parse_error = NoError

Init == LexerInit /\ ParserInit

Next ==
    \/ Tokenize /\ UNCHANGED parser
    \/ ParseStatement

Spec == Init /\ [][Next]_sql

\* ParseSQL is one call, which runs until it returns or throws.
FairSpec == Spec /\ WF_sql(Next)

-----------------------------------------------------------------------------
(* What a statement is written as: its tokens, an expression's without parentheses. *)

Sign(type) == <<type, "">>
Name(name) == <<"IDENTIFIER", name>>

LexemeOf(token) ==
    <<token.type, CASE token.type = "IDENTIFIER" -> token.text
                    [] token.type = "INTEGER_LITERAL" -> token.int_value
                    [] token.type = "STRING_LITERAL" -> token.string_value
                    [] OTHER -> "">>

Present(name, before, after) == IF name = Absent THEN << >> ELSE before \o <<Name(name)>> \o after

Separated(parts) ==
    FlattenSeq([i \in 1 .. Len(parts) |-> Optional(i > 1, <<Sign(",")>>) \o parts[i]])

SpellLiteral(literal) ==
    IF literal.kind = "INTEGER" THEN <<"INTEGER_LITERAL", literal.int_value>>
    ELSE <<"STRING_LITERAL", literal.text_value>>

RECURSIVE SpellExpr(_)
SpellExpr(expr) ==
    CASE expr.kind = "ColumnRef" -> Present(expr.table, << >>, <<Sign(".")>>) \o <<Name(expr.column)>>
      [] expr.kind = "Literal" -> <<SpellLiteral(expr.value)>>
      [] OTHER -> SpellExpr(expr.left)
                     \o <<Sign(CASE expr.kind = "And" -> "AND"
                                 [] expr.kind = "Or" -> "OR"
                                 [] OTHER -> expr.op)>>
                     \o SpellExpr(expr.right)

SpellTableRef(ref) == <<Name(ref.table)>> \o Present(ref.alias, <<Sign("AS")>>, << >>)

Spelling(s) ==
    CASE s.kind = "CreateTable" ->
            <<Sign("CREATE"), Sign("TABLE"), Name(s.table_name), Sign("(")>>
            \o Separated([i \in 1 .. Len(s.columns) |->
                    <<Name(s.columns[i].name), Sign(s.columns[i].type)>>
                    \o Optional(s.columns[i].is_primary_key, <<Sign("PRIMARY"), Sign("KEY")>>)])
            \o <<Sign(")")>>
      [] s.kind = "Insert" ->
            <<Sign("INSERT"), Sign("INTO"), Name(s.table_name)>>
            \o Optional(s.columns # << >>,
                    <<Sign("(")>> \o Separated([i \in 1 .. Len(s.columns) |-> <<Name(s.columns[i])>>])
                    \o <<Sign(")")>>)
            \o <<Sign("VALUES"), Sign("(")>>
            \o Separated([i \in 1 .. Len(s.values) |-> <<SpellLiteral(s.values[i])>>])
            \o <<Sign(")")>>
      [] s.kind = "Select" ->
            <<Sign("SELECT")>> \o Optional(s.is_star, <<Sign("*")>>)
            \o Separated([i \in 1 .. Len(s.select_items) |->
                    LET item == s.select_items[i]
                    IN  Present(item.table, << >>, <<Sign(".")>>) \o <<Name(item.column)>>
                        \o Present(item.alias, <<Sign("AS")>>, << >>)])
            \o <<Sign("FROM")>> \o SpellTableRef(s.from)
            \o FlattenSeq([i \in 1 .. Len(s.joins) |->
                    <<Sign("JOIN")>> \o SpellTableRef(s.joins[i].table)
                    \o <<Sign("ON")>> \o SpellExpr(s.joins[i].on_condition)])
            \o (IF s.where = NoExpr THEN << >> ELSE <<Sign("WHERE")>> \o SpellExpr(s.where))

\* The tokens of an accepted text that are neither its end nor parentheses
\* around expressions.
Meaningful ==
    LET ignored == {";", "END_OF_INPUT"} \cup (IF stmt.kind = "Select" THEN {"(", ")"} ELSE {})
        kept    == SelectSeq(tokens, LAMBDA t : t.type \notin ignored)
    IN  [i \in 1 .. Len(kept) |-> LexemeOf(kept[i])]

\* A statement that is accepted says all that its text says, in the order of
\* the text, and no more: no qualifier, alias, column, value or condition is
\* lost, doubled or attributed to another clause.
NothingIsLost == rule = "done" => Spelling(stmt) = Meaningful

-----------------------------------------------------------------------------
(* What tokens i to j mean as an expression, by where the operators stand. *)

Depth(i, k) ==
    Cardinality({l \in i .. k - 1 : tokens[l].type = "("})
    - Cardinality({l \in i .. k - 1 : tokens[l].type = ")"})

Outermost(type, i, j) == {k \in i .. j : tokens[k].type = type /\ Depth(i, k) = 0}

MeaningOfValue(i, j) ==
    CASE tokens[i].type = "INTEGER_LITERAL" -> LiteralExpr(IntegerLiteral(tokens[i].int_value))
      [] tokens[i].type = "STRING_LITERAL" -> LiteralExpr(TextLiteral(tokens[i].string_value))
      [] OTHER -> ColumnRef(IF i = j THEN Absent ELSE tokens[i].text, tokens[j].text)

\* The last OR outside parentheses is the outermost operator; AND binds tighter.
RECURSIVE Meaning(_, _)
Meaning(i, j) ==
    LET ors  == Outermost("OR", i, j)
        ands == Outermost("AND", i, j)
        op   == CHOOSE k \in i .. j : tokens[k].type \in ComparisonOps
    IN  CASE ors # {} -> OrExpr(Meaning(i, Max(ors) - 1), Meaning(Max(ors) + 1, j))
          [] ors = {} /\ ands # {} -> AndExpr(Meaning(i, Max(ands) - 1), Meaning(Max(ands) + 1, j))
          [] ors \cup ands = {} /\ tokens[i].type = "(" -> Meaning(i + 1, j - 1)
          [] OTHER -> Comparison(tokens[op].type, MeaningOfValue(i, op - 1), MeaningOfValue(op + 1, j))

\* The conditions of a query, each after its ON or WHERE.
Conditions ==
    LET begins == SetToSortSeq({k \in 1 .. Len(tokens) : tokens[k].type \in {"ON", "WHERE"}}, <)
        end(k) == Min({l \in k .. Len(tokens) : tokens[l].type \in {"JOIN", "WHERE", ";", "END_OF_INPUT"} /\ l > k})
    IN  [c \in 1 .. Len(begins) |-> Meaning(begins[c] + 1, end(begins[c]) - 1)]

\* AND binds tighter than OR, both group from the left, and parentheses
\* override this, at any depth and in every clause.
GroupingIsRight ==
    rule = "done" /\ stmt.kind = "Select" =>
        [i \in 1 .. Len(stmt.joins) |-> stmt.joins[i].on_condition]
        \o Optional(stmt.where # NoExpr, <<stmt.where>>) = Conditions

-----------------------------------------------------------------------------
(***************************************************************************)
(* The statements there are, by the types of their tokens.  The grammar is *)
(* a graph: a phrase <<from, types, to>> is what can be written next at a  *)
(* place in a statement, and the place it leads to.  Nothing is looked     *)
(* ahead: every way to read the tokens is followed.                        *)
(***************************************************************************)

TableRefForms == {<<"IDENTIFIER">>, <<"IDENTIFIER", "AS", "IDENTIFIER">>}
ColumnRefForms == {<<"IDENTIFIER">>, <<"IDENTIFIER", ".", "IDENTIFIER">>}
LiteralForms == {<<"INTEGER_LITERAL">>, <<"STRING_LITERAL">>}
ColumnDefForms == {<<"IDENTIFIER", type>> \o key : type \in {"INTEGER", "TEXT"}, key \in {<< >>, <<"PRIMARY", "KEY">>}}
SelectItemForms == ColumnRefForms \cup {c \o <<"AS", "IDENTIFIER">> : c \in ColumnRefForms}

\* One or more items with commas between them.
ListOf(items, place, close, then) ==
    {<<place, i \o <<",">>, place>> : i \in items} \cup {<<place, i \o close, then>> : i \in items}

EndAt(place) == {<<place, end, "done">> : end \in {<<"END_OF_INPUT">>, <<";", "END_OF_INPUT">>}}

\* A JOIN, a WHERE or the end.
ClauseAt(place) ==
    {<<place, <<"JOIN">> \o t \o <<"ON">>, "ON">> : t \in TableRefForms}
    \cup {<<place, <<"WHERE">>, "WHERE">>} \cup EndAt(place)

\* The places of a condition are before a comparison, in it and after it.
ConditionAt(place, inside, after) ==
    {<<place, <<"(">>, place>>, <<after, <<")">>, after>>, <<after, <<"AND">>, place>>, <<after, <<"OR">>, place>>}
    \cup {<<place, v \o <<op>>, inside>> : v \in ColumnRefForms \cup LiteralForms, op \in ComparisonOps}
    \cup {<<inside, v, after>> : v \in ColumnRefForms \cup LiteralForms}

Phrases ==
    {<<"start", <<"CREATE", "TABLE", "IDENTIFIER", "(">>, "column_def">>,
     <<"start", <<"INSERT", "INTO", "IDENTIFIER", "(">>, "column">>,
     <<"start", <<"INSERT", "INTO", "IDENTIFIER", "VALUES", "(">>, "literal">>,
     <<"start", <<"SELECT">>, "select_item">>,
     <<"start", <<"SELECT", "*", "FROM">>, "from">>}
    \cup ListOf(ColumnDefForms, "column_def", <<")">>, "end")
    \cup ListOf({<<"IDENTIFIER">>}, "column", <<")", "VALUES", "(">>, "literal")
    \cup ListOf(LiteralForms, "literal", <<")">>, "end")
    \cup ListOf(SelectItemForms, "select_item", <<"FROM">>, "from")
    \cup {<<"from", t, "after from">> : t \in TableRefForms} \cup ClauseAt("after from")
    \cup ConditionAt("ON", "in ON", "after ON") \cup ClauseAt("after ON")
    \cup ConditionAt("WHERE", "in WHERE", "after WHERE") \cup EndAt("after WHERE")
    \cup EndAt("end")

\* The readings of a list of tokens: what is left of the phrase that was
\* begun, and the place after it.
Readings(types) ==
    LET begun(readings) ==
            readings \cup {<<p[2], p[3]>> : p \in {q \in Phrases : <<<< >>, q[1]>> \in readings}}
        read(readings, type) ==
            {<<Tail(r[1]), r[2]>> : r \in {q \in begun(readings) : q[1] # << >> /\ Head(q[1]) = type}}
    IN  FoldLeft(read, {<<<< >>, "start">>}, types)

\* In a query no ')' comes before its '(', and none is open after a condition.
ParenthesesMatch(types) ==
    LET count(type, n) == Cardinality({k \in 1 .. n : types[k] = type})
    IN  types # << >> /\ Head(types) = "SELECT" =>
            \A n \in 1 .. Len(types) :
                /\ count(")", n) <= count("(", n)
                /\ types[n] \in {"JOIN", "WHERE", ";", "END_OF_INPUT"} => count(")", n) = count("(", n)

\* The tokens are the beginning of a statement, or a whole one.
BeginsStatement(types) == Readings(types) # {} /\ ParenthesesMatch(types)
IsStatement(types) == <<<< >>, "done">> \in Readings(types) /\ ParenthesesMatch(types)

\* The known statements are statements, with and without a ';'.
ASSUME KnownAssumption ==
    \A s \in Known, end \in {<<"END_OF_INPUT">>, <<";", "END_OF_INPUT">>} :
        IsStatement([i \in 1 .. Len(Spelling(s)) |-> Spelling(s)[i][1]] \o end)

TypesUpTo(k) == [i \in 1 .. k |-> tokens[i].type]

\* A text is accepted only if it is a statement, and a syntax error names the
\* first token with which it stops being the beginning of one: what comes
\* before that token begins some statement, and with it no longer does.  The
\* parser looks one token ahead and never goes back (parser.h says that this
\* is always enough), so no choice it makes may exclude a statement too early.
ErrorIsFirstBadToken ==
    /\ rule = "done" => IsStatement(TypesUpTo(Len(tokens)))
    /\ parse_error # NoError =>
          \E k \in 1 .. Len(tokens) :
              /\ tokens[k].line = parse_error.line
              /\ tokens[k].column = parse_error.column
              /\ BeginsStatement(TypesUpTo(k - 1))
              /\ ~ BeginsStatement(TypesUpTo(k))

\* ParseSQL returns a statement or throws, whatever the text.
ParseSQLReturns == <>(rule \in {"done", "error"} \/ lex_error # NoError)
=============================================================================
