------------------------------- MODULE Lexer -------------------------------
(***************************************************************************)
(* Lexer::Tokenize: the text of a statement becomes a list of tokens       *)
(* (lexer.cpp, token.h).                                                   *)
(*                                                                         *)
(* The source is a sequence of strings, each a run of characters no step   *)
(* of the lexer splits: some letters, one digit, a blank, a sign.  They    *)
(* are read one at a time, as the loops of the code read characters.       *)
(***************************************************************************)
EXTENDS Integers, Sequences, FiniteSetsExt, SequencesExt

CONSTANTS
    Letters,                \* the runs of letters and underscores a source is made of
    ToUpper,                \* the capital form of those that are not in capitals
    INT64_MAX,              \* the largest value std::stoll returns
    Sources                 \* the texts given to ParseSQL

VARIABLES
    source,                 \* source_
    pos, line, column,      \* pos_ (from 1), line_ and column_
    mode,                   \* the loop that reads: "start", "word", "number", "string", "end"
    start,                  \* where the lexeme began: start_line, start_col and its pos
    value,                  \* what was pushed to the contents of the string literal so far
    tokens,                 \* the result
    lex_error               \* the exception thrown, or NoError

lexer == <<source, pos, line, column, mode, start, value, tokens, lex_error>>

\* What std::isspace skips, but '\v', which has no form as a string here.
Spaces == {" ", "\t", "\n", "\r", "\f"}
Digits == {"0", "1", "2", "3", "4", "5", "6", "7", "8", "9"}
Quote == "'"
Nul == "NUL"
DigitValue(d) == CHOOSE n \in 0 .. 9 : d = <<"0", "1", "2", "3", "4", "5", "6", "7", "8", "9">>[n + 1]

NoError == [kind |-> "none"]

\* KeywordTable, by the token type; the type names are two of them.
Keywords == {"CREATE", "TABLE", "INSERT", "INTO", "VALUES", "SELECT", "FROM", "WHERE", "JOIN",
             "ON", "AS", "AND", "OR", "PRIMARY", "KEY", "INTEGER", "TEXT"}
WordTypes == Keywords \cup {"IDENTIFIER"}

\* The signs that are tokens whatever follows, and those that look for a '='.
Punctuation == {"*", ",", ".", ";", "(", ")", "="}
BeforeEquals == {"<", ">", "!"}

\* A letter is nothing else; a text is made of runs of characters.
ASSUME LettersAssumption ==
    Letters \cap (Spaces \cup Digits \cup {Quote, Nul} \cup Punctuation \cup BeforeEquals) = {}
ASSUME SourcesAssumption ==
    \A text \in Sources :
        /\ text \in Seq(STRING)
        /\ \A i \in 1 .. Len(text) : Len(text[i]) \in Nat

\* The lengths of the signs, and that they are no other ones, which a prover
\* does not know of strings.
ASSUME SignsAssumption ==
    /\ Len(Quote) = 1
    /\ \A sign \in Punctuation \cup BeforeEquals :
          /\ Len(sign) = 1
          /\ Len(sign \o "=") = 2
          /\ sign \o "=" \notin WordTypes \cup {"INTEGER_LITERAL", "STRING_LITERAL", "END_OF_INPUT"}

IsAtEnd == pos > Len(source)
Peek(offset) == IF pos + offset > Len(source) THEN Nul ELSE source[pos + offset]

\* Seeded fault: a new line does not start at column 1.
AdvanceNoReset ==
    /\ pos' = pos + 1
    /\ line' = IF source[pos] = "\n" THEN line + 1 ELSE line
    /\ column' = column + Len(source[pos])

Advance ==
    /\ pos' = pos + 1
    /\ line' = IF source[pos] = "\n" THEN line + 1 ELSE line
    /\ column' = IF source[pos] = "\n" THEN 1 ELSE column + Len(source[pos])

\* Two signs that are no newlines.
AdvanceTwice == pos' = pos + 2 /\ column' = column + 2 /\ UNCHANGED line

Throw(kind, l, c) ==
    /\ lex_error' = [kind |-> kind, line |-> l, column |-> c]
    /\ mode' = "end"
    /\ UNCHANGED <<source, pos, line, column, start, value, tokens>>

\* A token with the source positions it was read from, which the code forgets.
Token(type, text, l, c, from) ==
    [type |-> type, text |-> text, int_value |-> 0, string_value |-> "",
     line |-> l, column |-> c, from |-> from, to |-> pos' - 1]

Push(token) ==
    /\ tokens' = Append(tokens, token)
    /\ mode' = "start"
    /\ UNCHANGED <<source, start, value, lex_error>>

SkipWhitespace ==
    /\ mode = "start"
    /\ Peek(0) \in Spaces
    /\ Advance
    /\ UNCHANGED <<source, mode, start, value, tokens, lex_error>>

\* The first character decides what is read.
StartLexeme(m, first) ==
    /\ mode = "start"
    /\ Peek(0) \in first
    /\ Advance
    /\ mode' = m
    /\ start' = [line |-> line, column |-> column, pos |-> pos]
    /\ value' = << >>
    /\ UNCHANGED <<source, tokens, lex_error>>

ReadOn(m, more) ==
    /\ mode = m
    /\ Peek(0) \in more
    /\ Advance
    /\ UNCHANGED <<source, mode, start, value, tokens, lex_error>>

\* The characters pushed to a string one after the other.
Spelled(runs) == FoldLeft(LAMBDA text, c : text \o c, "", runs)

Lexeme == SubSeq(source, start.pos, pos - 1)
LexemeText == Spelled(Lexeme)

EndOfWord ==
    /\ mode = "word"
    /\ Peek(0) \notin Letters \cup Digits
    /\ UNCHANGED <<pos, line, column>>
    /\ LET upper == IF LexemeText \in DOMAIN ToUpper THEN ToUpper[LexemeText] ELSE LexemeText
       IN  Push(Token(IF upper \in Keywords THEN upper ELSE "IDENTIFIER",
                      LexemeText, start.line, start.column, start.pos))

LexIdentifierOrKeyword ==
    \/ StartLexeme("word", Letters)
    \/ ReadOn("word", Letters \cup Digits)
    \/ EndOfWord

\* std::stoll throws std::out_of_range, which is no LexError and has no place.
EndOfNumber ==
    /\ mode = "number"
    /\ Peek(0) \notin Digits
    /\ LET n == FoldLeft(LAMBDA v, d : 10 * v + DigitValue(d), 0, Lexeme)
       IN  \/ /\ n > INT64_MAX
              /\ Throw("out_of_range", 0, 0)
           \/ /\ n <= INT64_MAX
              /\ UNCHANGED <<pos, line, column>>
              /\ Push([Token("INTEGER_LITERAL", LexemeText, start.line, start.column, start.pos)
                          EXCEPT !.int_value = n])

LexNumber ==
    \/ StartLexeme("number", Digits)
    \/ ReadOn("number", Digits)
    \/ EndOfNumber

StringCharacter ==
    /\ mode = "string"
    /\ ~ IsAtEnd
    /\ Peek(0) # Quote
    /\ Advance
    /\ value' = Append(value, Peek(0))
    /\ UNCHANGED <<source, mode, start, tokens, lex_error>>

\* A doubled quote stands for one.
EscapedQuote ==
    /\ mode = "string"
    /\ Peek(0) = Quote
    /\ Peek(1) = Quote
    /\ AdvanceTwice
    /\ value' = Append(value, Quote)
    /\ UNCHANGED <<source, mode, start, tokens, lex_error>>

\* Seeded fault: any quote ends the literal.
ClosingQuoteAnywhere ==
    /\ mode = "string"
    /\ Peek(0) = Quote
    /\ Advance
    /\ Push([Token("STRING_LITERAL", Spelled(value), start.line, start.column, start.pos)
                EXCEPT !.string_value = Spelled(value)])

ClosingQuote ==
    /\ mode = "string"
    /\ Peek(0) = Quote
    /\ Peek(1) # Quote
    /\ Advance
    /\ Push([Token("STRING_LITERAL", Spelled(value), start.line, start.column, start.pos)
                EXCEPT !.string_value = Spelled(value)])

\* Seeded fault: the loop goes on at the end of the text.
UnterminatedUnnoticed ==
    /\ mode = "string"
    /\ IsAtEnd
    /\ UNCHANGED lexer

Unterminated ==
    /\ mode = "string"
    /\ IsAtEnd
    /\ Throw("unterminated", start.line, start.column)

LexString ==
    \/ StartLexeme("string", {Quote})
    \/ StringCharacter
    \/ EscapedQuote
    \/ ClosingQuote
    \/ Unterminated

\* A sign's column is counted back from the column after it.
MakeToken(text) == Token(text, text, line', column' - Len(text), pos)

LexPunctuation ==
    /\ mode = "start"
    /\ Peek(0) \in Punctuation
    /\ Advance
    /\ Push(MakeToken(Peek(0)))

LexComparison ==
    /\ mode = "start"
    /\ Peek(0) \in BeforeEquals
    /\ \/ /\ Peek(1) = "="
          /\ AdvanceTwice
          /\ Push(MakeToken(Peek(0) \o "="))
       \/ /\ Peek(1) # "="
          /\ Peek(0) # "!"
          /\ Advance
          /\ Push(MakeToken(Peek(0)))

UnexpectedCharacter ==
    /\ mode = "start"
    /\ ~ IsAtEnd
    /\ \/ Peek(0) = "!" /\ Peek(1) # "="
       \/ Peek(0) \notin Spaces \cup Letters \cup Digits \cup {Quote} \cup Punctuation \cup BeforeEquals
    /\ Throw("unexpected", line, column)

EndOfInput ==
    /\ mode = "start"
    /\ IsAtEnd
    /\ mode' = "end"
    /\ tokens' = Append(tokens,
                        [type |-> "END_OF_INPUT", text |-> "", int_value |-> 0, string_value |-> "",
                         line |-> line, column |-> column, from |-> pos, to |-> pos])
    /\ UNCHANGED <<source, pos, line, column, start, value, lex_error>>

Tokenize ==
    \/ SkipWhitespace
    \/ LexIdentifierOrKeyword
    \/ LexNumber
    \/ LexString
    \/ LexPunctuation
    \/ LexComparison
    \/ UnexpectedCharacter
    \/ EndOfInput

LexerInit ==
    /\ source \in Sources
    /\ pos = 1
    /\ line = 1
    /\ column = 1
    /\ mode = "start"
    /\ start = [line |-> 1, column |-> 1, pos |-> 1]
    /\ value = << >>
    /\ tokens = << >>
    /\ lex_error = NoError

-----------------------------------------------------------------------------

\* Tokenize alone; what parses the tokens changes nothing of the lexer.
LexerSpec == LexerInit /\ [][Tokenize]_lexer

-----------------------------------------------------------------------------

\* The line and the column of the i-th element of the source: the newlines
\* before it, and the characters before it on its line.
LineOf(i) == 1 + Cardinality({j \in 1 .. i - 1 : source[j] = "\n"})
BeforeOnLine(i) == {j \in 1 .. i - 1 : \A l \in j .. i - 1 : source[l] # "\n"}
Characters(S) == UNION {{j} \X (1 .. Len(source[j])) : j \in S}
ColumnOf(i) == 1 + Cardinality(Characters(BeforeOnLine(i)))

\* The token read last: every token is at some time, and no other changes.
Newest == {Len(tokens)} \ {0}

\* Every token, the end of input too, says where its first character stands,
\* also after literals that go over lines; an error says where the character
\* that is not understood stands, or where the literal that is not closed began.
PositionsAreRight ==
    /\ \A k \in Newest :
          /\ tokens[k].line = LineOf(tokens[k].from)
          /\ tokens[k].column = ColumnOf(tokens[k].from)
    /\ lex_error.kind \in {"unexpected", "unterminated"} =>
          LET i == IF lex_error.kind = "unexpected" THEN pos ELSE start.pos
          IN  lex_error.line = LineOf(i) /\ lex_error.column = ColumnOf(i)

\* The quotes of a literal's inside stand in pairs, of which these are the
\* second ones.
ArePairs(second, inside) ==
    /\ \A i \in second : i - 1 \in inside \ second /\ source[i - 1] = Quote /\ source[i] = Quote
    /\ \A i \in inside \ second : source[i] = Quote => i + 1 \in second

\* The elements of the source at these places, in their order.
Rank(S, i) == Cardinality({j \in S : j <= i})
ElementsAt(S) == [n \in 1 .. Cardinality(S) |-> source[CHOOSE i \in S : Rank(S, i) = n]]

\* A literal is written between quotes, with every quote in it doubled.
IsQuoted(token) ==
    LET inside == token.from + 1 .. token.to - 1
    IN  /\ token.to > token.from
        /\ source[token.from] = Quote
        /\ source[token.to] = Quote
        /\ \E second \in SUBSET inside :
              /\ ArePairs(second, inside)
              /\ token.string_value = Spelled(ElementsAt(inside \ second))

\* A word, a number or a sign: its characters and the one after it, which
\* could not have belonged to it.
IsLexeme(token, first, more, next) ==
    /\ source[token.from] \in first
    /\ \A i \in token.from + 1 .. token.to : source[i] \in more
    /\ next \notin more
    /\ token.text = Spelled(SubSeq(source, token.from, token.to))

IsSign(token, next) ==
    /\ token.text = token.type
    /\ \/ /\ token.to = token.from
          /\ token.type = source[token.from]
          /\ token.type \in Punctuation \cup {"<", ">"}
          /\ token.type \in {"<", ">"} => next # "="
       \/ /\ token.to = token.from + 1
          /\ token.type = source[token.from] \o "="
          /\ source[token.from] \in BeforeEquals
          /\ source[token.to] = "="

\* A token is read behind the one that ended at free - 1 and the source between
\* them is blank; it is what its characters say and as long as it can be.
Spells(t, free) ==
    LET next == IF t.to < Len(source) THEN source[t.to + 1] ELSE Nul
    IN  /\ free <= t.from
        /\ \A i \in free .. t.from - 1 : source[i] \in Spaces
        /\ CASE t.type = "END_OF_INPUT" -> t.from = Len(source) + 1
             [] t.type = "STRING_LITERAL" -> IsQuoted(t) /\ next # Quote
             [] t.type = "INTEGER_LITERAL" -> IsLexeme(t, Digits, Digits, next)
             [] t.type \in WordTypes -> IsLexeme(t, Letters, Letters \cup Digits, next)
             [] OTHER -> IsSign(t, next)

\* The tokens spell the source: the lexer loses no character but blanks, reads
\* none twice, and each token is the longest its characters allow.
TokensSpellTheSource ==
    \A k \in Newest : Spells(tokens[k], IF k = 1 THEN 1 ELSE tokens[k - 1].to + 1)
=============================================================================
