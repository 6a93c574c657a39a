---------------------------- MODULE LexerProofs ----------------------------
(***************************************************************************)
(* Proof that the lexer, whatever text it is given, says rightly where its *)
(* tokens and its errors stand, and that its tokens spell the text.        *)
(***************************************************************************)
EXTENDS Lexer, FiniteSetTheorems, SequenceTheorems, TLAPS

-----------------------------------------------------------------------------
(* The inductive invariant. *)

LexerTypeOK ==
    /\ source \in Sources
    /\ pos \in 1 .. Len(source) + 1
    /\ line \in Nat
    /\ column \in Int
    /\ mode \in {"start", "word", "number", "string", "end"}
    /\ value \in Seq(STRING)
    /\ tokens \in Seq(Range(tokens))
    /\ mode # "end" => lex_error = NoError

\* line_ and column_ are those of the element that is read next.
Located ==
    /\ line = LineOf(pos)
    /\ column = ColumnOf(pos)
    /\ IsFiniteSet(Characters(BeforeOnLine(pos)))

\* The source up to here that belongs to no token is blank.
Free == IF Len(tokens) = 0 THEN 1 ELSE tokens[Len(tokens)].to + 1
BlankUpTo(i) ==
    /\ Free \in 1 .. i
    /\ \A j \in Free .. i - 1 : source[j] \in Spaces

\* The strings pushed are the elements at these places, in their order.
Holds(v, S) ==
    /\ Len(v) = Cardinality(S)
    /\ \A i \in S : Rank(S, i) \in 1 .. Len(v) /\ v[Rank(S, i)] = source[i]
    /\ \A n \in 1 .. Len(v) : \E i \in S : Rank(S, i) = n

\* What a loop has read of the lexeme it is in.
ReadAs(first, more) ==
    /\ source[start.pos] \in first
    /\ \A i \in start.pos + 1 .. pos - 1 : source[i] \in more

Inside == start.pos + 1 .. pos - 1
Unescaped ==
    /\ source[start.pos] = Quote
    /\ \E second \in SUBSET Inside : ArePairs(second, Inside) /\ Holds(value, Inside \ second)

Begun ==
    /\ start.pos \in 1 .. pos - 1
    /\ start.line = LineOf(start.pos)
    /\ start.column = ColumnOf(start.pos)
    /\ BlankUpTo(start.pos)

LexerInv ==
    /\ LexerTypeOK
    /\ Located
    /\ mode = "start" => BlankUpTo(pos)
    /\ mode \in {"word", "number", "string"} => Begun
    /\ mode = "word" => ReadAs(Letters, Letters \cup Digits)
    /\ mode = "number" => ReadAs(Digits, Digits)
    /\ mode = "string" => Unescaped
    /\ PositionsAreRight
    /\ TokensSpellTheSource

-----------------------------------------------------------------------------
(* Places in the text. *)

\* Where a text begins.
LEMMA FirstPlace ==
  LineOf(1) = 1 /\ ColumnOf(1) = 1 /\ IsFiniteSet(Characters(BeforeOnLine(1)))
<1>1. {j \in 1 .. 1 - 1 : source[j] = "\n"} = {} /\ BeforeOnLine(1) = {}
  BY DEF BeforeOnLine
<1>2. Characters({}) = {}
  BY DEF Characters
<1> QED
  BY <1>1, <1>2, FS_EmptySet DEF LineOf, ColumnOf

\* The line of an element after the next one.
LEMMA NextLine ==
  ASSUME NEW i \in Nat \ {0}
  PROVE  LineOf(i + 1) = IF source[i] = "\n" THEN LineOf(i) + 1 ELSE LineOf(i)
<1> DEFINE S == {j \in 1 .. i - 1 : source[j] = "\n"}
           T == {j \in 1 .. i + 1 - 1 : source[j] = "\n"}
<1>1. IsFiniteSet(S)
  <2>1. IsFiniteSet(1 .. i - 1)
    BY FS_Interval
  <2>2. S \in SUBSET (1 .. i - 1)
    OBVIOUS
  <2> QED
    BY <2>1, <2>2, FS_Subset
<1>2. i \notin S
  OBVIOUS
<1>3. T = IF source[i] = "\n" THEN S \cup {i} ELSE S
  OBVIOUS
<1>4. Cardinality(S) \in Nat
  BY <1>1, FS_CardinalityType
<1>5. Cardinality(S \cup {i}) = Cardinality(S) + 1
  BY <1>1, <1>2, FS_AddElement
<1>6. LineOf(i) = 1 + Cardinality(S) /\ LineOf(i + 1) = 1 + Cardinality(T)
  BY DEF LineOf
<1> HIDE DEF S, T
<1> QED
  BY <1>3, <1>4, <1>5, <1>6

\* The characters of one more element.
LEMMA MoreCharacters ==
  ASSUME NEW S, NEW i, i \notin S, Len(source[i]) \in Nat, IsFiniteSet(Characters(S))
  PROVE  /\ IsFiniteSet(Characters(S \cup {i}))
         /\ Cardinality(Characters(S \cup {i})) = Cardinality(Characters(S)) + Len(source[i])
         /\ Cardinality(Characters(S)) \in Nat
<1> DEFINE C == {i} \X (1 .. Len(source[i]))
<1>1. Characters(S \cup {i}) = Characters(S) \cup C
  BY DEF Characters
<1>2. Characters(S) \cap C = {}
  BY DEF Characters
<1>3. IsFiniteSet({i}) /\ Cardinality({i}) = 1
  BY FS_Singleton
<1>4. IsFiniteSet(1 .. Len(source[i])) /\ Cardinality(1 .. Len(source[i])) = Len(source[i])
  BY FS_Interval
<1>5. IsFiniteSet(C) /\ Cardinality(C) = 1 * Len(source[i])
  BY <1>3, <1>4, FS_Product
<1>6. Cardinality(C) = Len(source[i])
  BY <1>5
<1> HIDE DEF C
<1>7. /\ IsFiniteSet(Characters(S) \cup C)
      /\ Cardinality(Characters(S) \cup C)
            = Cardinality(Characters(S)) + Cardinality(C) - Cardinality(Characters(S) \cap C)
  BY <1>5, FS_Union
<1>8. Cardinality(Characters(S) \cap C) = 0
  BY <1>2, FS_EmptySet
<1>9. Cardinality(Characters(S)) \in Nat
  BY FS_CardinalityType
<1>10. Cardinality(Characters(S) \cup C) = Cardinality(Characters(S)) + Len(source[i])
  <2>1. PICK a \in Nat, b \in Nat : a = Cardinality(Characters(S)) /\ b = Len(source[i])
    BY <1>9
  <2>2. Cardinality(Characters(S) \cup C) = a + b - 0
    BY <1>6, <1>7, <1>8, <2>1
  <2>3. a + b - 0 = a + b
    OBVIOUS
  <2> QED
    BY <2>1, <2>2, <2>3
<1> QED
  BY <1>1, <1>7, <1>9, <1>10

\* The column of an element after the next one.
LEMMA NextColumn ==
  ASSUME NEW i \in Nat \ {0}, Len(source[i]) \in Nat, IsFiniteSet(Characters(BeforeOnLine(i)))
  PROVE  /\ ColumnOf(i + 1) = IF source[i] = "\n" THEN 1 ELSE ColumnOf(i) + Len(source[i])
         /\ IsFiniteSet(Characters(BeforeOnLine(i + 1)))
<1>1. CASE source[i] = "\n"
  <2>1. BeforeOnLine(i + 1) = {}
    BY <1>1 DEF BeforeOnLine
  <2>2. Characters({}) = {}
    BY DEF Characters
  <2>3. ColumnOf(i + 1) = 1 + 0
    BY <2>1, <2>2, FS_EmptySet DEF ColumnOf
  <2>4. ColumnOf(i + 1) = 1
    BY <2>3
  <2> QED
    BY <1>1, <2>1, <2>2, <2>4, FS_EmptySet
<1>2. CASE source[i] # "\n"
  <2>1. BeforeOnLine(i + 1) = BeforeOnLine(i) \cup {i}
    <3>1. ASSUME NEW j \in BeforeOnLine(i + 1), j # i PROVE j \in BeforeOnLine(i)
      BY <3>1 DEF BeforeOnLine
    <3>2. ASSUME NEW j \in BeforeOnLine(i) PROVE j \in BeforeOnLine(i + 1)
      <4>1. j \in 1 .. i - 1 /\ \A l \in j .. i - 1 : source[l] # "\n"
        BY DEF BeforeOnLine
      <4>2. ASSUME NEW l \in j .. i + 1 - 1 PROVE source[l] # "\n"
        BY <4>1, <1>2
      <4> QED
        BY <4>1, <4>2 DEF BeforeOnLine
    <3>3. i \in BeforeOnLine(i + 1)
      BY <1>2 DEF BeforeOnLine
    <3> QED
      BY <3>1, <3>2, <3>3
  <2>2. i \notin BeforeOnLine(i)
    BY DEF BeforeOnLine
  <2>3. /\ IsFiniteSet(Characters(BeforeOnLine(i) \cup {i}))
        /\ Cardinality(Characters(BeforeOnLine(i) \cup {i}))
              = Cardinality(Characters(BeforeOnLine(i))) + Len(source[i])
        /\ Cardinality(Characters(BeforeOnLine(i))) \in Nat
    BY <2>2, MoreCharacters
  <2>4. PICK a \in Nat, b \in Nat :
            a = Cardinality(Characters(BeforeOnLine(i))) /\ b = Len(source[i])
    BY <2>3
  <2>5. ColumnOf(i + 1) = 1 + (a + b) /\ ColumnOf(i) = 1 + a
    BY <2>1, <2>3, <2>4 DEF ColumnOf
  <2>6. 1 + (a + b) = (1 + a) + b
    OBVIOUS
  <2>7. ColumnOf(i + 1) = ColumnOf(i) + Len(source[i])
    BY <2>4, <2>5, <2>6
  <2> QED
    BY <1>2, <2>1, <2>3, <2>7
<1> QED
  BY <1>1, <1>2

\* Both are places of the text alone.
LEMMA SamePlaces ==
  ASSUME source' = source
  PROVE  /\ \A i : LineOf(i)' = LineOf(i) /\ ColumnOf(i)' = ColumnOf(i)
         /\ \A i : BeforeOnLine(i)' = BeforeOnLine(i)
         /\ \A S : Characters(S)' = Characters(S)
BY DEF LineOf, ColumnOf, BeforeOnLine, Characters

\* A text is a sequence of runs of characters.
LEMMA TextType ==
  ASSUME source \in Sources
  PROVE  /\ source \in Seq(STRING)
         /\ Len(source) \in Nat
         /\ \A i \in 1 .. Len(source) : source[i] \in STRING /\ Len(source[i]) \in Nat
BY SourcesAssumption

-----------------------------------------------------------------------------
(* The contents of a literal. *)

\* One more string pushed is one more place, behind the others.
LEMMA HoldsMore ==
  ASSUME NEW v \in Seq(STRING), NEW S \in SUBSET Int, IsFiniteSet(S), Holds(v, S),
         NEW p \in Int, \A i \in S : i < p, source[p] \in STRING
  PROVE  Holds(Append(v, source[p]), S \cup {p})
<1> DEFINE w == Append(v, source[p])
           T == S \cup {p}
<1>1. Len(v) = Cardinality(S) /\ Len(v) \in Nat
  BY DEF Holds
<1>2. p \notin S
  OBVIOUS
<1>3. Cardinality(T) = Cardinality(S) + 1
  BY <1>2, FS_AddElement
<1>4. /\ Len(w) = Len(v) + 1
      /\ w[Len(v) + 1] = source[p]
      /\ \A n \in 1 .. Len(v) : w[n] = v[n]
  BY AppendProperties
<1>5. ASSUME NEW i \in S PROVE Rank(T, i) = Rank(S, i)
  <2>1. {j \in T : j <= i} = {j \in S : j <= i}
    OBVIOUS
  <2> QED
    BY <2>1 DEF Rank
<1>6. Rank(T, p) = Cardinality(T)
  <2>1. \A j \in T : j <= p
    <3>1. \A j \in S : j < p /\ j \in Int
      OBVIOUS
    <3>2. \A j \in S : j <= p
      BY <3>1
    <3> QED
      BY <3>2
  <2>2. {j \in T : j <= p} = T
    BY <2>1
  <2> QED
    BY <2>2 DEF Rank
<1> HIDE DEF w, T
<1>7. Len(w) = Cardinality(T)
  BY <1>1, <1>3, <1>4
<1>8. ASSUME NEW i \in T PROVE Rank(T, i) \in 1 .. Len(w) /\ w[Rank(T, i)] = source[i]
  <2>1. CASE i = p
    <3>1. Rank(T, i) = Len(v) + 1 /\ Rank(T, i) \in 1 .. Len(w)
      BY <2>1, <1>1, <1>3, <1>4, <1>6
    <3> QED
      BY <3>1, <2>1, <1>4
  <2>2. CASE i # p
    <3>1. i \in S
      BY <2>2 DEF T
    <3>2. Rank(S, i) \in 1 .. Len(v) /\ v[Rank(S, i)] = source[i]
      BY <3>1 DEF Holds
    <3>3. Rank(S, i) \in 1 .. Len(w)
      BY <3>2, <1>1, <1>4
    <3> QED
      BY <3>1, <3>2, <3>3, <1>4, <1>5
  <2> QED
    BY <2>1, <2>2
<1>9. ASSUME NEW n \in 1 .. Len(w) PROVE \E i \in T : Rank(T, i) = n
  <2>1. CASE n = Len(v) + 1
    BY <2>1, <1>1, <1>3, <1>6 DEF T
  <2>2. CASE n # Len(v) + 1
    <3>1. n \in 1 .. Len(v)
      BY <2>2, <1>1, <1>4
    <3>2. PICK i \in S : Rank(S, i) = n
      BY <3>1 DEF Holds
    <3> QED
      BY <3>2, <1>5 DEF T
  <2> QED
    BY <2>1, <2>2
<1>10. Holds(w, T)
  BY <1>7, <1>8, <1>9 DEF Holds
<1> QED
  BY <1>10 DEF w, T

\* Nothing was pushed yet.
LEMMA HoldsNothing ==
  Holds(<< >>, {})
<1>1. Len(<< >>) = 0 /\ Cardinality({}) = 0
  BY FS_EmptySet
<1> QED
  BY <1>1 DEF Holds

\* What was pushed is the elements at those places.
LEMMA HoldsElements ==
  ASSUME NEW v \in Seq(STRING), NEW S, Holds(v, S)
  PROVE  v = ElementsAt(S)
<1>1. Len(v) = Cardinality(S) /\ Len(v) \in Nat
  BY DEF Holds
<1>2. ASSUME NEW n \in 1 .. Len(v) PROVE v[n] = source[CHOOSE i \in S : Rank(S, i) = n]
  <2>1. \E i \in S : Rank(S, i) = n
    BY DEF Holds
  <2> DEFINE i == CHOOSE i \in S : Rank(S, i) = n
  <2>2. i \in S /\ Rank(S, i) = n
    BY <2>1
  <2> HIDE DEF i
  <2>3. v[n] = source[i]
    BY <2>2 DEF Holds
  <2> QED
    BY <2>3 DEF i
<1>3. v = [n \in 1 .. Len(v) |-> v[n]]
  OBVIOUS
<1>4. [n \in 1 .. Len(v) |-> v[n]] = [n \in 1 .. Len(v) |-> source[CHOOSE i \in S : Rank(S, i) = n]]
  BY <1>2
<1> QED
  BY <1>1, <1>3, <1>4 DEF ElementsAt

-----------------------------------------------------------------------------
(* Reading on. *)

\* One character more, of which Advance keeps the count.
LEMMA AdvanceMoves ==
  ASSUME LexerTypeOK, Located, source' = source, pos <= Len(source), Advance
  PROVE  /\ pos' = pos + 1
         /\ pos' \in 1 .. Len(source') + 1
         /\ line' \in Nat
         /\ column' \in Int
         /\ Located'
<1>1. source \in Sources /\ pos \in Nat \ {0} /\ pos \in 1 .. Len(source)
  BY TextType DEF LexerTypeOK
<1>2. Len(source) \in Nat /\ Len(source[pos]) \in Nat
  BY <1>1, TextType
<1>3. pos' = pos + 1 /\ pos' \in 1 .. Len(source') + 1
  BY <1>1, <1>2 DEF Advance
<1>4. line' \in Nat /\ column' \in Int
  BY <1>2 DEF Advance, LexerTypeOK
<1>5. LineOf(pos + 1) = IF source[pos] = "\n" THEN LineOf(pos) + 1 ELSE LineOf(pos)
  BY <1>1, NextLine
<1>6. /\ ColumnOf(pos + 1) = IF source[pos] = "\n" THEN 1 ELSE ColumnOf(pos) + Len(source[pos])
      /\ IsFiniteSet(Characters(BeforeOnLine(pos + 1)))
  BY <1>1, <1>2, NextColumn DEF Located
<1>7. line' = LineOf(pos + 1) /\ column' = ColumnOf(pos + 1)
  BY <1>5, <1>6 DEF Advance, Located
<1>8. LineOf(pos)' = LineOf(pos + 1) /\ ColumnOf(pos)' = ColumnOf(pos + 1)
  BY <1>3, SamePlaces
<1>9. Characters(BeforeOnLine(pos))' = Characters(BeforeOnLine(pos + 1))
  BY <1>3, SamePlaces
<1> QED
  BY <1>3, <1>4, <1>6, <1>7, <1>8, <1>9 DEF Located

\* What is said of the text and of one token is said of the text alone.
LEMMA SameSpelling ==
  ASSUME source' = source
  PROVE  \A t, free : Spells(t, free)' <=> Spells(t, free)
<1>1. \A S : ElementsAt(S)' = ElementsAt(S)
  BY DEF ElementsAt
<1>2. \A second, inside : ArePairs(second, inside)' <=> ArePairs(second, inside)
  BY DEF ArePairs
<1>3. \A t : IsQuoted(t)' <=> IsQuoted(t)
  BY <1>1, <1>2 DEF IsQuoted
<1>4. \A t, first, more, next : IsLexeme(t, first, more, next)' <=> IsLexeme(t, first, more, next)
  BY DEF IsLexeme
<1>5. \A t, next : IsSign(t, next)' <=> IsSign(t, next)
  BY DEF IsSign
<1> QED
  BY <1>3, <1>4, <1>5 DEF Spells

\* Two signs of which none is a newline.
LEMMA AdvanceTwiceMoves ==
  ASSUME LexerTypeOK, Located, source' = source, pos + 1 <= Len(source), AdvanceTwice,
         source[pos] # "\n", source[pos + 1] # "\n",
         Len(source[pos]) = 1, Len(source[pos + 1]) = 1
  PROVE  /\ pos' = pos + 2
         /\ pos' \in 1 .. Len(source') + 1
         /\ line' \in Nat
         /\ column' \in Int
         /\ Located'
<1>1. source \in Sources /\ pos \in Nat \ {0} /\ pos + 1 \in Nat \ {0} /\ line \in Nat /\ column \in Int
  BY TextType DEF LexerTypeOK
<1>2. Len(source) \in Nat /\ Len(source[pos]) \in Nat /\ Len(source[pos + 1]) \in Nat
  BY TextType, <1>1
<1>3. pos' = pos + 2 /\ line' = line /\ column' = column + 2
  BY DEF AdvanceTwice
<1>4. pos' \in 1 .. Len(source') + 1
  BY <1>1, <1>2, <1>3
<1>5. PICK next : next = pos + 1
  OBVIOUS
<1>6. LineOf(pos) = line /\ ColumnOf(pos) = column /\ IsFiniteSet(Characters(BeforeOnLine(pos)))
  BY DEF Located
<1>7. /\ LineOf(next) = line
      /\ ColumnOf(next) = column + 1
      /\ IsFiniteSet(Characters(BeforeOnLine(next)))
  <2>1. LineOf(pos + 1) = line
    BY <1>1, <1>6, NextLine
  <2>2. ColumnOf(pos + 1) = column + 1 /\ IsFiniteSet(Characters(BeforeOnLine(pos + 1)))
    BY <1>1, <1>2, <1>6, NextColumn
  <2> QED
    BY <1>5, <2>1, <2>2
<1>8. /\ LineOf(next + 1) = line
      /\ ColumnOf(next + 1) = column + 1 + 1
      /\ IsFiniteSet(Characters(BeforeOnLine(next + 1)))
  <2>1. next \in Nat \ {0} /\ source[next] # "\n" /\ Len(source[next]) = 1
    BY <1>1, <1>5
  <2>2. LineOf(next + 1) = line
    BY <1>7, <2>1, NextLine
  <2>3. /\ ColumnOf(next + 1) = ColumnOf(next) + Len(source[next])
        /\ IsFiniteSet(Characters(BeforeOnLine(next + 1)))
    <3>1. Len(source[next]) \in Nat
      BY <2>1
    <3> QED
      BY <1>7, <2>1, <3>1, NextColumn
  <2> QED
    BY <1>7, <2>1, <2>2, <2>3
<1>9. pos' = next + 1 /\ column' = column + 1 + 1
  BY <1>1, <1>3, <1>5
<1>10. LineOf(pos)' = LineOf(next + 1) /\ ColumnOf(pos)' = ColumnOf(next + 1)
  BY <1>9, SamePlaces
<1>11. Characters(BeforeOnLine(pos))' = Characters(BeforeOnLine(next + 1))
  BY <1>9, SamePlaces
<1> QED
  BY <1>1, <1>3, <1>4, <1>8, <1>9, <1>10, <1>11 DEF Located

-----------------------------------------------------------------------------
(* The tokens. *)

\* A step that pushes no token and finds no error.
LEMMA NothingPushed ==
  ASSUME LexerInv, UNCHANGED <<source, tokens>>, lex_error' = NoError
  PROVE  /\ PositionsAreRight'
         /\ TokensSpellTheSource'
         /\ Free' = Free
<1>1. PositionsAreRight'
  <2>1. \A k \in Newest : tokens[k].line = LineOf(tokens[k].from) /\ tokens[k].column = ColumnOf(tokens[k].from)
    BY DEF LexerInv, PositionsAreRight
  <2>2. Newest' = Newest
    BY DEF Newest
  <2>3. \A k \in Newest' : /\ tokens'[k].line = LineOf(tokens[k].from)'
                           /\ tokens'[k].column = ColumnOf(tokens[k].from)'
    BY <2>1, <2>2, SamePlaces
  <2>4. lex_error'.kind = "none"
    BY DEF NoError
  <2> QED
    BY <2>3, <2>4 DEF PositionsAreRight
<1>2. TokensSpellTheSource'
  <2>1. \A k \in Newest' : Spells(tokens[k], IF k = 1 THEN 1 ELSE tokens[k - 1].to + 1)
    BY DEF LexerInv, TokensSpellTheSource, Newest
  <2> QED
    BY <2>1, SameSpelling DEF TokensSpellTheSource
<1>3. Free' = Free
  BY DEF Free
<1> QED
  BY <1>1, <1>2, <1>3

\* A step that pushes a token which is what the source says.
LEMMA TokenPushed ==
  ASSUME LexerInv, source' = source, lex_error' = NoError,
         NEW t, tokens' = Append(tokens, t),
         t.line = LineOf(t.from), t.column = ColumnOf(t.from), Spells(t, Free)
  PROVE  /\ tokens' \in Seq(Range(tokens'))
         /\ PositionsAreRight'
         /\ TokensSpellTheSource'
         /\ Free' = t.to + 1
<1>1. tokens \in Seq(Range(tokens))
  BY DEF LexerInv, LexerTypeOK
<1>2. tokens \in Seq(Range(tokens) \cup {t}) /\ Len(tokens) \in Nat
  <2>1. Range(tokens) \subseteq Range(tokens) \cup {t}
    OBVIOUS
  <2> QED
    BY <1>1, <2>1
<1>3. /\ tokens' \in Seq(Range(tokens) \cup {t})
      /\ Len(tokens') = Len(tokens) + 1
      /\ tokens'[Len(tokens) + 1] = t
      /\ \A k \in 1 .. Len(tokens) : tokens'[k] = tokens[k]
  BY <1>2, AppendProperties
<1>4. tokens' \in Seq(Range(tokens'))
  <2>1. DOMAIN tokens' = 1 .. Len(tokens')
    BY <1>3
  <2>2. \A k \in 1 .. Len(tokens') : tokens'[k] \in Range(tokens')
    BY <2>1 DEF Range
  <2> QED
    BY <1>3, <2>2
<1>5. PICK n \in Nat : n = Len(tokens) + 1
  BY <1>2
<1>6. Newest' = {n} /\ tokens'[n] = t
  BY <1>2, <1>3, <1>5 DEF Newest
<1>7. PositionsAreRight'
  <2>1. \A k \in Newest' : /\ tokens'[k].line = LineOf(tokens[k].from)'
                           /\ tokens'[k].column = ColumnOf(tokens[k].from)'
    BY <1>6, SamePlaces
  <2>2. lex_error'.kind = "none"
    BY DEF NoError
  <2> QED
    BY <2>1, <2>2 DEF PositionsAreRight
<1>8. Free = IF n = 1 THEN 1 ELSE tokens'[n - 1].to + 1
  BY <1>2, <1>3, <1>5 DEF Free
<1>9. TokensSpellTheSource'
  <2>1. Spells(t, IF n = 1 THEN 1 ELSE tokens'[n - 1].to + 1)
    BY <1>8
  <2> QED
    BY <2>1, <1>6, SameSpelling DEF TokensSpellTheSource
<1>10. Free' = t.to + 1
  BY <1>2, <1>3, <1>5, <1>6 DEF Free
<1> QED
  BY <1>4, <1>7, <1>9, <1>10

-----------------------------------------------------------------------------
(* The actions: blanks and the characters of a lexeme. *)

\* No character is the one Peek gives behind the text.
LEMMA NulIsNoCharacter ==
  /\ Nul \notin Letters \cup Spaces \cup Digits \cup {Quote} \cup Punctuation \cup BeforeEquals
  /\ Nul # "="
BY LettersAssumption DEF Nul, Spaces, Digits, Quote, Punctuation, BeforeEquals

\* What is seen ahead is in the text.
LEMMA PeekSees ==
  ASSUME LexerTypeOK
  PROVE  /\ Peek(0) # Nul => pos <= Len(source) /\ Peek(0) = source[pos]
         /\ Peek(1) # Nul => pos + 1 <= Len(source) /\ Peek(1) = source[pos + 1]
         /\ pos <= Len(source) => Peek(0) = source[pos]
         /\ pos \in Nat \ {0} /\ Len(source) \in Nat
<1>1. source \in Sources /\ pos \in 1 .. Len(source) + 1
  BY DEF LexerTypeOK
<1>2. Len(source) \in Nat
  BY <1>1, TextType
<1> QED
  BY <1>1, <1>2 DEF Peek

\* The counters stay where they are.
LEMMA StaysLocated ==
  ASSUME Located, UNCHANGED <<source, pos, line, column>>
  PROVE  Located'
BY SamePlaces DEF Located

LEMMA SkipWhitespaceKeeps ==
  ASSUME LexerInv, SkipWhitespace
  PROVE  LexerInv'
<1>1. LexerTypeOK /\ Located /\ BlankUpTo(pos) /\ lex_error' = NoError /\ mode' = "start"
  BY DEF LexerInv, SkipWhitespace, LexerTypeOK
<1>2. Peek(0) = source[pos] /\ pos <= Len(source) /\ source[pos] \in Spaces /\ pos \in Nat \ {0}
  BY <1>1, PeekSees, NulIsNoCharacter DEF SkipWhitespace
<1>3. /\ pos' = pos + 1
      /\ pos' \in 1 .. Len(source') + 1
      /\ line' \in Nat
      /\ column' \in Int
      /\ Located'
  BY <1>1, <1>2, AdvanceMoves DEF SkipWhitespace
<1>4. PositionsAreRight' /\ TokensSpellTheSource' /\ Free' = Free
  BY <1>1, NothingPushed DEF SkipWhitespace
<1>5. BlankUpTo(pos)'
  <2>1. Free \in 1 .. pos /\ \A j \in Free .. pos - 1 : source[j] \in Spaces
    BY <1>1 DEF BlankUpTo
  <2>2. ASSUME NEW j \in Free .. pos PROVE source[j] \in Spaces
    <3>1. CASE j = pos
      BY <3>1, <1>2
    <3>2. CASE j # pos
      BY <3>2, <2>1, <1>2
    <3> QED
      BY <3>1, <3>2
  <2>3. Free \in 1 .. pos + 1 /\ pos + 1 - 1 = pos
    BY <1>2, <2>1
  <2>4. source' = source
    BY DEF SkipWhitespace
  <2>5. pos' - 1 = pos
    BY <1>2, <1>3
  <2>6. Free' \in 1 .. pos'
    BY <1>3, <1>4, <2>3
  <2>7. \A j \in Free' .. pos' - 1 : source'[j] \in Spaces
    BY <1>4, <2>2, <2>4, <2>5
  <2> QED
    BY <2>6, <2>7 DEF BlankUpTo
<1>6. LexerTypeOK'
  BY <1>1, <1>3 DEF LexerTypeOK, SkipWhitespace
<1> QED
  BY <1>1, <1>3, <1>4, <1>5, <1>6 DEF LexerInv

\* A lexeme begins at its first character.
LEMMA LexemeBegins ==
  ASSUME LexerInv, NEW m \in {"word", "number", "string"}, NEW first, Nul \notin first,
         StartLexeme(m, first)
  PROVE  /\ LexerTypeOK' /\ Located' /\ Begun' /\ PositionsAreRight' /\ TokensSpellTheSource'
         /\ mode' = m /\ source' = source /\ value' = << >>
         /\ pos \in Nat /\ pos' = pos + 1 /\ start'.pos = pos /\ source[pos] \in first
<1>1. LexerTypeOK /\ Located /\ BlankUpTo(pos) /\ lex_error' = NoError
  BY DEF LexerInv, StartLexeme, LexerTypeOK
<1>2. Peek(0) = source[pos] /\ pos <= Len(source) /\ source[pos] \in first /\ pos \in Nat \ {0}
  BY <1>1, PeekSees DEF StartLexeme
<1>3. /\ pos' = pos + 1
      /\ pos' \in 1 .. Len(source') + 1
      /\ line' \in Nat
      /\ column' \in Int
      /\ Located'
  BY <1>1, <1>2, AdvanceMoves DEF StartLexeme
<1>4. PositionsAreRight' /\ TokensSpellTheSource' /\ Free' = Free
  BY <1>1, NothingPushed DEF StartLexeme
<1>5. start'.pos = pos /\ start'.line = line /\ start'.column = column
  BY DEF StartLexeme
<1>6. Begun'
  <2>1. start.pos' \in 1 .. pos' - 1
    BY <1>2, <1>3, <1>5
  <2>2. start'.line = LineOf(start.pos)' /\ start'.column = ColumnOf(start.pos)'
    BY <1>1, <1>5, SamePlaces DEF Located, StartLexeme
  <2>3. BlankUpTo(start.pos)'
    BY <1>1, <1>4, <1>5 DEF BlankUpTo, StartLexeme
  <2> QED
    BY <2>1, <2>2, <2>3 DEF Begun
<1>7. LexerTypeOK'
  BY <1>1, <1>3 DEF LexerTypeOK, StartLexeme
<1> QED
  BY <1>2, <1>3, <1>4, <1>5, <1>6, <1>7 DEF StartLexeme

\* A loop reads on in the lexeme it is in.
LEMMA LexemeMoves ==
  ASSUME LexerInv, mode \in {"word", "number", "string"}, mode' = mode,
         UNCHANGED <<source, start, tokens, lex_error>>, value' \in Seq(STRING),
         pos' \in pos + 1 .. Len(source) + 1, line' \in Nat, column' \in Int, Located'
  PROVE  LexerTypeOK' /\ Begun' /\ PositionsAreRight' /\ TokensSpellTheSource'
<1>1. LexerTypeOK /\ Located /\ Begun /\ lex_error' = NoError
  BY DEF LexerInv, LexerTypeOK
<1>2. pos \in Nat \ {0} /\ Len(source) \in Nat
  BY <1>1, PeekSees
<1>3. pos' \in 1 .. Len(source') + 1
  BY <1>2
<1>4. PositionsAreRight' /\ TokensSpellTheSource' /\ Free' = Free
  BY <1>1, NothingPushed
<1>5. Begun'
  <2>1. start.pos' \in 1 .. pos' - 1
    BY <1>1, <1>2, <1>3 DEF Begun
  <2>2. start'.line = LineOf(start.pos)' /\ start'.column = ColumnOf(start.pos)'
    BY <1>1, SamePlaces DEF Begun
  <2>3. BlankUpTo(start.pos)'
    BY <1>1, <1>4 DEF BlankUpTo, Begun
  <2> QED
    BY <2>1, <2>2, <2>3 DEF Begun
<1>6. LexerTypeOK'
  BY <1>1, <1>3 DEF LexerTypeOK
<1> QED
  BY <1>4, <1>5, <1>6

\* One character more of it.
LEMMA LexemeGrows ==
  ASSUME LexerInv, mode \in {"word", "number", "string"}, mode' = mode,
         UNCHANGED <<source, start, tokens, lex_error>>, value' \in Seq(STRING),
         pos <= Len(source), Advance
  PROVE  /\ LexerTypeOK' /\ Located' /\ Begun' /\ PositionsAreRight' /\ TokensSpellTheSource'
         /\ pos \in Nat /\ pos' = pos + 1 /\ start.pos \in 1 .. pos - 1
<1>1. LexerTypeOK /\ Located /\ Begun
  BY DEF LexerInv
<1>2. pos \in Nat \ {0} /\ Len(source) \in Nat
  BY <1>1, PeekSees
<1>3. pos' = pos + 1 /\ line' \in Nat /\ column' \in Int /\ Located'
  BY <1>1, AdvanceMoves
<1>4. pos' \in pos + 1 .. Len(source) + 1
  BY <1>2, <1>3
<1> QED
  BY <1>1, <1>2, <1>3, <1>4, LexemeMoves DEF Begun

LEMMA StartWordKeeps ==
  ASSUME LexerInv, StartLexeme("word", Letters)
  PROVE  LexerInv'
<1>1. /\ LexerTypeOK' /\ Located' /\ Begun' /\ PositionsAreRight' /\ TokensSpellTheSource'
      /\ mode' = "word" /\ source' = source
      /\ pos \in Nat /\ pos' = pos + 1 /\ start'.pos = pos /\ source[pos] \in Letters
  BY LexemeBegins, NulIsNoCharacter
<1>2. ReadAs(Letters, Letters \cup Digits)'
  BY <1>1 DEF ReadAs
<1> QED
  BY <1>1, <1>2 DEF LexerInv

LEMMA StartNumberKeeps ==
  ASSUME LexerInv, StartLexeme("number", Digits)
  PROVE  LexerInv'
<1>1. /\ LexerTypeOK' /\ Located' /\ Begun' /\ PositionsAreRight' /\ TokensSpellTheSource'
      /\ mode' = "number" /\ source' = source
      /\ pos \in Nat /\ pos' = pos + 1 /\ start'.pos = pos /\ source[pos] \in Digits
  BY LexemeBegins, NulIsNoCharacter
<1>2. ReadAs(Digits, Digits)'
  BY <1>1 DEF ReadAs
<1> QED
  BY <1>1, <1>2 DEF LexerInv

LEMMA StartStringKeeps ==
  ASSUME LexerInv, StartLexeme("string", {Quote})
  PROVE  LexerInv'
<1>1. /\ LexerTypeOK' /\ Located' /\ Begun' /\ PositionsAreRight' /\ TokensSpellTheSource'
      /\ mode' = "string" /\ source' = source /\ value' = << >>
      /\ pos \in Nat /\ pos' = pos + 1 /\ start'.pos = pos /\ source[pos] \in {Quote}
  BY LexemeBegins, NulIsNoCharacter
<1>2. Inside' = {}
  BY <1>1 DEF Inside
<1>3. ArePairs({}, Inside)' /\ Holds(value, Inside \ {})'
  <2>1. ArePairs({}, Inside)'
    BY <1>2 DEF ArePairs
  <2>2. Len(<< >>) = 0 /\ Cardinality({}) = 0
    BY FS_EmptySet
  <2>3. Holds(value, Inside \ {})'
    BY <1>1, <1>2, <2>2 DEF Holds
  <2> QED
    BY <2>1, <2>3
<1>4. Unescaped'
  BY <1>1, <1>3 DEF Unescaped
<1> QED
  BY <1>1, <1>4 DEF LexerInv

LEMMA ReadWordKeeps ==
  ASSUME LexerInv, ReadOn("word", Letters \cup Digits)
  PROVE  LexerInv'
<1>1. LexerTypeOK /\ ReadAs(Letters, Letters \cup Digits) /\ mode = "word" /\ value \in Seq(STRING)
  BY DEF LexerInv, LexerTypeOK, ReadOn
<1>2. pos <= Len(source) /\ source[pos] \in Letters \cup Digits
  BY <1>1, PeekSees, NulIsNoCharacter DEF ReadOn
<1>3. /\ LexerTypeOK' /\ Located' /\ Begun' /\ PositionsAreRight' /\ TokensSpellTheSource'
      /\ pos \in Nat /\ pos' = pos + 1 /\ start.pos \in 1 .. pos - 1
  BY <1>1, <1>2, LexemeGrows DEF ReadOn
<1>4. ReadAs(Letters, Letters \cup Digits)'
  <2>1. ASSUME NEW i \in start.pos + 1 .. pos PROVE source[i] \in Letters \cup Digits
    <3>1. i = pos \/ i \in start.pos + 1 .. pos - 1
      BY <1>3
    <3> QED
      BY <3>1, <1>1, <1>2 DEF ReadAs
  <2>2. pos' - 1 = pos
    BY <1>3
  <2> QED
    BY <2>1, <2>2, <1>1 DEF ReadAs, ReadOn
<1> QED
  BY <1>1, <1>3, <1>4 DEF LexerInv, ReadOn

LEMMA ReadNumberKeeps ==
  ASSUME LexerInv, ReadOn("number", Digits)
  PROVE  LexerInv'
<1>1. LexerTypeOK /\ ReadAs(Digits, Digits) /\ mode = "number" /\ value \in Seq(STRING)
  BY DEF LexerInv, LexerTypeOK, ReadOn
<1>2. pos <= Len(source) /\ source[pos] \in Digits
  BY <1>1, PeekSees, NulIsNoCharacter DEF ReadOn
<1>3. /\ LexerTypeOK' /\ Located' /\ Begun' /\ PositionsAreRight' /\ TokensSpellTheSource'
      /\ pos \in Nat /\ pos' = pos + 1 /\ start.pos \in 1 .. pos - 1
  BY <1>1, <1>2, LexemeGrows DEF ReadOn
<1>4. ReadAs(Digits, Digits)'
  <2>1. ASSUME NEW i \in start.pos + 1 .. pos PROVE source[i] \in Digits
    <3>1. i = pos \/ i \in start.pos + 1 .. pos - 1
      BY <1>3
    <3> QED
      BY <3>1, <1>1, <1>2 DEF ReadAs
  <2>2. pos' - 1 = pos
    BY <1>3
  <2> QED
    BY <2>1, <2>2, <1>1 DEF ReadAs, ReadOn
<1> QED
  BY <1>1, <1>3, <1>4 DEF LexerInv, ReadOn

\* A character of a literal is one place more that is read.
LEMMA StringCharacterKeeps ==
  ASSUME LexerInv, StringCharacter
  PROVE  LexerInv'
<1>1. LexerTypeOK /\ Unescaped /\ mode = "string" /\ value \in Seq(STRING)
  BY DEF LexerInv, LexerTypeOK, StringCharacter
<1>2. pos <= Len(source) /\ Peek(0) = source[pos] /\ pos \in Nat \ {0} /\ Len(source) \in Nat
  BY <1>1, PeekSees DEF StringCharacter, IsAtEnd
<1>3. source[pos] \in STRING /\ source[pos] # Quote /\ value' = Append(value, source[pos])
  BY <1>1, <1>2, TextType DEF StringCharacter, LexerTypeOK
<1>4. value' \in Seq(STRING)
  BY <1>1, <1>3
<1>5. /\ LexerTypeOK' /\ Located' /\ Begun' /\ PositionsAreRight' /\ TokensSpellTheSource'
      /\ pos \in Nat /\ pos' = pos + 1 /\ start.pos \in 1 .. pos - 1
  BY <1>1, <1>2, <1>4, LexemeGrows DEF StringCharacter
<1>6. source' = source /\ start' = start /\ mode' = "string"
  BY DEF StringCharacter
<1>7. PICK second \in SUBSET Inside : ArePairs(second, Inside) /\ Holds(value, Inside \ second)
  BY <1>1 DEF Unescaped
<1>8. Inside' = Inside \cup {pos} /\ (\A i \in Inside : i \in Int /\ i < pos) /\ IsFiniteSet(Inside)
  <2>1. Inside' = Inside \cup {pos} /\ \A i \in Inside : i \in Int /\ i < pos
    BY <1>5, <1>6 DEF Inside
  <2>2. IsFiniteSet(start.pos + 1 .. pos - 1)
    BY <1>5, FS_Interval
  <2> QED
    BY <2>1, <2>2 DEF Inside
<1>9. ArePairs(second, Inside)'
  <2>1. ArePairs(second, Inside \cup {pos})
    BY <1>3, <1>7, <1>8 DEF ArePairs
  <2> QED
    BY <2>1, <1>6, <1>8 DEF ArePairs
<1>10. Holds(value, Inside \ second)'
  <2>1. Inside \ second \in SUBSET Int /\ \A i \in Inside \ second : i < pos
    BY <1>8
  <2>2. IsFiniteSet(Inside \ second)
    BY <1>8, FS_Difference
  <2>3. Holds(Append(value, source[pos]), (Inside \ second) \cup {pos})
    <3>1. PICK S : S = Inside \ second
      OBVIOUS
    <3>2. pos \in Int /\ \A i \in S : i < pos
      BY <1>2, <2>1, <3>1
    <3>3. Holds(Append(value, source[pos]), S \cup {pos})
      BY <1>1, <1>3, <1>7, <2>1, <2>2, <3>1, <3>2, HoldsMore
    <3> QED
      BY <3>1, <3>3
  <2>4. (Inside \cup {pos}) \ second = (Inside \ second) \cup {pos}
    BY <1>8
  <2>5. Holds(value', Inside' \ second)
    BY <1>3, <1>8, <2>3, <2>4
  <2> QED
    BY <2>5, <1>6 DEF Holds
<1>11. Unescaped'
  <2>1. second \in SUBSET Inside'
    BY <1>8
  <2>2. source[start.pos] = Quote
    BY <1>1 DEF Unescaped
  <2> QED
    BY <1>6, <1>9, <1>10, <2>1, <2>2 DEF Unescaped
<1> QED
  BY <1>5, <1>6, <1>11 DEF LexerInv

\* Of a doubled quote the first is read and the second is passed over.
LEMMA EscapedQuoteKeeps ==
  ASSUME LexerInv, EscapedQuote
  PROVE  LexerInv'
<1>1. LexerTypeOK /\ Located /\ Begun /\ Unescaped /\ mode = "string" /\ value \in Seq(STRING)
  BY DEF LexerInv, LexerTypeOK, EscapedQuote
<1>2. /\ pos + 1 <= Len(source) /\ source[pos] = Quote /\ source[pos + 1] = Quote
      /\ pos \in Nat \ {0} /\ Len(source) \in Nat
  BY <1>1, PeekSees, NulIsNoCharacter DEF EscapedQuote
<1>3. source' = source /\ start' = start /\ mode' = "string" /\ AdvanceTwice
  BY DEF EscapedQuote
<1>4. Len(Quote) = 1 /\ Quote # "\n" /\ Quote \in STRING
  <2>1. Len(Quote) = 1
    BY SignsAssumption
  <2>2. Quote # "\n"
    BY DEF Quote
  <2>3. source[pos] \in STRING
    BY <1>1, <1>2, TextType DEF LexerTypeOK
  <2> QED
    BY <1>2, <2>1, <2>2, <2>3
<1>5. /\ pos' = pos + 2 /\ line' \in Nat /\ column' \in Int /\ Located'
  BY <1>1, <1>2, <1>3, <1>4, AdvanceTwiceMoves
<1>6. value' = Append(value, source[pos]) /\ value' \in Seq(STRING)
  BY <1>1, <1>2, <1>4 DEF EscapedQuote
<1>7. LexerTypeOK' /\ Begun' /\ PositionsAreRight' /\ TokensSpellTheSource'
  <2>1. pos' \in pos + 1 .. Len(source) + 1
    BY <1>2, <1>5
  <2> QED
    BY <1>1, <1>5, <1>6, <2>1, LexemeMoves DEF EscapedQuote
<1>8. PICK second \in SUBSET Inside : ArePairs(second, Inside) /\ Holds(value, Inside \ second)
  BY <1>1 DEF Unescaped
<1>9. start.pos \in 1 .. pos - 1
  BY <1>1 DEF Begun
<1>10. /\ Inside' = Inside \cup {pos, pos + 1}
       /\ \A i \in Inside : i \in Int /\ i < pos
       /\ IsFiniteSet(Inside)
  <2>1. Inside' = Inside \cup {pos, pos + 1} /\ \A i \in Inside : i \in Int /\ i < pos
    BY <1>2, <1>3, <1>5, <1>9 DEF Inside
  <2>2. start.pos + 1 \in Int /\ pos - 1 \in Int
    BY <1>2, <1>9
  <2>3. IsFiniteSet(start.pos + 1 .. pos - 1)
    BY <2>2, FS_Interval
  <2> QED
    BY <2>1, <2>3 DEF Inside
<1>11. PICK twice : twice = second \cup {pos + 1}
  OBVIOUS
<1>12. ArePairs(twice, Inside \cup {pos, pos + 1})
  <2>1. ASSUME NEW i \in twice
        PROVE  /\ i - 1 \in (Inside \cup {pos, pos + 1}) \ twice
               /\ source[i - 1] = Quote /\ source[i] = Quote
    <3>1. CASE i = pos + 1
      <4>1. i - 1 = pos /\ pos \notin twice
        BY <3>1, <1>2, <1>10, <1>11
      <4> QED
        BY <4>1, <3>1, <1>2
    <3>2. CASE i \in second
      <4>1. i - 1 \in Inside \ second /\ source[i - 1] = Quote /\ source[i] = Quote
        BY <3>2, <1>8 DEF ArePairs
      <4>2. i - 1 # pos + 1
        BY <4>1, <1>2, <1>10
      <4> QED
        BY <4>1, <4>2, <1>11
    <3> QED
      BY <3>1, <3>2, <1>11
  <2>2. ASSUME NEW i \in (Inside \cup {pos, pos + 1}) \ twice, source[i] = Quote
        PROVE  i + 1 \in twice
    <3>1. i = pos \/ i \in Inside \ second
      BY <1>11
    <3> QED
      BY <3>1, <2>2, <1>8, <1>11 DEF ArePairs
  <2> QED
    BY <2>1, <2>2 DEF ArePairs
<1>13. ArePairs(twice, Inside)'
  BY <1>3, <1>10, <1>12 DEF ArePairs
<1>14. Holds(value, Inside \ twice)'
  <2>1. PICK S : S = Inside \ second
    OBVIOUS
  <2>2. S \in SUBSET Int /\ pos \in Int /\ \A i \in S : i < pos
    BY <1>2, <1>10, <2>1
  <2>3. IsFiniteSet(S)
    BY <1>10, <2>1, FS_Difference
  <2>4. source[pos] \in STRING
    BY <1>2, <1>4
  <2>5. Holds(Append(value, source[pos]), S \cup {pos})
    BY <1>1, <1>8, <2>1, <2>2, <2>3, <2>4, HoldsMore
  <2>6. (Inside \cup {pos, pos + 1}) \ twice = S \cup {pos}
    BY <1>2, <1>8, <1>10, <1>11, <2>1
  <2>7. Holds(value', Inside' \ twice)
    BY <1>6, <1>10, <2>5, <2>6
  <2> QED
    BY <2>7, <1>3 DEF Holds
<1>15. Unescaped'
  <2>1. twice \in SUBSET Inside'
    BY <1>10, <1>11
  <2>2. source[start.pos] = Quote
    BY <1>1 DEF Unescaped
  <2> QED
    BY <1>3, <1>13, <1>14, <2>1, <2>2 DEF Unescaped
<1> QED
  BY <1>3, <1>5, <1>7, <1>15 DEF LexerInv

-----------------------------------------------------------------------------
(* The actions: the end of a lexeme, and of the text. *)

\* A token that is what the source says is pushed where it ends.
LEMMA PushKeeps ==
  ASSUME LexerInv, mode # "end", NEW t, Push(t), Spells(t, Free),
         t.line = LineOf(t.from), t.column = ColumnOf(t.from), t.to + 1 = pos',
         pos' \in 1 .. Len(source) + 1, line' \in Nat, column' \in Int, Located'
  PROVE  LexerInv'
<1>1. LexerTypeOK /\ source' = source /\ lex_error' = NoError /\ tokens' = Append(tokens, t) /\ mode' = "start"
  BY DEF LexerInv, LexerTypeOK, Push
<1>2. /\ tokens' \in Seq(Range(tokens'))
      /\ PositionsAreRight'
      /\ TokensSpellTheSource'
      /\ Free' = pos'
  BY <1>1, TokenPushed
<1>3. BlankUpTo(pos)'
  <2>1. Len(source) \in Nat
    BY <1>1, TextType DEF LexerTypeOK
  <2>2. PICK p \in Nat \ {0} : p = pos'
    BY <2>1
  <2>3. p \in 1 .. p /\ \A j \in p .. p - 1 : FALSE
    OBVIOUS
  <2> QED
    BY <1>2, <2>2, <2>3 DEF BlankUpTo
<1>4. LexerTypeOK'
  BY <1>1, <1>2 DEF LexerTypeOK, Push
<1> QED
  BY <1>1, <1>2, <1>3, <1>4 DEF LexerInv

\* The character that Peek sees is the one after the token.
LEMMA NextIsPeek ==
  ASSUME LexerTypeOK
  PROVE  /\ (IF pos - 1 < Len(source) THEN source[pos - 1 + 1] ELSE Nul) = Peek(0)
         /\ (IF pos < Len(source) THEN source[pos + 1] ELSE Nul) = Peek(1)
<1>1. pos \in Nat /\ Len(source) \in Nat
  BY PeekSees
<1>2. pos - 1 + 1 = pos /\ pos + 0 = pos
  BY <1>1
<1>3. pos - 1 < Len(source) <=> ~ (pos > Len(source))
  BY <1>1
<1>4. pos < Len(source) <=> ~ (pos + 1 > Len(source))
  BY <1>1
<1> QED
  BY <1>2, <1>3, <1>4 DEF Peek

\* The loop of a word or a number has read all of it.
LEMMA LexemeEnds ==
  ASSUME LexerInv, Begun, NEW first, NEW more, ReadAs(first, more), Peek(0) \notin more,
         NEW t, t.from = start.pos, t.to = pos - 1, t.text = LexemeText,
         \/ t.type = "INTEGER_LITERAL" /\ first = Digits /\ more = Digits
         \/ t.type \in WordTypes /\ first = Letters /\ more = Letters \cup Digits
  PROVE  Spells(t, Free)
<1>1. LexerTypeOK
  BY DEF LexerInv
<1>2. PICK next : next = IF t.to < Len(source) THEN source[t.to + 1] ELSE Nul
  OBVIOUS
<1>3. next = Peek(0)
  BY <1>1, <1>2, NextIsPeek
<1>4. Free <= t.from /\ \A i \in Free .. t.from - 1 : source[i] \in Spaces
  BY DEF Begun, BlankUpTo
<1>5. IsLexeme(t, first, more, next)
  BY <1>3 DEF IsLexeme, ReadAs, LexemeText, Lexeme
<1>6. /\ t.type # "END_OF_INPUT" /\ t.type # "STRING_LITERAL"
      /\ t.type \in WordTypes => t.type # "INTEGER_LITERAL"
  BY DEF WordTypes, Keywords
<1> QED
  BY <1>2, <1>4, <1>5, <1>6 DEF Spells

LEMMA EndOfWordKeeps ==
  ASSUME LexerInv, EndOfWord
  PROVE  LexerInv'
<1>1. LexerTypeOK /\ Located /\ Begun /\ ReadAs(Letters, Letters \cup Digits) /\ mode = "word"
  BY DEF LexerInv, EndOfWord
<1>2. UNCHANGED <<source, pos, line, column>> /\ Peek(0) \notin Letters \cup Digits
  BY DEF EndOfWord, Push
<1>3. PICK upper : Push(Token(IF upper \in Keywords THEN upper ELSE "IDENTIFIER",
                              LexemeText, start.line, start.column, start.pos))
  BY DEF EndOfWord
<1>4. PICK type : type = IF upper \in Keywords THEN upper ELSE "IDENTIFIER"
  OBVIOUS
<1>5. PICK t : t = [type |-> type, text |-> LexemeText, int_value |-> 0, string_value |-> "",
                    line |-> start.line, column |-> start.column,
                    from |-> start.pos, to |-> pos - 1]
  OBVIOUS
<1>6. Push(t)
  BY <1>2, <1>3, <1>4, <1>5 DEF Token
<1>7. type \in WordTypes
  BY <1>4 DEF WordTypes
<1>8. /\ t.type = type /\ t.text = LexemeText /\ t.line = start.line /\ t.column = start.column
      /\ t.from = start.pos /\ t.to = pos - 1
  BY <1>5
<1>9. Spells(t, Free)
  BY <1>1, <1>2, <1>7, <1>8, LexemeEnds
<1>10. t.line = LineOf(t.from) /\ t.column = ColumnOf(t.from)
  BY <1>1, <1>8 DEF Begun
<1>11. t.to + 1 = pos' /\ pos' \in 1 .. Len(source) + 1 /\ line' \in Nat /\ column' \in Int
  BY <1>1, <1>2, <1>8, PeekSees DEF LexerTypeOK
<1>12. Located'
  BY <1>1, <1>2, StaysLocated
<1> QED
  BY <1>1, <1>6, <1>9, <1>10, <1>11, <1>12, PushKeeps

\* An error leaves everything as it is, and says where.
LEMMA ThrowKeeps ==
  ASSUME LexerInv, NEW kind, NEW l, NEW c, Throw(kind, l, c),
         kind = "unexpected" => l = LineOf(pos) /\ c = ColumnOf(pos),
         kind = "unterminated" => l = LineOf(start.pos) /\ c = ColumnOf(start.pos)
  PROVE  LexerInv'
<1>1. /\ UNCHANGED <<source, pos, line, column, start, value, tokens>>
      /\ mode' = "end"
      /\ lex_error'.kind = kind /\ lex_error'.line = l /\ lex_error'.column = c
  BY DEF Throw
<1>2. LexerTypeOK' /\ Located'
  BY <1>1, StaysLocated DEF LexerInv, LexerTypeOK
<1>3. TokensSpellTheSource'
  <2>1. \A k \in Newest' : Spells(tokens[k], IF k = 1 THEN 1 ELSE tokens[k - 1].to + 1)
    BY <1>1 DEF LexerInv, TokensSpellTheSource, Newest
  <2> QED
    BY <1>1, <2>1, SameSpelling DEF TokensSpellTheSource
<1>4. PositionsAreRight'
  <2>1. \A k \in Newest : tokens[k].line = LineOf(tokens[k].from) /\ tokens[k].column = ColumnOf(tokens[k].from)
    BY DEF LexerInv, PositionsAreRight
  <2>2. Newest' = Newest
    BY <1>1 DEF Newest
  <2>3. \A k \in Newest' : /\ tokens'[k].line = LineOf(tokens[k].from)'
                           /\ tokens'[k].column = ColumnOf(tokens[k].from)'
    BY <1>1, <2>1, <2>2, SamePlaces
  <2>4. /\ kind = "unexpected" => l = LineOf(pos)' /\ c = ColumnOf(pos)'
        /\ kind = "unterminated" => l = LineOf(start.pos)' /\ c = ColumnOf(start.pos)'
    BY <1>1, SamePlaces
  <2> QED
    BY <1>1, <2>3, <2>4 DEF PositionsAreRight
<1> QED
  BY <1>1, <1>2, <1>3, <1>4 DEF LexerInv

LEMMA EndOfNumberKeeps ==
  ASSUME LexerInv, EndOfNumber
  PROVE  LexerInv'
<1>1. LexerTypeOK /\ Located /\ Begun /\ ReadAs(Digits, Digits) /\ mode = "number"
  BY DEF LexerInv, EndOfNumber
<1>2. Peek(0) \notin Digits
  BY DEF EndOfNumber
<1>3. CASE Throw("out_of_range", 0, 0)
  BY <1>3, ThrowKeeps
<1>4. ASSUME NEW n, UNCHANGED <<pos, line, column>>,
             Push([Token("INTEGER_LITERAL", LexemeText, start.line, start.column, start.pos)
                       EXCEPT !.int_value = n])
      PROVE  LexerInv'
  <2>1. PICK base : base = Token("INTEGER_LITERAL", LexemeText, start.line, start.column, start.pos)
    OBVIOUS
  <2>2. PICK t : t = [base EXCEPT !.int_value = n] /\ Push(t)
    BY <1>4, <2>1
  <2>3. /\ t.type = "INTEGER_LITERAL" /\ t.text = LexemeText /\ t.line = start.line /\ t.column = start.column
        /\ t.from = start.pos /\ t.to = pos - 1
    <3>1. pos' - 1 = pos - 1
      BY <1>4
    <3>2. base = [type |-> "INTEGER_LITERAL", text |-> LexemeText, int_value |-> 0, string_value |-> "",
                  line |-> start.line, column |-> start.column, from |-> start.pos, to |-> pos - 1]
      BY <2>1, <3>1 DEF Token
    <3> QED
      BY <2>2, <3>2
  <2>4. Spells(t, Free)
    BY <1>1, <1>2, <2>3, LexemeEnds
  <2>5. t.line = LineOf(t.from) /\ t.column = ColumnOf(t.from)
    BY <1>1, <2>3 DEF Begun
  <2>6. t.to + 1 = pos' /\ pos' \in 1 .. Len(source) + 1 /\ line' \in Nat /\ column' \in Int
    BY <1>1, <1>4, <2>3, PeekSees DEF LexerTypeOK
  <2>7. Located'
    BY <1>1, <1>4, <2>2, StaysLocated DEF Push
  <2> QED
    BY <1>1, <2>2, <2>4, <2>5, <2>6, <2>7, PushKeeps
<1> QED
  BY <1>3, <1>4 DEF EndOfNumber

LEMMA ClosingQuoteKeeps ==
  ASSUME LexerInv, ClosingQuote
  PROVE  LexerInv'
<1>1. LexerTypeOK /\ Located /\ Begun /\ Unescaped /\ mode = "string" /\ value \in Seq(STRING)
  BY DEF LexerInv, LexerTypeOK, ClosingQuote
<1>2. pos <= Len(source) /\ source[pos] = Quote /\ Peek(1) # Quote /\ pos \in Nat \ {0}
  BY <1>1, PeekSees, NulIsNoCharacter DEF ClosingQuote
<1>3. source' = source
  BY DEF ClosingQuote, Push
<1>4. /\ pos' = pos + 1
      /\ pos' \in 1 .. Len(source') + 1
      /\ line' \in Nat
      /\ column' \in Int
      /\ Located'
  BY <1>1, <1>2, <1>3, AdvanceMoves DEF ClosingQuote
<1>5. pos' - 1 = pos
  BY <1>2, <1>4
<1>6. PICK text, base : /\ text = Spelled(value)
                        /\ base = Token("STRING_LITERAL", text, start.line, start.column, start.pos)
  OBVIOUS
<1>7. PICK t : t = [base EXCEPT !.string_value = text] /\ Push(t)
  BY <1>6 DEF ClosingQuote
<1>8. /\ t.type = "STRING_LITERAL" /\ t.string_value = Spelled(value)
      /\ t.line = start.line /\ t.column = start.column
      /\ t.from = start.pos /\ t.to = pos
  <2>1. base = [type |-> "STRING_LITERAL", text |-> text, int_value |-> 0, string_value |-> "",
                line |-> start.line, column |-> start.column, from |-> start.pos, to |-> pos]
    BY <1>5, <1>6 DEF Token
  <2>2. /\ t.type = base.type /\ t.line = base.line /\ t.column = base.column
        /\ t.from = base.from /\ t.to = base.to /\ t.string_value = text
    BY <1>7, <2>1
  <2>3. /\ base.type = "STRING_LITERAL" /\ base.line = start.line /\ base.column = start.column
        /\ base.from = start.pos /\ base.to = pos
    BY <2>1
  <2>4. t.string_value = Spelled(value)
    BY <1>6, <2>2
  <2> QED
    BY <2>2, <2>3, <2>4
<1>9. IsQuoted(t)
  <2>1. PICK second \in SUBSET Inside : ArePairs(second, Inside) /\ Holds(value, Inside \ second)
    BY <1>1 DEF Unescaped
  <2>2. value = ElementsAt(Inside \ second)
    BY <1>1, <2>1, HoldsElements
  <2>3. t.to > t.from
    BY <1>1, <1>2, <1>8 DEF Begun
  <2>4. source[t.from] = Quote /\ source[t.to] = Quote
    BY <1>1, <1>2, <1>8 DEF Unescaped
  <2>5. Inside = t.from + 1 .. t.to - 1
    BY <1>8 DEF Inside
  <2> QED
    BY <1>8, <2>1, <2>2, <2>3, <2>4, <2>5 DEF IsQuoted
<1>10. Spells(t, Free)
  <2>1. PICK next : next = IF t.to < Len(source) THEN source[t.to + 1] ELSE Nul
    OBVIOUS
  <2>2. next # Quote
    BY <1>1, <1>2, <1>8, <2>1, NextIsPeek
  <2>3. Free <= t.from /\ \A i \in Free .. t.from - 1 : source[i] \in Spaces
    BY <1>1, <1>8 DEF Begun, BlankUpTo
  <2>4. t.type # "END_OF_INPUT" /\ t.type # "INTEGER_LITERAL" /\ t.type \notin WordTypes
    BY <1>8 DEF WordTypes, Keywords
  <2> QED
    BY <1>8, <1>9, <2>1, <2>2, <2>3, <2>4 DEF Spells
<1>11. t.line = LineOf(t.from) /\ t.column = ColumnOf(t.from)
  BY <1>1, <1>8 DEF Begun
<1>12. t.to + 1 = pos' /\ pos' \in 1 .. Len(source) + 1
  BY <1>3, <1>4, <1>8
<1> QED
  BY <1>1, <1>4, <1>7, <1>10, <1>11, <1>12, PushKeeps

\* The place where the sign begins that is read next, if no newline is in it.
LEMMA SignBegins ==
  ASSUME LexerInv, mode = "start", NEW n \in Nat, NEW text, Len(text) = n,
         line' = line, column' = column + n
  PROVE  /\ line' = LineOf(pos) /\ column' - Len(text) = ColumnOf(pos)
         /\ Free <= pos /\ \A i \in Free .. pos - 1 : source[i] \in Spaces
<1>1. line = LineOf(pos) /\ column = ColumnOf(pos) /\ column \in Int
  BY DEF LexerInv, Located, LexerTypeOK
<1>2. BlankUpTo(pos)
  BY DEF LexerInv
<1>3. column + n - n = column
  BY <1>1
<1> QED
  BY <1>1, <1>2, <1>3 DEF BlankUpTo

\* A sign is no other kind of token.
LEMMA SignIsNoWord ==
  ASSUME NEW sign \in Punctuation \cup BeforeEquals
  PROVE  /\ sign # "\n" /\ Len(sign) = 1 /\ Len(sign \o "=") = 2
         /\ \A type \in {sign, sign \o "="} :
               type \notin WordTypes \cup {"INTEGER_LITERAL", "STRING_LITERAL", "END_OF_INPUT"}
<1>1. sign # "\n" /\ sign \notin WordTypes \cup {"INTEGER_LITERAL", "STRING_LITERAL", "END_OF_INPUT"}
  BY DEF Punctuation, BeforeEquals, WordTypes, Keywords
<1> QED
  BY <1>1, SignsAssumption

\* One character that is a token.
LEMMA SignKeeps ==
  ASSUME LexerInv, mode = "start", Peek(0) \in Punctuation \cup {"<", ">"},
         Peek(0) \in {"<", ">"} => Peek(1) # "=",
         Advance, Push(MakeToken(Peek(0)))
  PROVE  LexerInv'
<1>1. LexerTypeOK /\ Located
  BY DEF LexerInv
<1>2. PICK sign : sign = Peek(0)
  OBVIOUS
<1>3. sign \in Punctuation \cup BeforeEquals
  BY <1>2 DEF BeforeEquals
<1>4. pos <= Len(source) /\ source[pos] = sign /\ pos \in Nat \ {0} /\ Len(source) \in Nat
  BY <1>1, <1>2, <1>3, PeekSees, NulIsNoCharacter
<1>5. source' = source
  BY DEF Push
<1>6. /\ pos' = pos + 1 /\ pos' \in 1 .. Len(source') + 1 /\ line' \in Nat /\ column' \in Int /\ Located'
  BY <1>1, <1>4, <1>5, AdvanceMoves
<1>7. line' = line /\ column' = column + 1
  BY <1>3, <1>4, SignIsNoWord DEF Advance
<1>8. PICK l, c : l = line' /\ c = column' - Len(sign)
  OBVIOUS
<1>9. /\ l = LineOf(pos) /\ c = ColumnOf(pos)
      /\ Free <= pos /\ \A i \in Free .. pos - 1 : source[i] \in Spaces
  BY <1>3, <1>7, <1>8, SignBegins, SignIsNoWord
<1>10. PICK t : t = [type |-> sign, text |-> sign, int_value |-> 0, string_value |-> "",
                     line |-> l, column |-> c, from |-> pos, to |-> pos]
  OBVIOUS
<1>11. Push(t)
  <2>1. pos' - 1 = pos
    BY <1>4, <1>6
  <2>2. MakeToken(sign) = t
    BY <1>8, <1>10, <2>1 DEF MakeToken, Token
  <2> QED
    BY <1>2, <2>2
<1>12. t.type = sign /\ t.text = sign /\ t.line = l /\ t.column = c /\ t.from = pos /\ t.to = pos
  BY <1>10
<1>13. Spells(t, Free)
  <2>1. PICK next : next = IF t.to < Len(source) THEN source[t.to + 1] ELSE Nul
    OBVIOUS
  <2>2. next = Peek(1)
    BY <1>1, <1>12, <2>1, NextIsPeek
  <2>3. IsSign(t, next)
    BY <1>2, <1>4, <1>12, <2>2 DEF IsSign
  <2>4. t.type \notin WordTypes \cup {"INTEGER_LITERAL", "STRING_LITERAL", "END_OF_INPUT"}
    BY <1>3, <1>12, SignIsNoWord
  <2> QED
    BY <1>9, <1>12, <2>1, <2>3, <2>4 DEF Spells
<1>14. t.line = LineOf(t.from) /\ t.column = ColumnOf(t.from) /\ t.to + 1 = pos' /\ pos' \in 1 .. Len(source) + 1
  BY <1>5, <1>6, <1>9, <1>12
<1> QED
  BY <1>6, <1>11, <1>13, <1>14, PushKeeps

\* Two characters that are a token.
LEMMA TwoSignsKeep ==
  ASSUME LexerInv, mode = "start", Peek(0) \in BeforeEquals, Peek(1) = "=",
         AdvanceTwice, Push(MakeToken(Peek(0) \o "="))
  PROVE  LexerInv'
<1>1. LexerTypeOK /\ Located
  BY DEF LexerInv
<1>2. PICK sign \in BeforeEquals : sign = Peek(0)
  OBVIOUS
<1>3. /\ pos + 1 <= Len(source) /\ source[pos] = sign /\ source[pos + 1] = "="
      /\ pos \in Nat \ {0} /\ Len(source) \in Nat
  BY <1>1, <1>2, PeekSees, NulIsNoCharacter
<1>4. source' = source
  BY DEF Push
<1>5. sign # "\n" /\ Len(sign) = 1 /\ "=" # "\n" /\ Len("=") = 1
  <2>1. "=" \in Punctuation
    BY DEF Punctuation
  <2> QED
    BY <2>1, SignIsNoWord
<1>6. /\ pos' = pos + 2 /\ pos' \in 1 .. Len(source') + 1 /\ line' \in Nat /\ column' \in Int /\ Located'
  BY <1>1, <1>3, <1>4, <1>5, AdvanceTwiceMoves
<1>7. line' = line /\ column' = column + 2
  BY DEF AdvanceTwice
<1>8. PICK text : text = sign \o "="
  OBVIOUS
<1>9. Len(text) = 2
  BY <1>8, SignIsNoWord
<1>10. PICK l, c : l = line' /\ c = column' - Len(text)
  OBVIOUS
<1>11. /\ l = LineOf(pos) /\ c = ColumnOf(pos)
       /\ Free <= pos /\ \A i \in Free .. pos - 1 : source[i] \in Spaces
  BY <1>7, <1>9, <1>10, SignBegins
<1>12. PICK t : t = [type |-> text, text |-> text, int_value |-> 0, string_value |-> "",
                     line |-> l, column |-> c, from |-> pos, to |-> pos + 1]
  OBVIOUS
<1>13. Push(t)
  <2>1. pos' - 1 = pos + 1
    BY <1>3, <1>6
  <2>2. MakeToken(text) = t
    BY <1>10, <1>12, <2>1 DEF MakeToken, Token
  <2> QED
    BY <1>2, <1>8, <2>2
<1>14. t.type = text /\ t.text = text /\ t.line = l /\ t.column = c /\ t.from = pos /\ t.to = pos + 1
  BY <1>12
<1>15. Spells(t, Free)
  <2>1. PICK next : next = IF t.to < Len(source) THEN source[t.to + 1] ELSE Nul
    OBVIOUS
  <2>2. IsSign(t, next)
    BY <1>2, <1>3, <1>8, <1>14 DEF IsSign
  <2>3. t.type \notin WordTypes \cup {"INTEGER_LITERAL", "STRING_LITERAL", "END_OF_INPUT"}
    BY <1>8, <1>14, SignIsNoWord
  <2> QED
    BY <1>11, <1>14, <2>1, <2>2, <2>3 DEF Spells
<1>16. t.line = LineOf(t.from) /\ t.column = ColumnOf(t.from) /\ t.to + 1 = pos' /\ pos' \in 1 .. Len(source) + 1
  BY <1>3, <1>4, <1>6, <1>11, <1>14
<1> QED
  BY <1>6, <1>13, <1>15, <1>16, PushKeeps

LEMMA ComparisonKeeps ==
  ASSUME LexerInv, LexComparison
  PROVE  LexerInv'
<1>1. mode = "start" /\ Peek(0) \in BeforeEquals
  BY DEF LexComparison
<1>2. CASE Peek(1) = "=" /\ AdvanceTwice /\ Push(MakeToken(Peek(0) \o "="))
  BY <1>1, <1>2, TwoSignsKeep
<1>3. CASE Peek(1) # "=" /\ Peek(0) # "!" /\ Advance /\ Push(MakeToken(Peek(0)))
  <2>1. Peek(0) \in {"<", ">"}
    BY <1>1, <1>3 DEF BeforeEquals
  <2> QED
    BY <1>1, <1>3, <2>1, SignKeeps
<1> QED
  BY <1>2, <1>3 DEF LexComparison

LEMMA PunctuationKeeps ==
  ASSUME LexerInv, LexPunctuation
  PROVE  LexerInv'
<1>1. mode = "start" /\ Peek(0) \in Punctuation /\ Advance /\ Push(MakeToken(Peek(0)))
  BY DEF LexPunctuation
<1>2. Peek(0) \notin {"<", ">"}
  BY <1>1 DEF Punctuation
<1> QED
  BY <1>1, <1>2, SignKeeps

\* The end of the text is a token too.
LEMMA EndOfInputKeeps ==
  ASSUME LexerInv, EndOfInput
  PROVE  LexerInv'
<1>1. LexerTypeOK /\ Located /\ BlankUpTo(pos) /\ lex_error' = NoError
  BY DEF LexerInv, EndOfInput, LexerTypeOK
<1>2. UNCHANGED <<source, pos, line, column, start, value>> /\ mode' = "end"
  BY DEF EndOfInput
<1>3. PICK t : t = [type |-> "END_OF_INPUT", text |-> "", int_value |-> 0, string_value |-> "",
                    line |-> line, column |-> column, from |-> pos, to |-> pos]
  OBVIOUS
<1>4. tokens' = Append(tokens, t)
  BY <1>3 DEF EndOfInput
<1>5. t.type = "END_OF_INPUT" /\ t.line = line /\ t.column = column /\ t.from = pos
  BY <1>3
<1>6. t.line = LineOf(t.from) /\ t.column = ColumnOf(t.from)
  BY <1>1, <1>5 DEF Located
<1>7. Spells(t, Free)
  <2>1. pos = Len(source) + 1
    <3>1. pos \in 1 .. Len(source) + 1 /\ Len(source) \in Nat
      BY <1>1, PeekSees DEF LexerTypeOK
    <3>2. pos > Len(source)
      BY DEF EndOfInput, IsAtEnd
    <3> QED
      BY <3>1, <3>2
  <2>2. Free <= t.from /\ \A i \in Free .. t.from - 1 : source[i] \in Spaces
    BY <1>1, <1>5 DEF BlankUpTo
  <2>3. t.type # "STRING_LITERAL" /\ t.type # "INTEGER_LITERAL" /\ t.type \notin WordTypes
    BY <1>5 DEF WordTypes, Keywords
  <2> QED
    BY <1>5, <2>1, <2>2, <2>3 DEF Spells
<1>8. tokens' \in Seq(Range(tokens')) /\ PositionsAreRight' /\ TokensSpellTheSource'
  BY <1>1, <1>2, <1>4, <1>6, <1>7, TokenPushed
<1>9. LexerTypeOK' /\ Located'
  BY <1>1, <1>2, <1>8, StaysLocated DEF LexerTypeOK
<1> QED
  BY <1>2, <1>8, <1>9 DEF LexerInv

-----------------------------------------------------------------------------
(* The invariant. *)

LEMMA LexerInitRight ==
  ASSUME LexerInit
  PROVE  LexerInv
<1>1. tokens = << >> /\ lex_error = NoError /\ pos = 1 /\ mode = "start"
  BY DEF LexerInit
<1>2. LexerTypeOK
  <2>1. source \in Sources /\ line = 1 /\ column = 1 /\ value = << >>
    BY DEF LexerInit
  <2>2. Len(source) \in Nat
    BY <2>1, TextType
  <2>3. tokens \in Seq(Range(tokens)) /\ value \in Seq(STRING)
    BY <1>1, <2>1
  <2> QED
    BY <1>1, <2>1, <2>2, <2>3 DEF LexerTypeOK
<1>3. Located
  BY FirstPlace DEF LexerInit, Located
<1>4. Len(tokens) = 0
  BY <1>1
<1>5. BlankUpTo(pos)
  BY <1>1, <1>4 DEF BlankUpTo, Free
<1>6. Newest = {}
  BY <1>4 DEF Newest
<1>7. PositionsAreRight /\ TokensSpellTheSource
  BY <1>1, <1>6 DEF PositionsAreRight, TokensSpellTheSource, NoError
<1> QED
  BY <1>1, <1>2, <1>3, <1>5, <1>7 DEF LexerInv

\* What may be thrown before a token is complete.
LEMMA ErrorsKeep ==
  ASSUME LexerInv, Unterminated \/ UnexpectedCharacter
  PROVE  LexerInv'
<1>1. CASE Unterminated
  <2>1. Throw("unterminated", start.line, start.column) /\ Begun
    BY <1>1 DEF Unterminated, LexerInv
  <2> QED
    BY <2>1, ThrowKeeps DEF Begun
<1>2. CASE UnexpectedCharacter
  <2>1. Throw("unexpected", line, column) /\ Located
    BY <1>2 DEF UnexpectedCharacter, LexerInv
  <2> QED
    BY <2>1, ThrowKeeps DEF Located
<1> QED
  BY <1>1, <1>2

LEMMA LexerIdles ==
  ASSUME LexerInv, UNCHANGED lexer
  PROVE  LexerInv'
<1>1. UNCHANGED <<source, pos, line, column, mode, start, value, tokens, lex_error>>
  BY DEF lexer
<1>2. LexerTypeOK' /\ Located'
  BY <1>1, StaysLocated DEF LexerInv, LexerTypeOK
<1>3. Free' = Free
  BY <1>1 DEF Free
<1>4. mode' = "start" => BlankUpTo(pos)'
  BY <1>1, <1>3 DEF LexerInv, BlankUpTo
<1>5. mode' \in {"word", "number", "string"} => Begun'
  <2>1. mode' \in {"word", "number", "string"} => Begun
    BY <1>1 DEF LexerInv
  <2>2. \A i : BlankUpTo(i)' <=> BlankUpTo(i)
    BY <1>1, <1>3 DEF BlankUpTo
  <2> QED
    BY <1>1, <2>1, <2>2, SamePlaces DEF Begun
<1>6. \A first, more : ReadAs(first, more)' <=> ReadAs(first, more)
  BY <1>1 DEF ReadAs
<1>7. Unescaped' <=> Unescaped
  <2>1. \A second, inside : ArePairs(second, inside)' <=> ArePairs(second, inside)
    BY <1>1 DEF ArePairs
  <2>2. Inside' = Inside
    BY <1>1 DEF Inside
  <2>3. \A v, S : Holds(v, S)' <=> Holds(v, S)
    BY <1>1 DEF Holds
  <2> QED
    BY <1>1, <2>1, <2>2, <2>3 DEF Unescaped
<1>8. TokensSpellTheSource'
  <2>1. \A k \in Newest' : Spells(tokens[k], IF k = 1 THEN 1 ELSE tokens[k - 1].to + 1)
    BY <1>1 DEF LexerInv, TokensSpellTheSource, Newest
  <2> QED
    BY <1>1, <2>1, SameSpelling DEF TokensSpellTheSource
<1>9. PositionsAreRight'
  <2>1. Newest' = Newest
    BY <1>1 DEF Newest
  <2> QED
    BY <1>1, <2>1, SamePlaces DEF LexerInv, PositionsAreRight
<1> QED
  BY <1>1, <1>2, <1>4, <1>5, <1>6, <1>7, <1>8, <1>9 DEF LexerInv

\* Each loop of the lexer, and each way out of it, keeps the invariant.
LEMMA TokenizeKeeps ==
  ASSUME LexerInv, Tokenize
  PROVE  LexerInv'
<1>1. CASE SkipWhitespace
  BY <1>1, SkipWhitespaceKeeps
<1>2. CASE LexIdentifierOrKeyword
  BY <1>2, StartWordKeeps, ReadWordKeeps, EndOfWordKeeps DEF LexIdentifierOrKeyword
<1>3. CASE LexNumber
  BY <1>3, StartNumberKeeps, ReadNumberKeeps, EndOfNumberKeeps DEF LexNumber
<1>4. CASE LexString
  BY <1>4, StartStringKeeps, StringCharacterKeeps, EscapedQuoteKeeps, ClosingQuoteKeeps, ErrorsKeep
     DEF LexString
<1>5. CASE LexPunctuation
  BY <1>5, PunctuationKeeps
<1>6. CASE LexComparison
  BY <1>6, ComparisonKeeps
<1>7. CASE UnexpectedCharacter
  BY <1>7, ErrorsKeep
<1>8. CASE EndOfInput
  BY <1>8, EndOfInputKeeps
<1> QED
  BY <1>1, <1>2, <1>3, <1>4, <1>5, <1>6, <1>7, <1>8 DEF Tokenize

\* The inductive invariant: line_ and column_ are those of the next element,
\* what a loop has read is what its lexeme may consist of, and all before it
\* that belongs to no token is blank.
THEOREM LexerCorrect == LexerSpec => []LexerInv
<1>1. LexerInit => LexerInv
  BY LexerInitRight
<1>2. LexerInv /\ [Tokenize]_lexer => LexerInv'
  BY TokenizeKeeps, LexerIdles
<1> QED
  BY <1>1, <1>2, PTL DEF LexerSpec

\* Whatever the text: the line and the column of every token, and of a
\* LexError, are those of the character where it begins, also after newlines
\* in blanks and in literals, although a sign's column is counted back from
\* the column after it.
THEOREM PositionsAreAlwaysRight == LexerSpec => []PositionsAreRight
<1>1. LexerInv => PositionsAreRight
  BY DEF LexerInv
<1> QED
  BY <1>1, LexerCorrect, PTL

\* Whatever the text: the tokens spell it.  No character but a blank is lost,
\* none is read twice, a token is as long as it can be, and a literal is its
\* inside with one quote of every pair.
THEOREM TokensAlwaysSpellTheSource == LexerSpec => []TokensSpellTheSource
<1>1. LexerInv => TokensSpellTheSource
  BY DEF LexerInv
<1> QED
  BY <1>1, LexerCorrect, PTL
=============================================================================
