-------------------------- MODULE CollectionLemmas --------------------------
(***************************************************************************)
(* Facts about numbers and sequences that the proofs about the storage     *)
(* engine and about the planner share.                                     *)
(***************************************************************************)
EXTENDS Integers, SequencesExt, SequenceTheorems, WellFoundedInduction, TLAPS

\* Less-than on the naturals, as a set of pairs, is well founded.
LEMMA NatLessThanPairs ==
  IsWellFoundedOn({pair \in Nat \X Nat : pair[1] < pair[2]}, Nat)
BY NatLessThanWellFounded DEF OpToRel

\* A non-empty set of naturals has a least element.
LEMMA LeastNatural ==
  ASSUME NEW T \in SUBSET Nat, T # {}
  PROVE  \E x \in T : \A y \in T : x <= y
<1> DEFINE R == {pair \in Nat \X Nat : pair[1] < pair[2]}
<1>1. IsWellFoundedOn(R, Nat)
  BY NatLessThanPairs
<1>2. \A x, y \in Nat : y < x => <<y, x>> \in R
  OBVIOUS
<1> HIDE DEF R
<1>3. PICK x \in T : \A y \in T : ~(<<y, x>> \in R)
  BY <1>1, WFMin
<1>4. \A y \in T : ~(y < x)
  BY <1>2, <1>3
<1>5. \A y \in T : x <= y
  BY <1>4
<1> QED
  BY <1>5

\* A non-empty set of naturals with an upper bound has a greatest element,
\* and Max is that element.
LEMMA MaxOfBounded ==
  ASSUME NEW n \in Nat, NEW S \in SUBSET (0 .. n), S # {}
  PROVE  /\ Max(S) \in S
         /\ \A y \in S : Max(S) >= y
<1> DEFINE T == {n - s : s \in S}
<1>1. \A s \in S : s \in 0 .. n /\ n - s \in Nat
  OBVIOUS
<1>2. T \in SUBSET Nat
  BY <1>1
<1>3. T # {}
  OBVIOUS
<1>4. PICK x \in T : \A y \in T : x <= y
  BY <1>2, <1>3, LeastNatural
<1>5. PICK s \in S : x = n - s
  BY <1>4
<1>6. ASSUME NEW y \in S PROVE s >= y
  <2>1. n - y \in T
    OBVIOUS
  <2>2. n - s <= n - y
    BY <2>1, <1>4, <1>5
  <2> QED
    BY <2>2, <1>1
<1>7. \E z \in S : \A y \in S : z >= y
  BY <1>6
<1> QED
  BY <1>7 DEF Max

\* Min of a non-empty set of naturals is one of its elements.
LEMMA MinOfNaturals ==
  ASSUME NEW S \in SUBSET Nat, S # {}
  PROVE  /\ Min(S) \in S
         /\ \A y \in S : Min(S) <= y
BY LeastNatural DEF Min

\* A non-empty set of integers below a bound has a greatest element.
LEMMA GreatestBelow ==
  ASSUME NEW T \in SUBSET Int, T # {}, NEW m \in Int, \A x \in T : x < m
  PROVE  \E w \in T : \A x \in T : x <= w
<1> DEFINE U == {m - x : x \in T}
<1>1. \A x \in T : x \in Int /\ m - x \in Nat
  OBVIOUS
<1>2. U \in SUBSET Nat /\ U # {}
  BY <1>1
<1>3. PICK u \in U : \A y \in U : u <= y
  <2> HIDE DEF U
  <2> QED
    BY <1>2, LeastNatural
<1>4. PICK w \in T : u = m - w
  OBVIOUS
<1>5. ASSUME NEW x \in T PROVE x <= w
  BY <1>1, <1>3, <1>4
<1> QED
  BY <1>5

-----------------------------------------------------------------------------

\* The elements of a sequence.
LEMMA RangeElements ==
  ASSUME NEW S, NEW s \in Seq(S)
  PROVE  /\ Range(s) \subseteq S
         /\ \A i \in 1 .. Len(s) : s[i] \in Range(s)
         /\ \A x \in Range(s) : \E i \in 1 .. Len(s) : s[i] = x
BY DEF Range

\* The elements of a sequence after one of them was taken out.
LEMMA RemoveAtElements ==
  ASSUME NEW S, NEW s \in Seq(S), NEW k \in 1 .. Len(s)
  PROVE  /\ RemoveAt(s, k) \in Seq(S)
         /\ Len(RemoveAt(s, k)) = Len(s) - 1
         /\ \A i \in 1 .. Len(s) - 1 :
               RemoveAt(s, k)[i] = IF i < k THEN s[i] ELSE s[i + 1]
<1> DEFINE a == SubSeq(s, 1, k - 1)
           b == SubSeq(s, k + 1, Len(s))
<1>1. a \in Seq(S) /\ Len(a) = k - 1 /\ \A i \in 1 .. k - 1 : a[i] = s[i]
  BY SubSeqProperties
<1>2. b \in Seq(S) /\ Len(b) = Len(s) - k /\ \A i \in 1 .. Len(s) - k : b[i] = s[i + k]
  BY SubSeqProperties
<1>3. RemoveAt(s, k) = a \o b
  BY DEF RemoveAt
<1> HIDE DEF a, b
<1>4. a \o b \in Seq(S) /\ Len(a \o b) = Len(a) + Len(b)
  BY <1>1, <1>2, ConcatProperties
<1>5. ASSUME NEW i \in 1 .. Len(s) - 1
      PROVE  (a \o b)[i] = IF i < k THEN s[i] ELSE s[i + 1]
  <2>0. i \in 1 .. Len(a) + Len(b)
    BY <1>1, <1>2
  <2>1. (a \o b)[i] = IF i <= Len(a) THEN a[i] ELSE b[i - Len(a)]
    BY <2>0, <1>1, <1>2, ConcatProperties
  <2>2. CASE i < k
    BY <1>1, <2>1, <2>2
  <2>3. CASE ~(i < k)
    <3>1. i - (k - 1) \in 1 .. Len(s) - k
      BY <2>3
    <3>2. b[i - (k - 1)] = s[i - (k - 1) + k]
      BY <1>2, <3>1
    <3> QED
      BY <1>1, <2>1, <2>3, <3>2
  <2> QED
    BY <2>2, <2>3
<1> QED
  BY <1>1, <1>2, <1>3, <1>4, <1>5

\* The elements of a part of a sequence.
LEMMA SubSeqElements ==
  ASSUME NEW S, NEW s \in Seq(S), NEW m \in 1 .. Len(s) + 1, NEW n \in m - 1 .. Len(s)
  PROVE  /\ SubSeq(s, m, n) \in Seq(S)
         /\ Len(SubSeq(s, m, n)) = n - m + 1
         /\ \A i \in 1 .. n - m + 1 : SubSeq(s, m, n)[i] = s[m + i - 1]
<1>1. \A i \in m .. n : s[i] \in S
  OBVIOUS
<1> QED
  BY <1>1, SubSeqProperties

\* The elements of a sequence after one more was put in at position k.
LEMMA InsertAtElements ==
  ASSUME NEW S, NEW s \in Seq(S), NEW k \in 1 .. Len(s) + 1, NEW e \in S
  PROVE  /\ InsertAt(s, k, e) \in Seq(S)
         /\ Len(InsertAt(s, k, e)) = Len(s) + 1
         /\ \A i \in 1 .. Len(s) + 1 :
               InsertAt(s, k, e)[i] = IF i < k THEN s[i] ELSE IF i = k THEN e ELSE s[i - 1]
<1> DEFINE a == SubSeq(s, 1, k - 1)
           b == SubSeq(s, k, Len(s))
           c == a \o <<e>>
<1>1. a \in Seq(S) /\ Len(a) = k - 1 /\ \A i \in 1 .. k - 1 : a[i] = s[i]
  BY SubSeqElements
<1>2. b \in Seq(S) /\ Len(b) = Len(s) - k + 1
      /\ \A i \in 1 .. Len(s) - k + 1 : b[i] = s[k + i - 1]
  BY SubSeqElements
<1>3. InsertAt(s, k, e) = c \o b
  BY DEF InsertAt
<1>4. <<e>> \in Seq(S) /\ Len(<<e>>) = 1 /\ <<e>>[1] = e
  OBVIOUS
<1> HIDE DEF a, b
<1>5. c \in Seq(S) /\ Len(c) = k /\ \A i \in 1 .. k : c[i] = IF i < k THEN s[i] ELSE e
  <2>1. c \in Seq(S) /\ Len(c) = Len(a) + 1
    BY <1>1, <1>4, ConcatProperties
  <2>2. \A i \in 1 .. Len(a) + Len(<<e>>) :
           c[i] = IF i <= Len(a) THEN a[i] ELSE <<e>>[i - Len(a)]
    BY <1>1, <1>4, ConcatProperties
  <2> HIDE DEF c
  <2>3. ASSUME NEW i \in 1 .. k PROVE c[i] = IF i < k THEN s[i] ELSE e
    <3>1. c[i] = IF i <= Len(a) THEN a[i] ELSE <<e>>[i - Len(a)]
      BY <1>1, <1>4, <2>2
    <3>2. CASE i < k
      BY <1>1, <3>1, <3>2
    <3>3. CASE i = k
      BY <1>1, <3>1, <3>3
    <3> QED
      BY <3>2, <3>3
  <2> QED
    BY <1>1, <2>1, <2>3
<1> HIDE DEF c
<1>6. c \o b \in Seq(S) /\ Len(c \o b) = Len(s) + 1
  <2>1. c \o b \in Seq(S) /\ Len(c \o b) = Len(c) + Len(b)
    BY <1>2, <1>5, ConcatProperties
  <2>2. Len(s) \in Nat /\ k \in Int /\ k + (Len(s) - k + 1) = Len(s) + 1
    OBVIOUS
  <2> QED
    BY <1>2, <1>5, <2>1, <2>2
<1>7. ASSUME NEW i \in 1 .. Len(s) + 1
      PROVE  (c \o b)[i] = IF i < k THEN s[i] ELSE IF i = k THEN e ELSE s[i - 1]
  <2>1. i \in 1 .. Len(c) + Len(b)
    BY <1>2, <1>5
  <2>2. (c \o b)[i] = IF i <= Len(c) THEN c[i] ELSE b[i - Len(c)]
    BY <2>1, <1>2, <1>5, ConcatProperties
  <2>3. CASE i <= k
    BY <1>5, <2>2, <2>3
  <2>4. CASE i > k
    <3>1. i - k \in 1 .. Len(s) - k + 1
      BY <2>4
    <3>2. b[i - k] = s[k + (i - k) - 1]
      BY <1>2, <3>1
    <3> QED
      BY <1>5, <2>2, <2>4, <3>2
  <2>5. i <= k \/ i > k
    OBVIOUS
  <2> QED
    BY <2>3, <2>4, <2>5
<1> QED
  BY <1>3, <1>6, <1>7

\* Removing an element from an injective sequence leaves the other
\* elements, each still once.
LEMMA RemoveFirstElements ==
  ASSUME NEW S, NEW s \in Seq(S), NEW e, IsInjective(s)
  PROVE  /\ RemoveFirst(s, e) \in Seq(S)
         /\ IsInjective(RemoveFirst(s, e))
         /\ Range(RemoveFirst(s, e)) = Range(s) \ {e}
<1>0. \A i, j \in 1 .. Len(s) : s[i] = s[j] => i = j
  BY DEF IsInjective
<1>1. CASE ~\E i \in 1 .. Len(s) : s[i] = e
  <2>1. RemoveFirst(s, e) = s
    BY <1>1 DEF RemoveFirst
  <2> QED
    BY <1>1, <2>1, RangeElements
<1>2. CASE \E i \in 1 .. Len(s) : s[i] = e
  <2> DEFINE I == {i \in 1 .. Len(s) : s[i] = e}
             k == Min(I)
             r == RemoveAt(s, k)
  <2>1. I \in SUBSET Nat /\ I # {}
    BY <1>2
  <2>2. k \in 1 .. Len(s) /\ s[k] = e
    BY <2>1, MinOfNaturals
  <2>3. RemoveFirst(s, e) = r
    BY <1>2 DEF RemoveFirst, SelectInSeq
  <2> HIDE DEF k, I
  <2>4. /\ r \in Seq(S) /\ Len(r) = Len(s) - 1
        /\ \A i \in 1 .. Len(s) - 1 : r[i] = IF i < k THEN s[i] ELSE s[i + 1]
    BY <2>2, RemoveAtElements
  <2> HIDE DEF r
  <2>5. IsInjective(r)
    <3> SUFFICES ASSUME NEW i \in 1 .. Len(r), NEW j \in 1 .. Len(r), r[i] = r[j]
                 PROVE  i = j
      BY <2>4 DEF IsInjective
    <3>1. i \in 1 .. Len(s) - 1 /\ j \in 1 .. Len(s) - 1
      BY <2>4
    <3> DEFINE up(n) == IF n < k THEN n ELSE n + 1
    <3>2. r[i] = s[up(i)] /\ r[j] = s[up(j)]
      BY <2>4, <3>1
    <3>3. up(i) \in 1 .. Len(s) /\ up(j) \in 1 .. Len(s)
      BY <3>1, <2>2
    <3>4. up(i) = up(j)
      BY <3>2, <3>3, <1>0
    <3> QED
      BY <3>1, <3>4, <2>2
  <2>6. ASSUME NEW i \in 1 .. Len(r)
        PROVE  r[i] # e /\ \E j \in 1 .. Len(s) : s[j] = r[i]
    <3> DEFINE j == IF i < k THEN i ELSE i + 1
    <3>1. i \in 1 .. Len(s) - 1
      BY <2>4
    <3>2. j \in 1 .. Len(s) /\ j # k /\ r[i] = s[j]
      BY <3>1, <2>2, <2>4
    <3> QED
      BY <3>2, <2>2, <1>0
  <2>7. ASSUME NEW j \in 1 .. Len(s), s[j] # e
        PROVE  \E i \in 1 .. Len(r) : r[i] = s[j]
    <3> DEFINE i == IF j < k THEN j ELSE j - 1
    <3>1. j # k
      BY <2>2, <2>7
    <3>2. i \in 1 .. Len(s) - 1
      BY <3>1, <2>2
    <3>3. r[i] = IF i < k THEN s[i] ELSE s[i + 1]
      BY <3>2, <2>4
    <3>4. r[i] = s[j]
      BY <3>1, <3>3, <2>2
    <3> QED
      BY <3>2, <3>4, <2>4
  <2>8. Range(r) = Range(s) \ {e}
    <3>1. ASSUME NEW x \in Range(r) PROVE x \in Range(s) /\ x # e
      <4>1. PICK i \in 1 .. Len(r) : r[i] = x
        BY <2>4, RangeElements
      <4> QED
        BY <2>6, <4>1, RangeElements
    <3>2. ASSUME NEW x \in Range(s), x # e PROVE x \in Range(r)
      <4>1. PICK j \in 1 .. Len(s) : s[j] = x
        BY RangeElements
      <4>2. PICK i \in 1 .. Len(r) : r[i] = x
        BY <2>7, <3>2, <4>1
      <4> QED
        BY <2>4, <4>2, RangeElements
    <3> QED
      BY <3>1, <3>2
  <2> QED
    BY <2>3, <2>4, <2>5, <2>8
<1> QED
  BY <1>1, <1>2

\* Moving an element to the front.
LEMMA PrependElements ==
  ASSUME NEW S, NEW s \in Seq(S), NEW e \in S, IsInjective(s), e \notin Range(s)
  PROVE  /\ <<e>> \o s \in Seq(S)
         /\ IsInjective(<<e>> \o s)
         /\ Range(<<e>> \o s) = Range(s) \cup {e}
<1> DEFINE t == <<e>> \o s
<1>1. <<e>> \in Seq(S) /\ Len(<<e>>) = 1 /\ <<e>>[1] = e
  OBVIOUS
<1>2. t \in Seq(S) /\ Len(t) = Len(s) + 1
  BY <1>1, ConcatProperties
<1>3. \A i \in 1 .. Len(<<e>>) + Len(s) :
         t[i] = IF i <= Len(<<e>>) THEN <<e>>[i] ELSE s[i - Len(<<e>>)]
  BY <1>1, ConcatProperties
<1>4. Len(s) \in Nat /\ t[1] = e /\ \A i \in 2 .. Len(t) : t[i] = s[i - 1]
  BY <1>1, <1>2, <1>3
<1> HIDE DEF t
<1>5. /\ \A i \in 1 .. Len(s) : s[i] # e
      /\ \A i, j \in 1 .. Len(s) : s[i] = s[j] => i = j
  BY RangeElements DEF IsInjective
<1>6. \A i \in 1 .. Len(t) : i = 1 \/ (i \in 2 .. Len(t) /\ i - 1 \in 1 .. Len(s))
  BY <1>2, <1>4
<1>7. ASSUME NEW i \in 1 .. Len(t), NEW j \in 1 .. Len(t), t[i] = t[j]
      PROVE  i = j
  <2>1. CASE i = 1 /\ j = 1
    BY <2>1
  <2>2. CASE i = 1 /\ j # 1
    BY <1>4, <1>5, <1>6, <1>7, <2>2
  <2>3. CASE i # 1 /\ j = 1
    BY <1>4, <1>5, <1>6, <1>7, <2>3
  <2>4. CASE i # 1 /\ j # 1
    <3>1. /\ i - 1 \in 1 .. Len(s) /\ t[i] = s[i - 1]
          /\ j - 1 \in 1 .. Len(s) /\ t[j] = s[j - 1]
      BY <1>4, <1>6, <2>4
    <3>2. i - 1 = j - 1
      BY <1>5, <1>7, <3>1
    <3> QED
      BY <3>2
  <2> QED
    BY <2>1, <2>2, <2>3, <2>4
<1>8. IsInjective(t)
  BY <1>2, <1>7 DEF IsInjective
<1>9. \A x \in Range(t) : x \in Range(s) \cup {e}
  BY <1>2, <1>4, <1>6, RangeElements, SMTT(30)
<1>10. ASSUME NEW x \in Range(s) \cup {e} PROVE x \in Range(t)
  <2>1. CASE x = e
    BY <1>2, <1>4, <2>1, RangeElements
  <2>2. CASE x \in Range(s)
    <3>1. PICK i \in 1 .. Len(s) : s[i] = x
      BY <2>2, RangeElements
    <3>2. i + 1 \in 2 .. Len(t) /\ i + 1 \in 1 .. Len(t) /\ t[i + 1] = s[i]
      BY <1>2, <1>4
    <3> QED
      BY <1>2, <3>1, <3>2, RangeElements
  <2> QED
    BY <2>1, <2>2
<1> QED
  BY <1>2, <1>8, <1>9, <1>10 DEF t

\* The last element of an injective sequence and the ones before it.
LEMMA FrontElements ==
  ASSUME NEW S, NEW s \in Seq(S), s # << >>, IsInjective(s)
  PROVE  /\ Last(s) \in S /\ Last(s) \in Range(s)
         /\ Front(s) \in Seq(S)
         /\ IsInjective(Front(s))
         /\ Range(Front(s)) = Range(s) \ {Last(s)}
<1>1. Len(s) \in Nat \ {0} /\ s[Len(s)] \in S
  BY EmptySeq
<1>2. /\ SubSeq(s, 1, Len(s) - 1) \in Seq(S)
      /\ Len(SubSeq(s, 1, Len(s) - 1)) = Len(s) - 1
      /\ \A i \in 1 .. Len(s) - 1 : SubSeq(s, 1, Len(s) - 1)[i] = s[i]
  <2>1. 1 \in 1 .. Len(s) + 1 /\ Len(s) - 1 \in 1 - 1 .. Len(s) /\ (Len(s) - 1) - 1 + 1 = Len(s) - 1
    BY <1>1
  <2>2. \A i \in 1 .. Len(s) - 1 : 1 + i - 1 = i
    OBVIOUS
  <2> QED
    BY <2>1, <2>2, SubSeqProperties
<1>3. Last(s) = s[Len(s)] /\ Front(s) = SubSeq(s, 1, Len(s) - 1)
  BY DEF Front, Last
<1> DEFINE r == Front(s)
<1>4. r \in Seq(S) /\ Len(r) = Len(s) - 1 /\ \A i \in 1 .. Len(r) : r[i] = s[i]
  BY <1>1, <1>2, <1>3
<1> HIDE DEF r
<1>5. \A i, j \in 1 .. Len(s) : s[i] = s[j] => i = j
  BY DEF IsInjective
<1>6. /\ \A i \in 1 .. Len(r) : i \in 1 .. Len(s) /\ i # Len(s)
      /\ \A i \in 1 .. Len(s) : i \in 1 .. Len(r) \/ i = Len(s)
      /\ Len(s) \in 1 .. Len(s)
  BY <1>1, <1>4
<1>7. \A i, j \in 1 .. Len(r) : r[i] = r[j] => i = j
  BY <1>4, <1>5, <1>6
<1>8. IsInjective(r)
  BY <1>4, <1>7 DEF IsInjective
<1>9. Range(r) = Range(s) \ {s[Len(s)]}
  <2>1. ASSUME NEW x \in Range(r) PROVE x \in Range(s) /\ x # s[Len(s)]
    <3>1. PICK i \in 1 .. Len(r) : r[i] = x
      BY <1>4, RangeElements
    <3> QED
      BY <1>4, <1>5, <1>6, <3>1, RangeElements
  <2>2. ASSUME NEW x \in Range(s), x # s[Len(s)] PROVE x \in Range(r)
    <3>1. PICK i \in 1 .. Len(s) : s[i] = x
      BY RangeElements
    <3>2. i \in 1 .. Len(r) /\ r[i] = x
      BY <1>4, <1>6, <2>2, <3>1
    <3> QED
      BY <1>4, <3>2, RangeElements
  <2> QED
    BY <2>1, <2>2
<1>10. s[Len(s)] \in Range(s)
  BY <1>6, RangeElements
<1> QED
  BY <1>1, <1>3, <1>4, <1>8, <1>9, <1>10 DEF r

-----------------------------------------------------------------------------

\* There is a function of running totals: what a loop that adds up weights
\* has at each of its rounds.
LEMMA RunningTotalExists ==
  ASSUME NEW n \in Nat, NEW w
  PROVE  \E f : f = [i \in 1 .. n + 1 |-> IF i = 1 THEN 0 ELSE f[i - 1] + w[i - 1]]
<1> DEFINE Exists(m) ==
             \E f : f = [i \in 1 .. m + 1 |-> IF i = 1 THEN 0 ELSE f[i - 1] + w[i - 1]]
           T == {m \in 0 .. n : ~Exists(m)}
<1>1. SUFFICES ASSUME T # {} PROVE FALSE
  <2>1. n \in 0 .. n
    OBVIOUS
  <2> QED
    BY <2>1
<1>2. T \in SUBSET Nat
  OBVIOUS
<1>3. PICK m \in T : \A k \in T : m <= k
  <2> HIDE DEF T
  <2> QED
    BY <1>1, <1>2, LeastNatural
<1>4. m \in 0 .. n /\ ~Exists(m)
  OBVIOUS
<1>5. CASE m = 0
  <2> DEFINE f == [i \in 1 .. m + 1 |-> 0]
  <2>1. f = [i \in 1 .. m + 1 |-> IF i = 1 THEN 0 ELSE f[i - 1] + w[i - 1]]
    BY <1>5
  <2> QED
    BY <1>4, <2>1
<1>6. CASE m # 0
  <2>1. m - 1 \in 0 .. n /\ ~(m <= m - 1)
    BY <1>4, <1>6
  <2>2. Exists(m - 1)
    BY <1>3, <2>1
  <2>3. PICK g : g = [i \in 1 .. (m - 1) + 1 |-> IF i = 1 THEN 0 ELSE g[i - 1] + w[i - 1]]
    BY <2>2
  <2>4. (m - 1) + 1 = m
    BY <1>4
  <2>5. \A i \in 1 .. m : g[i] = IF i = 1 THEN 0 ELSE g[i - 1] + w[i - 1]
    BY <2>3, <2>4
  <2> DEFINE f == [i \in 1 .. m + 1 |-> IF i = m + 1 THEN g[m] + w[m] ELSE g[i]]
  <2>6. \A i \in 1 .. m + 1 : f[i] = IF i = 1 THEN 0 ELSE f[i - 1] + w[i - 1]
    <3> SUFFICES ASSUME NEW i \in 1 .. m + 1
                 PROVE  f[i] = IF i = 1 THEN 0 ELSE f[i - 1] + w[i - 1]
      OBVIOUS
    <3>1. CASE i = m + 1
      <4>1. m \in 1 .. m + 1 /\ m # m + 1 /\ i # 1 /\ i - 1 = m
        BY <1>4, <1>6, <3>1
      <4> QED
        BY <3>1, <4>1
    <3>2. CASE i # m + 1 /\ i # 1
      <4>1. i \in 1 .. m /\ i - 1 \in 1 .. m + 1 /\ i - 1 # m + 1
        BY <1>4, <3>2
      <4> QED
        BY <2>5, <3>2, <4>1
    <3>3. CASE i = 1 /\ i # m + 1
      <4>1. i \in 1 .. m
        BY <1>4, <3>3
      <4> QED
        BY <2>5, <3>3, <4>1
    <3> QED
      BY <3>1, <3>2, <3>3
  <2>7. f = [i \in 1 .. m + 1 |-> IF i = 1 THEN 0 ELSE f[i - 1] + w[i - 1]]
    <3>1. f = [i \in 1 .. m + 1 |-> f[i]]
      OBVIOUS
    <3> HIDE DEF f
    <3> QED
      BY <2>6, <3>1
  <2> QED
    BY <1>4, <2>7
<1> QED
  BY <1>5, <1>6

\* Running totals of natural weights grow by at least the weight passed.
LEMMA RunningTotalGrows ==
  ASSUME NEW n \in Nat, NEW w, \A i \in 1 .. n : w[i] \in Nat,
         NEW f, \A i \in 1 .. n + 1 : f[i] = IF i = 1 THEN 0 ELSE f[i - 1] + w[i - 1]
  PROVE  \A j \in 1 .. n + 1 :
            f[j] \in Nat /\ \A i \in 1 .. n : i < j => f[i] + w[i] <= f[j]
<1> DEFINE Good(j) == f[j] \in Nat /\ \A i \in 1 .. n : i < j => f[i] + w[i] <= f[j]
           T == {j \in 1 .. n + 1 : ~Good(j)}
<1>1. SUFFICES ASSUME T # {} PROVE FALSE
  OBVIOUS
<1>2. T \in SUBSET Nat
  OBVIOUS
<1>3. PICK j \in T : \A k \in T : j <= k
  <2> HIDE DEF T
  <2> QED
    BY <1>1, <1>2, LeastNatural
<1>4. j \in 1 .. n + 1 /\ ~Good(j)
  OBVIOUS
<1>5. CASE j = 1
  BY <1>4, <1>5
<1>6. CASE j # 1
  <2>1. j - 1 \in 1 .. n + 1 /\ ~(j <= j - 1) /\ j - 1 \in 1 .. n
    BY <1>4, <1>6
  <2>2. Good(j - 1)
    BY <1>3, <2>1
  <2>3. f[j] = f[j - 1] + w[j - 1] /\ w[j - 1] \in Nat
    BY <1>4, <1>6, <2>1
  <2>4. ASSUME NEW i \in 1 .. n, i < j PROVE f[i] + w[i] <= f[j]
    <3>1. CASE i = j - 1
      BY <2>2, <2>3, <3>1
    <3>2. CASE i < j - 1
      <4>1. f[i] + w[i] <= f[j - 1]
        BY <2>2, <3>2
      <4>2. i \in 1 .. n + 1 /\ ~(j <= i)
        BY <2>4
      <4>3. Good(i)
        BY <1>3, <4>2
      <4> QED
        BY <2>2, <2>3, <4>1, <4>3
    <3> QED
      BY <1>4, <2>4, <3>1, <3>2
  <2> QED
    BY <1>4, <2>2, <2>3, <2>4
<1> QED
  BY <1>5, <1>6
=============================================================================
