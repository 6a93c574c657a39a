---------------------------- MODULE BTreeLemmas ----------------------------
(***************************************************************************)
(* What the operations on one B+ tree node do to its cells, and what the   *)
(* search tree conditions of module BTree say about a search.              *)
(***************************************************************************)
EXTENDS BTree, CollectionLemmas, FiniteSetTheorems

\* Cells with integer keys, of a leaf or of a separator node.
Cells(cells) ==
    /\ Len(cells) \in Nat
    /\ \A i \in 1 .. Len(cells) : cells[i].key \in Int

LEMMA LeafCells ==
  ASSUME NEW cells \in Seq(LeafCell)
  PROVE  Cells(cells) /\ \A i \in 1 .. Len(cells) : cells[i] \in LeafCell /\ cells[i].key \in Key
<1>1. \A i \in 1 .. Len(cells) : cells[i] \in LeafCell
  OBVIOUS
<1>2. Len(cells) \in Nat
  OBVIOUS
<1>3. \A c \in LeafCell : c.key \in Key /\ c.key \in Int
  BY KeyAssumption DEF LeafCell
<1> QED
  BY <1>1, <1>2, <1>3 DEF Cells

LEMMA InternalCells ==
  ASSUME NEW cells \in Seq(InternalCell)
  PROVE  /\ Cells(cells)
         /\ \A i \in 1 .. Len(cells) : /\ cells[i] \in InternalCell /\ cells[i].key \in Key
                                       /\ cells[i].child \in PageId
<1>1. \A i \in 1 .. Len(cells) : cells[i] \in InternalCell
  OBVIOUS
<1>2. Len(cells) \in Nat
  OBVIOUS
<1>3. \A c \in InternalCell : c.key \in Key /\ c.key \in Int /\ c.child \in PageId
  BY KeyAssumption DEF InternalCell
<1> QED
  BY <1>1, <1>2, <1>3 DEF Cells

\* The search loops stop at the first cell that makes them stop.
LEMMA LeafPosFacts ==
  ASSUME NEW cells, Cells(cells), NEW key \in Int
  PROVE  /\ LeafPos(cells, key) \in 1 .. Len(cells) + 1
         /\ \A j \in 1 .. LeafPos(cells, key) - 1 : cells[j].key < key
         /\ LeafPos(cells, key) <= Len(cells) => cells[LeafPos(cells, key)].key >= key
<1> DEFINE T == {i \in 1 .. Len(cells) + 1 : i <= Len(cells) => cells[i].key >= key}
<1>1. T \in SUBSET Nat /\ Len(cells) + 1 \in T /\ Len(cells) \in Nat
  BY DEF Cells
<1>2. PICK x \in T : \A y \in T : x <= y
  <2> HIDE DEF T
  <2> QED
    BY <1>1, LeastNatural
<1>3. \A j \in 1 .. x - 1 : ~(cells[j].key >= key)
  BY <1>1, <1>2 DEF Cells
<1>4. \E i \in 1 .. Len(cells) + 1 :
        /\ \A j \in 1 .. i - 1 : ~(cells[j].key >= key)
        /\ i <= Len(cells) => cells[i].key >= key
  BY <1>2, <1>3
<1>5. /\ LeafPos(cells, key) \in 1 .. Len(cells) + 1
      /\ \A j \in 1 .. LeafPos(cells, key) - 1 : ~(cells[j].key >= key)
      /\ LeafPos(cells, key) <= Len(cells) => cells[LeafPos(cells, key)].key >= key
  BY <1>4 DEF LeafPos, FirstPos
<1> QED
  BY <1>1, <1>5 DEF Cells

\* ChildIdx finds the gap between separators the key belongs into; there is
\* only one if the cells are sorted.
LEMMA ChildIdxFacts ==
  ASSUME NEW node, Cells(node.cells), Sorted(node.cells), NEW key \in Int
  PROVE  /\ ChildIdx(node, key) \in 0 .. Len(node.cells)
         /\ \A i \in 0 .. Len(node.cells) :
               Between(node.cells, i, key) <=> i = ChildIdx(node, key)
<1> DEFINE cells == node.cells
           T == {i \in 1 .. Len(cells) + 1 : i <= Len(cells) => key < cells[i].key}
           c == ChildIdx(node, key)
<1>1. T \in SUBSET Nat /\ Len(cells) + 1 \in T /\ Len(cells) \in Nat
  BY DEF Cells
<1>2. PICK x \in T : \A y \in T : x <= y
  <2> HIDE DEF T
  <2> QED
    BY <1>1, LeastNatural
<1>3. \A j \in 1 .. x - 1 : ~(key < cells[j].key)
  BY <1>1, <1>2 DEF Cells
<1>4. \E i \in 1 .. Len(cells) + 1 :
        /\ \A j \in 1 .. i - 1 : ~(key < cells[j].key)
        /\ i <= Len(cells) => key < cells[i].key
  BY <1>2, <1>3
<1>5. /\ c + 1 \in 1 .. Len(cells) + 1 /\ c \in Int
      /\ \A j \in 1 .. c : ~(key < cells[j].key)
      /\ c + 1 <= Len(cells) => key < cells[c + 1].key
  <2>1. PICK pos : /\ pos = FirstPos(cells, LAMBDA k : key < k)
                   /\ pos \in 1 .. Len(cells) + 1
                   /\ \A j \in 1 .. pos - 1 : ~(key < cells[j].key)
                   /\ pos <= Len(cells) => key < cells[pos].key
    BY <1>4 DEF FirstPos
  <2>2. c = pos - 1
    BY <2>1 DEF ChildIdx
  <2> HIDE DEF c, cells
  <2>3. pos = c + 1 /\ c \in Int
    BY <1>1, <2>1, <2>2
  <2> QED
    BY <1>1, <2>1, <2>2, <2>3
<1> HIDE DEF c, cells
<1>6. c \in 0 .. Len(cells)
  BY <1>1, <1>5
<1>7. \A j \in 1 .. Len(cells) : cells[j].key \in Int
  BY DEF Cells, cells
<1>8. Between(cells, c, key)
  <2>1. \A j \in 1 .. c : cells[j].key <= key
    BY <1>1, <1>5, <1>6, <1>7
  <2>2. ASSUME NEW j \in c + 1 .. Len(cells) PROVE key < cells[j].key
    <3>1. c + 1 \in 1 .. Len(cells) /\ j \in 1 .. Len(cells) /\ c + 1 <= j
      BY <1>1, <1>6
    <3>2. c + 1 < j => cells[c + 1].key < cells[j].key
      BY <3>1 DEF Sorted, cells
    <3> QED
      BY <1>5, <1>7, <3>1, <3>2
  <2> QED
    BY <2>1, <2>2 DEF Between
<1>9. ASSUME NEW i \in 0 .. Len(cells), Between(cells, i, key) PROVE i = c
  <2>1. ~(i < c)
    <3> SUFFICES ASSUME i < c PROVE FALSE
      OBVIOUS
    <3>1. c \in i + 1 .. Len(cells) /\ c \in 1 .. c
      BY <1>1, <1>6
    <3> QED
      BY <1>5, <1>9, <3>1 DEF Between
  <2>2. ~(c < i)
    <3> SUFFICES ASSUME c < i PROVE FALSE
      OBVIOUS
    <3>1. c + 1 \in 1 .. i /\ c + 1 \in 1 .. Len(cells)
      BY <1>1, <1>6
    <3>2. cells[c + 1].key <= key
      BY <1>9, <3>1 DEF Between
    <3>3. key < cells[c + 1].key
      BY <1>1, <1>5, <3>1
    <3> QED
      BY <1>7, <3>1, <3>2, <3>3
  <2> QED
    BY <1>6, <2>1, <2>2
<1> QED
  BY <1>6, <1>8, <1>9 DEF c, cells

-----------------------------------------------------------------------------
(* Leaves. *)

LEMMA NodeOfType ==
  ASSUME NEW node \in Node
  PROVE  /\ node.type = "LEAF" => node \in LeafNode
         /\ node.type = "INTERNAL" => node \in InternalNode
         /\ node.type = "METADATA" => node \in MetaNode
         /\ node.type \in {"LEAF", "INTERNAL", "METADATA"}
         /\ node # NoNode
BY NoNodeAssumption DEF Node, LeafNode, InternalNode, MetaNode

LEMMA LeafFields ==
  ASSUME NEW node \in LeafNode
  PROVE  /\ node \in Node /\ node # NoNode /\ node.type = "LEAF"
         /\ node.cells \in Seq(LeafCell) /\ node.next_leaf \in PageId \cup {NoPage}
         /\ Cells(node.cells)
         /\ \A k : HasKey(node, k) <=> \E c \in Range(node.cells) : c.key = k
         /\ \A c \in Range(node.cells) : c \in LeafCell /\ c.key \in Key /\ c.key \in Int
<1>1. /\ node \in Node /\ node # NoNode /\ node.type = "LEAF"
      /\ node.cells \in Seq(LeafCell) /\ node.next_leaf \in PageId \cup {NoPage}
  BY NoNodeAssumption DEF LeafNode, Node
<1>2. Cells(node.cells)
  BY <1>1, LeafCells
<1>3. /\ Range(node.cells) \subseteq LeafCell
      /\ \A i \in 1 .. Len(node.cells) : node.cells[i] \in Range(node.cells)
      /\ \A x \in Range(node.cells) : \E i \in 1 .. Len(node.cells) : node.cells[i] = x
  BY <1>1, RangeElements
<1>4. \A k : HasKey(node, k) <=> \E c \in Range(node.cells) : c.key = k
  BY <1>3 DEF HasKey
<1>5. \A c \in LeafCell : c.key \in Key /\ c.key \in Int
  BY KeyAssumption DEF LeafCell
<1> QED
  BY <1>1, <1>2, <1>3, <1>4, <1>5

\* A leaf that has the key has it where the search for it stops.
LEMMA FoundKey ==
  ASSUME NEW node \in LeafNode, Sorted(node.cells), NEW key \in Key, HasKey(node, key)
  PROVE  /\ LeafPos(node.cells, key) \in 1 .. Len(node.cells)
         /\ node.cells[LeafPos(node.cells, key)].key = key
         /\ \A i \in 1 .. Len(node.cells) :
               node.cells[i].key = key <=> i = LeafPos(node.cells, key)
<1> DEFINE pos == LeafPos(node.cells, key)
<1>0. key \in Int
  BY KeyAssumption
<1>1. Len(node.cells) \in Nat /\ \A i \in 1 .. Len(node.cells) : node.cells[i].key \in Int
  BY LeafFields DEF Cells
<1>2. /\ pos \in 1 .. Len(node.cells) + 1
      /\ \A j \in 1 .. pos - 1 : node.cells[j].key < key
      /\ pos <= Len(node.cells) => node.cells[pos].key >= key
  BY <1>0, LeafFields, LeafPosFacts
<1>3. PICK i \in 1 .. Len(node.cells) : node.cells[i].key = key
  BY DEF HasKey
<1> HIDE DEF pos
<1>4. ~(i < pos)
  <2> SUFFICES ASSUME i < pos PROVE FALSE
    OBVIOUS
  <2>1. i \in 1 .. pos - 1
    BY <1>1, <1>2
  <2>2. node.cells[i].key < key
    BY <1>2, <2>1
  <2> QED
    BY <1>0, <1>3, <2>2
<1>5. pos \in 1 .. Len(node.cells) /\ node.cells[pos].key >= key
  BY <1>1, <1>2, <1>4
<1>6. ~(pos < i)
  <2> SUFFICES ASSUME pos < i PROVE FALSE
    OBVIOUS
  <2>1. node.cells[pos].key < node.cells[i].key
    BY <1>5 DEF Sorted
  <2> QED
    BY <1>0, <1>1, <1>3, <1>5, <2>1
<1>7. i = pos
  BY <1>1, <1>2, <1>4, <1>6
<1>8. ASSUME NEW j \in 1 .. Len(node.cells), node.cells[j].key = key PROVE j = pos
  <2>1. ~(j < pos)
    BY <1>0, <1>3, <1>5, <1>7, <1>8 DEF Sorted
  <2>2. ~(pos < j)
    BY <1>0, <1>3, <1>5, <1>7, <1>8 DEF Sorted
  <2> QED
    BY <1>5, <2>1, <2>2
<1> QED
  BY <1>3, <1>5, <1>7, <1>8 DEF pos

\* WithCell replaces the cell that has the key, or puts one in: sorted, and
\* the other cells stay.
LEMMA WithCellFacts ==
  ASSUME NEW node \in LeafNode, Sorted(node.cells), NEW key \in Key, NEW value \in Value
  PROVE  /\ WithCell(node, key, value) \in LeafNode
         /\ WithCell(node, key, value).next_leaf = node.next_leaf
         /\ Sorted(WithCell(node, key, value).cells)
         /\ Range(WithCell(node, key, value).cells)
               = {c \in Range(node.cells) : c.key # key} \cup {[key |-> key, value |-> value]}
<1> DEFINE cells == node.cells
           pos == LeafPos(cells, key)
           cell == [key |-> key, value |-> value]
           new == IF HasKey(node, key) THEN [cells EXCEPT ![pos] = cell]
                  ELSE InsertAt(cells, pos, cell)
<1>0. key \in Int
  BY KeyAssumption
<1>1. cells \in Seq(LeafCell) /\ Len(cells) \in Nat
      /\ \A i \in 1 .. Len(cells) : cells[i] \in LeafCell /\ cells[i].key \in Int
  BY LeafFields, LeafCells DEF Cells
<1>2. /\ pos \in 1 .. Len(cells) + 1
      /\ \A j \in 1 .. pos - 1 : cells[j].key < key
      /\ pos <= Len(cells) => cells[pos].key >= key
  BY <1>0, LeafFields, LeafPosFacts
<1>3. cell \in LeafCell /\ cell.key = key
  BY DEF LeafCell
<1>4. WithCell(node, key, value) = [node EXCEPT !.cells = new]
  BY DEF WithCell
<1>5. \A i, j \in 1 .. Len(cells) : i < j => cells[i].key < cells[j].key
  BY DEF Sorted
<1>6. new \in Seq(LeafCell) /\ Sorted(new)
      /\ Range(new) = {c \in Range(cells) : c.key # key} \cup {cell}
  <2>1. CASE HasKey(node, key)
    <3>1. /\ pos \in 1 .. Len(cells)
          /\ \A i \in 1 .. Len(cells) : cells[i].key = key <=> i = pos
      BY <2>1, FoundKey
    <3> HIDE DEF pos, cell, cells
    <3>2. new = [cells EXCEPT ![pos] = cell]
      BY <2>1
    <3> HIDE DEF new
    <3>3. /\ new \in Seq(LeafCell) /\ Len(new) = Len(cells)
          /\ \A i \in 1 .. Len(cells) : new[i] = IF i = pos THEN cell ELSE cells[i]
      BY <1>1, <1>3, <3>1, <3>2, ExceptSeq
    <3>4. \A i \in 1 .. Len(cells) : new[i].key = cells[i].key
      BY <1>3, <3>1, <3>3
    <3>5. Sorted(new)
      BY <1>5, <3>3, <3>4 DEF Sorted
    <3>6. /\ \A i \in 1 .. Len(cells) : cells[i] \in Range(cells) /\ new[i] \in Range(new)
          /\ \A x \in Range(cells) : \E i \in 1 .. Len(cells) : cells[i] = x
          /\ \A x \in Range(new) : \E i \in 1 .. Len(cells) : new[i] = x
      BY <1>1, <3>3, RangeElements
    <3>7. \A x \in Range(new) : x = cell \/ (x \in Range(cells) /\ x.key # key)
      BY <3>1, <3>3, <3>6
    <3>8. cell \in Range(new)
      BY <3>1, <3>3, <3>6
    <3>9. \A x \in Range(cells) : x.key # key => x \in Range(new)
      BY <3>1, <3>3, <3>6
    <3> QED
      BY <3>3, <3>5, <3>7, <3>8, <3>9
  <2>2. CASE ~HasKey(node, key)
    <3>1. \A i \in 1 .. Len(cells) : cells[i].key # key
      BY <2>2 DEF HasKey
    <3> HIDE DEF pos, cell, cells
    <3>2. new = InsertAt(cells, pos, cell)
      BY <2>2
    <3> HIDE DEF new
    <3>3. /\ new \in Seq(LeafCell) /\ Len(new) = Len(cells) + 1
          /\ \A i \in 1 .. Len(cells) + 1 :
                new[i] = IF i < pos THEN cells[i] ELSE IF i = pos THEN cell ELSE cells[i - 1]
      <4>1. /\ InsertAt(cells, pos, cell) \in Seq(LeafCell)
            /\ Len(InsertAt(cells, pos, cell)) = Len(cells) + 1
            /\ \A i \in 1 .. Len(cells) + 1 :
                  InsertAt(cells, pos, cell)[i]
                     = IF i < pos THEN cells[i] ELSE IF i = pos THEN cell ELSE cells[i - 1]
        BY <1>1, <1>2, <1>3, InsertAtElements, SMTT(30)
      <4> QED
        BY <3>2, <4>1, Zenon
    <3>4. \A j \in 1 .. Len(cells) : pos <= j => key < cells[j].key
      <4> SUFFICES ASSUME NEW j \in 1 .. Len(cells), pos <= j PROVE key < cells[j].key
        OBVIOUS
      <4>1. pos \in 1 .. Len(cells)
        BY <1>1, <1>2
      <4>2. cells[pos].key >= key /\ cells[pos].key # key /\ cells[pos].key \in Int
        BY <1>1, <1>2, <3>1, <4>1
      <4>3. pos < j => cells[pos].key < cells[j].key
        BY <1>5, <4>1
      <4> QED
        BY <1>0, <1>1, <4>1, <4>2, <4>3
    <3>5. ASSUME NEW i \in 1 .. Len(new), NEW j \in 1 .. Len(new), i < j
          PROVE  new[i].key < new[j].key
      <4>1. i \in 1 .. Len(cells) + 1 /\ j \in 1 .. Len(cells) + 1 /\ pos \in Int /\ i \in Int /\ j \in Int
        BY <1>1, <1>2, <3>3
      <4>2. CASE j < pos
        <5>1. new[i] = cells[i] /\ new[j] = cells[j] /\ i \in 1 .. Len(cells) /\ j \in 1 .. Len(cells)
          BY <1>1, <1>2, <3>3, <3>5, <4>1, <4>2
        <5> QED
          BY <1>5, <3>5, <5>1
      <4>3. CASE j = pos
        <5>1. new[i] = cells[i] /\ new[j] = cell /\ i \in 1 .. pos - 1
          BY <1>1, <1>2, <3>3, <3>5, <4>1, <4>3
        <5> QED
          BY <1>2, <1>3, <5>1
      <4>4. CASE i = pos
        <5>1. new[i] = cell /\ new[j] = cells[j - 1] /\ j - 1 \in 1 .. Len(cells) /\ pos <= j - 1
          BY <1>1, <1>2, <3>3, <3>5, <4>1, <4>4
        <5> QED
          BY <1>3, <3>4, <5>1
      <4>5. CASE i < pos /\ pos < j
        <5>1. new[i] = cells[i] /\ new[j] = cells[j - 1] /\ j - 1 \in 1 .. Len(cells) /\ pos <= j - 1
              /\ i \in 1 .. pos - 1 /\ i \in 1 .. Len(cells)
          BY <1>1, <1>2, <3>3, <3>5, <4>1, <4>5
        <5>2. cells[i].key < key /\ key < cells[j - 1].key
          BY <1>2, <3>4, <5>1
        <5> QED
          BY <1>0, <1>1, <5>1, <5>2
      <4>6. CASE pos < i
        <5>1. new[i] = cells[i - 1] /\ new[j] = cells[j - 1]
              /\ i - 1 \in 1 .. Len(cells) /\ j - 1 \in 1 .. Len(cells) /\ i - 1 < j - 1
          BY <1>1, <1>2, <3>3, <3>5, <4>1, <4>6
        <5> QED
          BY <1>5, <5>1
      <4> QED
        BY <3>5, <4>1, <4>2, <4>3, <4>4, <4>5, <4>6
    <3>6. Sorted(new)
      BY <3>5 DEF Sorted
    <3>7. /\ \A i \in 1 .. Len(cells) : cells[i] \in Range(cells)
          /\ \A i \in 1 .. Len(cells) + 1 : new[i] \in Range(new)
          /\ \A x \in Range(cells) : \E i \in 1 .. Len(cells) : cells[i] = x
          /\ \A x \in Range(new) : \E i \in 1 .. Len(cells) + 1 : new[i] = x
      <4>1. /\ \A i \in 1 .. Len(cells) : cells[i] \in Range(cells)
            /\ \A x \in Range(cells) : \E i \in 1 .. Len(cells) : cells[i] = x
        BY <1>1, RangeElements, Zenon
      <4>2. /\ \A i \in 1 .. Len(new) : new[i] \in Range(new)
            /\ \A x \in Range(new) : \E i \in 1 .. Len(new) : new[i] = x
        BY <3>3, RangeElements, Zenon
      <4>3. Len(new) = Len(cells) + 1
        BY <3>3
      <4> HIDE <3>3
      <4> QED
        BY <4>1, <4>2, <4>3, Zenon
    <3>8. ASSUME NEW x \in Range(new) PROVE x = cell \/ (x \in Range(cells) /\ x.key # key)
      <4>1. PICK i \in 1 .. Len(cells) + 1 : new[i] = x
        BY <3>7
      <4>2. CASE i < pos
        <5>1. i \in 1 .. Len(cells) /\ x = cells[i]
          BY <1>1, <1>2, <3>3, <4>1, <4>2
        <5> QED
          BY <3>1, <3>7, <5>1
      <4>3. CASE i = pos
        BY <3>3, <4>1, <4>3
      <4>4. CASE i > pos
        <5>1. i - 1 \in 1 .. Len(cells) /\ x = cells[i - 1]
          BY <1>1, <1>2, <3>3, <4>1, <4>4
        <5> QED
          BY <3>1, <3>7, <5>1
      <4> QED
        BY <1>2, <4>2, <4>3, <4>4
    <3>9. cell \in Range(new)
      BY <1>1, <1>2, <3>3, <3>7
    <3>10. ASSUME NEW x \in Range(cells) PROVE x \in Range(new)
      <4>1. PICK i \in 1 .. Len(cells) : cells[i] = x
        BY <3>7
      <4>2. CASE i < pos
        <5>1. i \in 1 .. Len(cells) + 1 /\ new[i] = x
          BY <1>1, <3>3, <4>1, <4>2
        <5> QED
          BY <3>7, <5>1
      <4>3. CASE i >= pos
        <5>1. i + 1 \in 1 .. Len(cells) + 1 /\ ~(i + 1 < pos) /\ i + 1 # pos /\ i + 1 - 1 = i
          BY <1>1, <1>2, <4>3
        <5>2. new[i + 1] = x
          BY <3>3, <4>1, <5>1
        <5> QED
          BY <3>7, <5>1, <5>2
      <4>4. i < pos \/ i >= pos
        BY <1>1, <1>2
      <4> QED
        BY <4>2, <4>3, <4>4
    <3> QED
      BY <3>3, <3>6, <3>8, <3>9, <3>10
  <2> QED
    BY <2>1, <2>2
<1> HIDE DEF new, cell
<1>7. /\ [node EXCEPT !.cells = new] \in LeafNode
      /\ [node EXCEPT !.cells = new].next_leaf = node.next_leaf
      /\ [node EXCEPT !.cells = new].cells = new
  BY <1>6 DEF LeafNode
<1> QED
  BY <1>4, <1>6, <1>7 DEF cell

\* A lookup finds the cell that has the key, if there is one.
LEMMA LookupFacts ==
  ASSUME NEW node \in LeafNode, Sorted(node.cells), NEW key \in Key
  PROVE  /\ \A c \in Range(node.cells) : c.key = key => Lookup(node, key) = c.value
         /\ (\A c \in Range(node.cells) : c.key # key) => Lookup(node, key) = Absent
<1>1. \A k : HasKey(node, k) <=> \E c \in Range(node.cells) : c.key = k
  BY LeafFields
<1>2. (\A c \in Range(node.cells) : c.key # key) => Lookup(node, key) = Absent
  BY <1>1 DEF Lookup
<1>3. ASSUME NEW c \in Range(node.cells), c.key = key PROVE Lookup(node, key) = c.value
  <2> DEFINE cells == node.cells
             pos == LeafPos(cells, key)
             first == FirstPos(cells, LAMBDA k : k = key)
  <2>1. HasKey(node, key)
    BY <1>1, <1>3
  <2>2. /\ pos \in 1 .. Len(cells) /\ cells[pos].key = key
        /\ \A i \in 1 .. Len(cells) : cells[i].key = key <=> i = pos
    BY <2>1, FoundKey
  <2>3. Len(cells) \in Nat /\ cells \in Seq(LeafCell)
    BY LeafFields
  <2>4. PICK i \in 1 .. Len(cells) : cells[i] = c
    BY <2>3, RangeElements
  <2>5. i = pos
    BY <1>3, <2>2, <2>4
  <2>6. Lookup(node, key) = cells[first].value
    BY <2>1 DEF Lookup
  <2> HIDE DEF pos, cells
  <2>7. \E j \in 1 .. Len(cells) + 1 :
          /\ \A h \in 1 .. j - 1 : ~(cells[h].key = key)
          /\ j <= Len(cells) => cells[j].key = key
    <3>1. \A h \in 1 .. pos - 1 : h \in 1 .. Len(cells) /\ h # pos
      BY <2>2, <2>3
    <3>2. pos \in 1 .. Len(cells) + 1
      BY <2>2, <2>3
    <3> QED
      BY <2>2, <3>1, <3>2
  <2>8. /\ first \in 1 .. Len(cells) + 1
        /\ \A h \in 1 .. first - 1 : ~(cells[h].key = key)
        /\ first <= Len(cells) => cells[first].key = key
    BY <2>7 DEF FirstPos
  <2> HIDE DEF first
  <2>9. first <= Len(cells)
    <3>1. ~(pos \in 1 .. first - 1)
      BY <2>2, <2>8
    <3> QED
      BY <2>2, <2>3, <2>8, <3>1
  <2>10. first = pos
    BY <2>2, <2>3, <2>8, <2>9
  <2> QED
    BY <2>4, <2>5, <2>6, <2>10
<1> QED
  BY <1>2, <1>3

LEMMA LookupSame ==
  ASSUME NEW a \in LeafNode, Sorted(a.cells), NEW b \in LeafNode, Sorted(b.cells), NEW key \in Key,
         \A c : c.key = key => (c \in Range(a.cells) <=> c \in Range(b.cells))
  PROVE  Lookup(a, key) = Lookup(b, key)
<1>1. CASE \E c \in Range(a.cells) : c.key = key
  <2>1. PICK c \in Range(a.cells) : c.key = key
    BY <1>1
  <2>2. c \in Range(b.cells)
    BY <2>1
  <2>3. Lookup(a, key) = c.value
    BY <2>1, LookupFacts
  <2>4. Lookup(b, key) = c.value
    BY <2>1, <2>2, LookupFacts
  <2> QED
    BY <2>3, <2>4
<1>2. CASE \A c \in Range(a.cells) : c.key # key
  <2>1. \A c \in Range(b.cells) : c.key # key
    BY <1>2
  <2>2. Lookup(a, key) = Absent
    BY <1>2, LookupFacts
  <2>3. Lookup(b, key) = Absent
    BY <2>1, LookupFacts
  <2> QED
    BY <2>2, <2>3
<1> QED
  BY <1>1, <1>2

\* Taking out the cell with the key leaves the others, in order.
LEMMA WithoutCellFacts ==
  ASSUME NEW node \in LeafNode, Sorted(node.cells), NEW key \in Key, HasKey(node, key)
  PROVE  /\ WithoutCell(node, key) \in LeafNode
         /\ WithoutCell(node, key).next_leaf = node.next_leaf
         /\ Sorted(WithoutCell(node, key).cells)
         /\ Range(WithoutCell(node, key).cells) = {c \in Range(node.cells) : c.key # key}
<1> DEFINE cells == node.cells
           pos == LeafPos(cells, key)
           new == RemoveAt(cells, pos)
<1>1. cells \in Seq(LeafCell) /\ Len(cells) \in Nat
  BY LeafFields
<1>2. /\ pos \in 1 .. Len(cells)
      /\ \A i \in 1 .. Len(cells) : cells[i].key = key <=> i = pos
  BY FoundKey
<1>3. WithoutCell(node, key) = [node EXCEPT !.cells = new]
  BY DEF WithoutCell
<1>4. \A i, j \in 1 .. Len(cells) : i < j => cells[i].key < cells[j].key
  BY DEF Sorted
<1> HIDE DEF pos, cells
<1>5. /\ new \in Seq(LeafCell) /\ Len(new) = Len(cells) - 1
      /\ \A i \in 1 .. Len(cells) - 1 : new[i] = IF i < pos THEN cells[i] ELSE cells[i + 1]
  BY <1>1, <1>2, RemoveAtElements
<1> HIDE DEF new
<1>6. ASSUME NEW i \in 1 .. Len(new), NEW j \in 1 .. Len(new), i < j PROVE new[i].key < new[j].key
  <2>1. PICK a \in 1 .. Len(cells) : a = IF i < pos THEN i ELSE i + 1
    BY <1>1, <1>2, <1>5
  <2>2. PICK b \in 1 .. Len(cells) : b = IF j < pos THEN j ELSE j + 1
    BY <1>1, <1>2, <1>5
  <2>3. new[i] = cells[a] /\ new[j] = cells[b]
    BY <1>5, <2>1, <2>2
  <2>4. a < b
    BY <1>1, <1>2, <1>5, <1>6, <2>1, <2>2
  <2> QED
    BY <1>4, <2>3, <2>4
<1>7. Sorted(new)
  BY <1>6 DEF Sorted
<1>8. /\ \A i \in 1 .. Len(cells) : cells[i] \in Range(cells)
      /\ \A i \in 1 .. Len(cells) - 1 : new[i] \in Range(new)
      /\ \A x \in Range(cells) : \E i \in 1 .. Len(cells) : cells[i] = x
      /\ \A x \in Range(new) : \E i \in 1 .. Len(cells) - 1 : new[i] = x
  BY <1>1, <1>5, RangeElements
<1>9. ASSUME NEW x \in Range(new) PROVE x \in Range(cells) /\ x.key # key
  <2>1. PICK i \in 1 .. Len(cells) - 1 : new[i] = x
    BY <1>8
  <2>2. PICK a \in 1 .. Len(cells) : a = IF i < pos THEN i ELSE i + 1
    BY <1>1, <1>2
  <2>3. x = cells[a] /\ a # pos
    BY <1>1, <1>2, <1>5, <2>1, <2>2
  <2> QED
    BY <1>2, <1>8, <2>3
<1>10. ASSUME NEW x \in Range(cells), x.key # key PROVE x \in Range(new)
  <2>1. PICK i \in 1 .. Len(cells) : cells[i] = x
    BY <1>8
  <2>2. i # pos
    BY <1>2, <1>10, <2>1
  <2>3. PICK a \in 1 .. Len(cells) - 1 : a = IF i < pos THEN i ELSE i - 1
    BY <1>1, <1>2, <2>2
  <2>4. IF a < pos THEN a = i ELSE a + 1 = i
    BY <1>1, <1>2, <2>2, <2>3
  <2>5. new[a] = x
    BY <1>5, <2>1, <2>4
  <2> QED
    BY <1>8, <2>5
<1>11. /\ [node EXCEPT !.cells = new] \in LeafNode
       /\ [node EXCEPT !.cells = new].next_leaf = node.next_leaf
       /\ [node EXCEPT !.cells = new].cells = new
  BY <1>5 DEF LeafNode
<1> QED
  BY <1>3, <1>7, <1>9, <1>10, <1>11 DEF cells

\* The halves of a split leaf have the cells below and from the promoted key
\* on; neither is empty.
LEMMA SplitLeafFacts ==
  ASSUME NEW node \in LeafNode, Sorted(node.cells), Len(node.cells) >= 2, NEW right \in PageId,
         NEW m, m = SplitLeafRight(node).cells[1].key
  PROVE  /\ SplitLeafLeft(node, right) \in LeafNode /\ SplitLeafRight(node) \in LeafNode
         /\ SplitLeafLeft(node, right).next_leaf = right
         /\ SplitLeafRight(node).next_leaf = node.next_leaf
         /\ Sorted(SplitLeafLeft(node, right).cells) /\ Sorted(SplitLeafRight(node).cells)
         /\ Range(SplitLeafLeft(node, right).cells) = {c \in Range(node.cells) : c.key < m}
         /\ Range(SplitLeafRight(node).cells) = {c \in Range(node.cells) : m <= c.key}
         /\ \E c \in Range(node.cells) : c.key < m
         /\ \E c \in Range(node.cells) : c.key = m
<1> DEFINE cells == node.cells
           s == SplitPoint(node)
           low == SubSeq(cells, 1, s)
           high == SubSeq(cells, s + 1, Len(cells))
<1>1. /\ cells \in Seq(LeafCell) /\ Len(cells) \in Nat
      /\ \A i \in 1 .. Len(cells) : cells[i] \in Range(cells) /\ cells[i].key \in Int
      /\ \A x \in Range(cells) : \E i \in 1 .. Len(cells) : cells[i] = x
  BY LeafFields, RangeElements DEF Cells
<1>2. s \in 1 .. Len(cells) - 1
  <2>1. \A n \in Nat : n >= 2 => n \div 2 \in 1 .. n - 1
    OBVIOUS
  <2> QED
    BY <1>1, <2>1 DEF SplitPoint
<1>3. /\ SplitLeafLeft(node, right) = Leaf(low, right)
      /\ SplitLeafRight(node) = Leaf(high, node.next_leaf)
  BY DEF SplitLeafLeft, SplitLeafRight
<1>4. \A i, j \in 1 .. Len(cells) : i < j => cells[i].key < cells[j].key
  BY DEF Sorted
<1> HIDE DEF cells, s
<1>5. /\ low \in Seq(LeafCell) /\ Len(low) = s
      /\ \A i \in 1 .. s : low[i] = cells[i]
  <2>1. 1 \in 1 .. Len(cells) + 1 /\ s \in 1 - 1 .. Len(cells)
    BY <1>1, <1>2
  <2>2. /\ low \in Seq(LeafCell) /\ Len(low) = s - 1 + 1
        /\ \A i \in 1 .. s - 1 + 1 : low[i] = cells[1 + i - 1]
    BY <1>1, <2>1, SubSeqElements
  <2>3. s - 1 + 1 = s /\ \A i \in 1 .. s : 1 + i - 1 = i
    BY <1>1, <1>2
  <2> HIDE DEF low
  <2> QED
    BY <2>2, <2>3
<1>6. /\ high \in Seq(LeafCell) /\ Len(high) = Len(cells) - s
      /\ \A i \in 1 .. Len(cells) - s : high[i] = cells[s + i]
  <2>1. s + 1 \in 1 .. Len(cells) + 1 /\ Len(cells) \in s + 1 - 1 .. Len(cells)
    BY <1>1, <1>2
  <2>2. /\ high \in Seq(LeafCell) /\ Len(high) = Len(cells) - (s + 1) + 1
        /\ \A i \in 1 .. Len(cells) - (s + 1) + 1 : high[i] = cells[s + 1 + i - 1]
    BY <1>1, <2>1, SubSeqElements
  <2>3. /\ Len(cells) - (s + 1) + 1 = Len(cells) - s
        /\ \A i \in 1 .. Len(cells) - s : s + 1 + i - 1 = s + i
    BY <1>1, <1>2
  <2> HIDE DEF high
  <2> QED
    BY <2>2, <2>3
<1>7. /\ Leaf(low, right) \in LeafNode /\ Leaf(low, right).cells = low
      /\ Leaf(low, right).next_leaf = right
  BY <1>5 DEF Leaf, LeafNode
<1>8. /\ Leaf(high, node.next_leaf) \in LeafNode /\ Leaf(high, node.next_leaf).cells = high
      /\ Leaf(high, node.next_leaf).next_leaf = node.next_leaf
  BY <1>6, LeafFields DEF Leaf, LeafNode
<1> HIDE DEF low, high
<1>9. m = cells[s + 1].key /\ s + 1 \in 1 .. Len(cells) /\ 1 \in 1 .. Len(cells) - s /\ m \in Int
  <2>1. s + 1 \in 1 .. Len(cells) /\ 1 \in 1 .. Len(cells) - s
    BY <1>1, <1>2
  <2>2. high[1] = cells[s + 1]
    BY <1>6, <2>1
  <2> QED
    BY <1>1, <1>3, <1>8, <2>1, <2>2
<1>10. \A i \in 1 .. Len(cells) : (i <= s => cells[i].key < m) /\ (i > s => m <= cells[i].key)
  <2> SUFFICES ASSUME NEW i \in 1 .. Len(cells)
               PROVE  (i <= s => cells[i].key < m) /\ (i > s => m <= cells[i].key)
    OBVIOUS
  <2>1. i < s + 1 => cells[i].key < m
    BY <1>4, <1>9
  <2>2. s + 1 < i => m < cells[i].key
    BY <1>4, <1>9
  <2>3. s + 1 = i => m = cells[i].key
    BY <1>9
  <2>4. s \in Int /\ i \in Int /\ m \in Int /\ cells[i].key \in Int
    BY <1>1, <1>2, <1>9
  <2>5. (i <= s => i < s + 1) /\ (i > s => s + 1 < i \/ s + 1 = i)
    BY <2>4
  <2>6. (m < cells[i].key \/ m = cells[i].key) => m <= cells[i].key
    BY <2>4
  <2> QED
    BY <2>1, <2>2, <2>3, <2>5, <2>6
<1>11. Sorted(low)
  <2>1. \A i \in 1 .. s : i \in 1 .. Len(cells)
    BY <1>1, <1>2
  <2> QED
    BY <1>4, <1>5, <2>1 DEF Sorted
<1>12. Sorted(high)
  <2>1. \A i \in 1 .. Len(cells) - s : s + i \in 1 .. Len(cells)
    BY <1>1, <1>2
  <2>2. \A i, j \in 1 .. Len(cells) - s : i < j => s + i < s + j
    BY <1>1, <1>2
  <2> QED
    BY <1>4, <1>6, <2>1, <2>2 DEF Sorted
<1>13. Range(low) = {c \in Range(cells) : c.key < m}
  <2>1. /\ \A i \in 1 .. s : low[i] \in Range(low)
        /\ \A x \in Range(low) : \E i \in 1 .. s : low[i] = x
    BY <1>5, RangeElements
  <2>2. \A i \in 1 .. s : i \in 1 .. Len(cells) /\ i <= s
    BY <1>1, <1>2
  <2>3. \A x \in Range(low) : x \in Range(cells) /\ x.key < m
    BY <1>1, <1>5, <1>10, <2>1, <2>2
  <2>4. ASSUME NEW x \in Range(cells), x.key < m PROVE x \in Range(low)
    <3>1. PICK i \in 1 .. Len(cells) : cells[i] = x
      BY <1>1
    <3>2. i \in 1 .. s
      <4>1. ~(m <= cells[i].key)
        BY <1>1, <1>9, <2>4, <3>1
      <4> QED
        BY <1>1, <1>2, <1>10, <4>1
    <3> QED
      BY <1>5, <2>1, <3>1, <3>2
  <2> QED
    BY <2>3, <2>4
<1>14. Range(high) = {c \in Range(cells) : m <= c.key}
  <2>1. /\ \A i \in 1 .. Len(cells) - s : high[i] \in Range(high)
        /\ \A x \in Range(high) : \E i \in 1 .. Len(cells) - s : high[i] = x
    BY <1>6, RangeElements
  <2>2. \A i \in 1 .. Len(cells) - s : s + i \in 1 .. Len(cells) /\ s + i > s
    BY <1>1, <1>2
  <2>3. ASSUME NEW x \in Range(high) PROVE x \in Range(cells) /\ m <= x.key
    <3>1. PICK i \in 1 .. Len(cells) - s : high[i] = x
      BY <2>1
    <3>2. PICK j \in 1 .. Len(cells) : j = s + i /\ j > s
      BY <2>2
    <3> QED
      BY <1>1, <1>6, <1>10, <3>1, <3>2
  <2>4. ASSUME NEW x \in Range(cells), m <= x.key PROVE x \in Range(high)
    <3>1. PICK i \in 1 .. Len(cells) : cells[i] = x
      BY <1>1
    <3>2. i - s \in 1 .. Len(cells) - s /\ s + (i - s) = i
      <4>1. ~(cells[i].key < m)
        BY <1>1, <1>9, <2>4, <3>1
      <4> QED
        BY <1>1, <1>2, <1>10, <4>1
    <3> QED
      BY <1>6, <2>1, <3>1, <3>2
  <2> QED
    BY <2>3, <2>4
<1>15. cells[1] \in Range(cells) /\ cells[1].key < m
  <2>1. 1 \in 1 .. Len(cells) /\ 1 <= s
    BY <1>1, <1>2
  <2> QED
    BY <1>1, <1>10, <2>1
<1>16. cells[s + 1] \in Range(cells) /\ cells[s + 1].key = m
  BY <1>1, <1>9
<1> QED
  BY <1>3, <1>7, <1>8, <1>11, <1>12, <1>13, <1>14, <1>15, <1>16 DEF cells

-----------------------------------------------------------------------------
(* Separator nodes. *)

LEMMA InternalFields ==
  ASSUME NEW node \in InternalNode
  PROVE  /\ node \in Node /\ node # NoNode /\ node.type = "INTERNAL"
         /\ node.cells \in Seq(InternalCell) /\ Len(node.cells) \in Nat
         /\ node.leftmost_child \in PageId
         /\ Cells(node.cells)
         /\ \A i \in 1 .. Len(node.cells) : node.cells[i].key \in Key /\ node.cells[i].key \in Int
         /\ \A i \in 0 .. Len(node.cells) : ChildAt(node, i) \in PageId
<1>1. /\ node \in Node /\ node # NoNode /\ node.type = "INTERNAL"
      /\ node.cells \in Seq(InternalCell) /\ Len(node.cells) \in Nat
      /\ node.leftmost_child \in PageId
  BY NoNodeAssumption DEF InternalNode, Node
<1>2. /\ Cells(node.cells)
      /\ \A i \in 1 .. Len(node.cells) : node.cells[i].key \in Key /\ node.cells[i].child \in PageId
  BY <1>1, InternalCells
<1>3. \A i \in 0 .. Len(node.cells) : i = 0 \/ i \in 1 .. Len(node.cells)
  BY <1>1
<1> QED
  BY <1>1, <1>2, <1>3 DEF ChildAt, Cells

\* In sorted cells only the two separators next to the gap matter.
LEMMA BetweenEnds ==
  ASSUME NEW cells, Cells(cells), Sorted(cells), NEW i \in 0 .. Len(cells), NEW key \in Int
  PROVE  Between(cells, i, key) <=>
            /\ i >= 1 => cells[i].key <= key
            /\ i < Len(cells) => key < cells[i + 1].key
<1>1. Len(cells) \in Nat /\ \A j \in 1 .. Len(cells) : cells[j].key \in Int
  BY DEF Cells
<1>2. Between(cells, i, key) => /\ i >= 1 => cells[i].key <= key
                                /\ i < Len(cells) => key < cells[i + 1].key
  BY <1>1 DEF Between
<1>3. ASSUME i >= 1 => cells[i].key <= key, i < Len(cells) => key < cells[i + 1].key
      PROVE  Between(cells, i, key)
  <2>1. ASSUME NEW j \in 1 .. i PROVE cells[j].key <= key
    <3>1. i \in 1 .. Len(cells) /\ j \in 1 .. Len(cells)
      BY <1>1
    <3>2. j < i => cells[j].key < cells[i].key
      BY <3>1 DEF Sorted
    <3>3. i >= 1 /\ (j < i \/ j = i)
      BY <3>1
    <3>4. cells[i].key <= key /\ cells[i].key \in Int /\ cells[j].key \in Int
      BY <1>1, <1>3, <3>1, <3>3
    <3> QED
      BY <3>2, <3>3, <3>4
  <2>2. ASSUME NEW j \in i + 1 .. Len(cells) PROVE key < cells[j].key
    <3>1. i + 1 \in 1 .. Len(cells) /\ j \in 1 .. Len(cells)
      BY <1>1
    <3>2. i + 1 < j => cells[i + 1].key < cells[j].key
      BY <3>1 DEF Sorted
    <3>3. i < Len(cells) /\ (i + 1 < j \/ j = i + 1)
      BY <1>1, <3>1
    <3>4. key < cells[i + 1].key /\ cells[i + 1].key \in Int /\ cells[j].key \in Int
      BY <1>1, <1>3, <3>1, <3>3
    <3> QED
      BY <3>2, <3>3, <3>4
  <2> QED
    BY <2>1, <2>2 DEF Between
<1> QED
  BY <1>2, <1>3

\* Node new has separator m after gap idx of node: the gap has become two,
\* one below m and one from m on, whose child is page right.
SeparatorAdded(node, idx, m, right, new) ==
    /\ new \in InternalNode
    /\ Len(new.cells) = Len(node.cells) + 1
    /\ Sorted(new.cells)
    /\ \A i \in 1 .. Len(node.cells) + 1 :
          \/ new.cells[i].key = m
          \/ \E j \in 1 .. Len(node.cells) : new.cells[i].key = node.cells[j].key
    /\ \A i \in 0 .. Len(node.cells) + 1 :
          ChildAt(new, i) = IF i <= idx THEN ChildAt(node, i)
                            ELSE IF i = idx + 1 THEN right ELSE ChildAt(node, i - 1)
    /\ \A i \in 0 .. Len(node.cells) + 1, k \in Int :
          Between(new.cells, i, k) <=>
             IF i < idx THEN Between(node.cells, i, k)
             ELSE IF i = idx THEN Between(node.cells, idx, k) /\ k < m
             ELSE IF i = idx + 1 THEN Between(node.cells, idx, k) /\ m <= k
             ELSE Between(node.cells, i - 1, k)

\* It goes in in order if the gap has a key below m.
LEMMA WithSeparatorFacts ==
  ASSUME NEW node \in InternalNode, Sorted(node.cells), NEW idx \in 0 .. Len(node.cells),
         NEW m \in Key, NEW right \in PageId, NEW x \in Int, x < m,
         Between(node.cells, idx, x), Between(node.cells, idx, m),
         NEW new, new = WithSeparator(node, idx, m, right)
  PROVE  SeparatorAdded(node, idx, m, right, new)
<1> DEFINE cells == node.cells
           n == Len(cells)
           e == [key |-> m, child |-> right]
           after == InsertAt(cells, idx + 1, e)
<1>0. m \in Int
  BY KeyAssumption
<1>1. /\ cells \in Seq(InternalCell) /\ n \in Nat /\ Cells(cells)
      /\ \A i \in 1 .. n : cells[i].key \in Int
      /\ node.leftmost_child \in PageId
  BY InternalFields
<1>2. idx \in 0 .. n /\ Sorted(cells) /\ Between(cells, idx, x) /\ Between(cells, idx, m)
  OBVIOUS
<1>3. e \in InternalCell /\ e.key = m /\ e.child = right
  BY DEF InternalCell
<1>4. new = [node EXCEPT !.cells = after]
  BY DEF WithSeparator
<1> HIDE DEF cells, e
<1>5. /\ after \in Seq(InternalCell) /\ Len(after) = n + 1
      /\ \A i \in 1 .. n + 1 :
            after[i] = IF i < idx + 1 THEN cells[i] ELSE IF i = idx + 1 THEN e ELSE cells[i - 1]
  <2>1. idx + 1 \in 1 .. Len(cells) + 1
    BY <1>1, <1>2
  <2>2. ASSUME NEW at \in 1 .. Len(cells) + 1
        PROVE  /\ InsertAt(cells, at, e) \in Seq(InternalCell)
               /\ Len(InsertAt(cells, at, e)) = Len(cells) + 1
               /\ \A i \in 1 .. Len(cells) + 1 :
                     InsertAt(cells, at, e)[i]
                        = IF i < at THEN cells[i] ELSE IF i = at THEN e ELSE cells[i - 1]
    <3>1. cells \in Seq(InternalCell) /\ e \in InternalCell
      BY <1>1, <1>3
    <3> QED
      BY <3>1, InsertAtElements
  <2> QED
    BY <2>1, <2>2, Zenon
<1> HIDE DEF after
<1>6. /\ new \in InternalNode /\ new.cells = after /\ new.leftmost_child = node.leftmost_child
  BY <1>4, <1>5 DEF InternalNode
<1>7. /\ \A i \in 1 .. n + 1 : i <= idx => after[i] = cells[i] /\ i \in 1 .. n
      /\ after[idx + 1] = e /\ idx + 1 \in 1 .. n + 1
      /\ \A i \in 1 .. n + 1 : i > idx + 1 => after[i] = cells[i - 1] /\ i - 1 \in 1 .. n
  BY <1>1, <1>2, <1>5
<1> HIDE DEF n
<1>8. /\ \A i \in 1 .. n : i <= idx => cells[i].key < m
      /\ \A i \in 1 .. n : i > idx => m < cells[i].key
  <2>1. \A i \in 1 .. n : i <= idx => i \in 1 .. idx
    BY <1>1, <1>2
  <2>2. \A i \in 1 .. n : i > idx => i \in idx + 1 .. Len(cells)
    BY <1>1, <1>2 DEF n
  <2>3. ASSUME NEW i \in 1 .. n, i <= idx PROVE cells[i].key < m
    <3>1. cells[i].key <= x
      BY <1>2, <2>1, <2>3 DEF Between
    <3> QED
      BY <1>0, <1>1, <3>1
  <2> QED
    BY <1>2, <2>2, <2>3 DEF Between
<1>9. Cells(after) /\ \A i \in 1 .. n + 1 : after[i].key \in Int
  BY <1>5, InternalCells DEF Cells
<1>10. Sorted(after)
  <2> SUFFICES ASSUME NEW i \in 1 .. n + 1, NEW j \in 1 .. n + 1, i < j
               PROVE  after[i].key < after[j].key
    BY <1>5 DEF Sorted
  <2>0. idx \in Int /\ n \in Int
    BY <1>1, <1>2
  <2>1. CASE j <= idx
    <3>1. i <= idx
      BY <2>0, <2>1
    <3> QED
      BY <1>2, <1>7, <2>1, <3>1 DEF Sorted, n
  <2>2. CASE j = idx + 1
    <3>1. i <= idx
      BY <2>0, <2>2
    <3> QED
      BY <1>3, <1>7, <1>8, <2>2, <3>1
  <2>3. CASE j > idx + 1 /\ i <= idx
    <3>1. after[i] = cells[i] /\ i \in 1 .. n /\ after[j] = cells[j - 1] /\ j - 1 \in 1 .. n
      BY <1>7, <2>3
    <3>2. i < j - 1
      BY <2>0, <2>3
    <3> QED
      BY <1>2, <3>1, <3>2 DEF Sorted, n
  <2>4. CASE j > idx + 1 /\ i = idx + 1
    <3>1. after[i] = e /\ after[j] = cells[j - 1] /\ j - 1 \in 1 .. n /\ j - 1 > idx
      BY <1>7, <2>0, <2>4
    <3> QED
      BY <1>3, <1>8, <3>1
  <2>5. CASE i > idx + 1
    <3>0. j > idx + 1
      BY <2>0, <2>5
    <3>1. after[i] = cells[i - 1] /\ i - 1 \in 1 .. n /\ after[j] = cells[j - 1] /\ j - 1 \in 1 .. n
      BY <1>7, <2>5, <3>0
    <3>2. i - 1 < j - 1
      OBVIOUS
    <3> QED
      BY <1>2, <3>1, <3>2 DEF Sorted, n
  <2> QED
    BY <2>0, <2>1, <2>2, <2>3, <2>4, <2>5
<1>11. ASSUME NEW i \in 1 .. n + 1
       PROVE  after[i].key = m \/ \E j \in 1 .. n : after[i].key = cells[j].key
  <2>1. i <= idx \/ i = idx + 1 \/ i > idx + 1
    BY <1>2
  <2> QED
    BY <1>3, <1>7, <2>1
<1>12. ASSUME NEW i \in 0 .. n + 1
       PROVE  ChildAt(new, i) = IF i <= idx THEN ChildAt(node, i)
                                ELSE IF i = idx + 1 THEN right ELSE ChildAt(node, i - 1)
  <2>0. idx \in Int /\ n \in Int /\ i \in Int /\ idx >= 0
    BY <1>1, <1>2
  <2>1. CASE i = 0
    BY <1>6, <2>0, <2>1 DEF ChildAt
  <2>2. CASE i # 0 /\ i <= idx
    <3>1. i \in 1 .. n + 1
      BY <2>0, <2>2
    <3> QED
      BY <1>6, <1>7, <2>2, <3>1 DEF ChildAt, cells
  <2>3. CASE i = idx + 1
    <3>1. i # 0 /\ ~(i <= idx)
      BY <2>0, <2>3
    <3> QED
      BY <1>3, <1>6, <1>7, <2>3, <3>1 DEF ChildAt
  <2>4. CASE i > idx + 1
    <3>1. i # 0 /\ ~(i <= idx) /\ i # idx + 1 /\ i \in 1 .. n + 1 /\ i - 1 # 0
      BY <2>0, <2>4
    <3> QED
      BY <1>6, <1>7, <2>4, <3>1 DEF ChildAt, cells
  <2> QED
    BY <2>0, <2>1, <2>2, <2>3, <2>4
<1>13. ASSUME NEW i \in 0 .. n + 1, NEW k \in Int
       PROVE  Between(after, i, k) <=>
                  IF i < idx THEN Between(cells, i, k)
                  ELSE IF i = idx THEN Between(cells, idx, k) /\ k < m
                  ELSE IF i = idx + 1 THEN Between(cells, idx, k) /\ m <= k
                  ELSE Between(cells, i - 1, k)
  <2>0. idx \in Int /\ n \in Int /\ i \in Int /\ idx >= 0 /\ idx <= n
    BY <1>1, <1>2
  <2>1. Between(after, i, k) <=> /\ i >= 1 => after[i].key <= k
                                 /\ i < n + 1 => k < after[i + 1].key
    BY <1>5, <1>9, <1>10, BetweenEnds
  <2>2. \A h \in 0 .. n : Between(cells, h, k) <=> /\ h >= 1 => cells[h].key <= k
                                                   /\ h < n => k < cells[h + 1].key
    BY <1>1, <1>2, BetweenEnds DEF n
  <2>3. CASE i < idx
    <3>1. i >= 1 => after[i] = cells[i]
      BY <1>7, <2>0, <2>3
    <3>2. i + 1 \in 1 .. n + 1 /\ i + 1 <= idx /\ i < n /\ i < n + 1 /\ i \in 0 .. n
      BY <2>0, <2>3
    <3>3. after[i + 1] = cells[i + 1]
      BY <1>7, <3>2
    <3> QED
      BY <2>1, <2>2, <2>3, <3>1, <3>2, <3>3
  <2>4. CASE i = idx
    <3>1. i >= 1 => after[i] = cells[i]
      BY <1>7, <2>0, <2>4
    <3>2. after[i + 1].key = m /\ i < n + 1 /\ i \in 0 .. n
      BY <1>3, <1>7, <2>0, <2>4
    <3>3. i < n => m < cells[i + 1].key /\ cells[i + 1].key \in Int
      BY <1>1, <1>8, <2>0, <2>4
    <3>4. Between(after, i, k) <=> (i >= 1 => cells[i].key <= k) /\ k < m
      BY <2>1, <3>1, <3>2
    <3>5. k < m => (i < n => k < cells[i + 1].key)
      BY <1>0, <3>3
    <3>6. Between(cells, i, k) /\ k < m <=> (i >= 1 => cells[i].key <= k) /\ k < m
      BY <2>2, <3>2, <3>5
    <3> QED
      BY <2>0, <2>4, <3>4, <3>6
  <2>5. CASE i = idx + 1
    <3>1. after[i].key = m /\ i >= 1 /\ ~(i < idx) /\ i # idx /\ idx \in 0 .. n
      BY <1>3, <1>7, <2>0, <2>5
    <3>2. i < n + 1 => after[i + 1] = cells[idx + 1] /\ idx < n
      <4>1. i < n + 1 => i + 1 \in 1 .. n + 1 /\ i + 1 > idx + 1 /\ i + 1 - 1 = idx + 1 /\ idx < n
        BY <2>0, <2>5
      <4> QED
        BY <1>7, <4>1
    <3>3. idx < n => i < n + 1
      BY <2>0, <2>5
    <3>4. idx >= 1 => cells[idx].key < m /\ cells[idx].key \in Int
      BY <1>1, <1>8, <2>0
    <3>5. m <= k => (idx >= 1 => cells[idx].key <= k)
      BY <1>0, <3>4
    <3> QED
      BY <2>1, <2>2, <2>5, <3>1, <3>2, <3>3, <3>5
  <2>6. CASE i > idx + 1
    <3>1. i \in 1 .. n + 1 /\ i >= 1 /\ i - 1 >= 1 /\ i - 1 \in 0 .. n /\ ~(i < idx) /\ i # idx /\ i # idx + 1
      BY <2>0, <2>6
    <3>2. after[i] = cells[i - 1]
      BY <1>7, <2>6, <3>1
    <3>3. i < n + 1 => after[i + 1] = cells[i - 1 + 1] /\ i - 1 < n
      <4>1. i < n + 1 => i + 1 \in 1 .. n + 1 /\ i + 1 > idx + 1 /\ i + 1 - 1 = i - 1 + 1 /\ i - 1 < n
        BY <2>0, <2>6
      <4> QED
        BY <1>7, <4>1
    <3>4. i - 1 < n => i < n + 1
      BY <2>0
    <3> QED
      BY <2>1, <2>2, <3>1, <3>2, <3>3, <3>4
  <2> QED
    BY <2>0, <2>3, <2>4, <2>5, <2>6
<1> QED
  BY <1>5, <1>6, <1>10, <1>11, <1>12, <1>13 DEF n, cells, SeparatorAdded

\* The halves a and b of a split separator node have the gaps before and
\* after the middle separator m, which is the one after position s.
InternalSplit(node, s, m, a, b) ==
    /\ a \in InternalNode /\ b \in InternalNode
    /\ s \in 1 .. Len(node.cells) - 2
    /\ Len(a.cells) = s /\ Len(b.cells) = Len(node.cells) - s - 1
    /\ Sorted(a.cells) /\ Sorted(b.cells)
    /\ m \in Key /\ m = node.cells[s + 1].key
    /\ \A i \in 1 .. s : a.cells[i].key = node.cells[i].key /\ node.cells[i].key < m
    /\ \A i \in 1 .. Len(node.cells) - s - 1 :
          b.cells[i].key = node.cells[s + 1 + i].key /\ m <= node.cells[s + 1 + i].key
    /\ \A i \in 0 .. s : ChildAt(a, i) = ChildAt(node, i)
    /\ \A i \in 0 .. Len(node.cells) - s - 1 : ChildAt(b, i) = ChildAt(node, s + 1 + i)
    /\ \A i \in 0 .. s, k \in Int :
          Between(node.cells, i, k) <=> Between(a.cells, i, k) /\ k < m
    /\ \A i \in 0 .. Len(node.cells) - s - 1, k \in Int :
          Between(node.cells, s + 1 + i, k) <=> Between(b.cells, i, k) /\ m <= k

LEMMA SplitInternalFacts ==
  ASSUME NEW node \in InternalNode, Sorted(node.cells), Len(node.cells) >= 3,
         NEW s, s = SplitPoint(node), NEW m, m = MiddleCell(node).key,
         NEW a, a = SplitInternalLeft(node), NEW b, b = SplitInternalRight(node)
  PROVE  InternalSplit(node, s, m, a, b)
<1> DEFINE cells == node.cells
           n == Len(cells)
           low == SubSeq(cells, 1, s)
           high == SubSeq(cells, s + 2, n)
<1>1. /\ cells \in Seq(InternalCell) /\ n \in Nat /\ Cells(cells)
      /\ \A i \in 1 .. n : cells[i].key \in Key /\ cells[i].key \in Int
      /\ node.leftmost_child \in PageId /\ Sorted(cells)
      /\ \A i \in 0 .. n : ChildAt(node, i) \in PageId
  BY InternalFields
<1>2. s \in 1 .. n - 2
  <2>1. \A h \in Nat : h >= 3 => h \div 2 \in 1 .. h - 2
    OBVIOUS
  <2> QED
    BY <1>1, <2>1 DEF SplitPoint
<1>3. /\ a = Internal(low, node.leftmost_child) /\ b = Internal(high, cells[s + 1].child)
      /\ m = cells[s + 1].key
  BY DEF SplitInternalLeft, SplitInternalRight, MiddleCell
<1>4. \A i, j \in 1 .. n : i < j => cells[i].key < cells[j].key
  BY DEF Sorted
<1>5. cells[s + 1].child \in PageId /\ \A i \in 1 .. n : ChildAt(node, i) = cells[i].child
  <2>1. \A i \in 1 .. n : i # 0
    OBVIOUS
  <2>2. s + 1 \in 1 .. n /\ s + 1 \in 0 .. n
    BY <1>1, <1>2
  <2> QED
    BY <1>1, <2>1, <2>2 DEF ChildAt
<1> HIDE DEF cells
<1>6. /\ low \in Seq(InternalCell) /\ Len(low) = s
      /\ \A i \in 1 .. s : low[i] = cells[i]
  <2>1. 1 \in 1 .. Len(cells) + 1 /\ s \in 1 - 1 .. Len(cells)
    BY <1>1, <1>2
  <2>2. /\ low \in Seq(InternalCell) /\ Len(low) = s - 1 + 1
        /\ \A i \in 1 .. s - 1 + 1 : low[i] = cells[1 + i - 1]
    BY <1>1, <2>1, SubSeqElements
  <2>3. s - 1 + 1 = s /\ \A i \in 1 .. s : 1 + i - 1 = i
    BY <1>1, <1>2
  <2> HIDE DEF low
  <2> QED
    BY <2>2, <2>3
<1>7. /\ high \in Seq(InternalCell) /\ Len(high) = n - s - 1
      /\ \A i \in 1 .. n - s - 1 : high[i] = cells[s + 1 + i]
  <2>1. s + 2 \in 1 .. Len(cells) + 1 /\ n \in s + 2 - 1 .. Len(cells)
    BY <1>1, <1>2
  <2>2. /\ high \in Seq(InternalCell) /\ Len(high) = n - (s + 2) + 1
        /\ \A i \in 1 .. n - (s + 2) + 1 : high[i] = cells[s + 2 + i - 1]
    BY <1>1, <2>1, SubSeqElements
  <2>3. /\ n - (s + 2) + 1 = n - s - 1
        /\ \A i \in 1 .. n - s - 1 : s + 2 + i - 1 = s + 1 + i
    BY <1>1, <1>2
  <2> HIDE DEF high
  <2> QED
    BY <2>2, <2>3
<1> HIDE DEF n, low, high
<1>8. /\ a \in InternalNode /\ a.cells = low /\ a.leftmost_child = node.leftmost_child
  BY <1>1, <1>3, <1>6 DEF Internal, InternalNode
<1>9. /\ b \in InternalNode /\ b.cells = high /\ b.leftmost_child = cells[s + 1].child
  BY <1>3, <1>5, <1>7 DEF Internal, InternalNode
<1>10. /\ s \in Int /\ n \in Int /\ s + 1 \in 1 .. n /\ m \in Int /\ m \in Key
       /\ \A i \in 1 .. s : i \in 1 .. n /\ i < s + 1
       /\ \A i \in 1 .. n - s - 1 : s + 1 + i \in 1 .. n /\ s + 1 < s + 1 + i
  <2>1. s \in Int /\ n \in Int /\ 1 <= s /\ s <= n - 2
    BY <1>1, <1>2
  <2>2. /\ s + 1 \in 1 .. n
        /\ \A i \in 1 .. s : i \in 1 .. n /\ i < s + 1
        /\ \A i \in 1 .. n - s - 1 : s + 1 + i \in 1 .. n /\ s + 1 < s + 1 + i
    BY <2>1
  <2>3. m \in Int /\ m \in Key
    BY <1>1, <1>3, <2>2
  <2> QED
    BY <2>1, <2>2, <2>3
<1>11. /\ \A i \in 1 .. s : cells[i].key < m
       /\ \A i \in 1 .. n - s - 1 : m <= cells[s + 1 + i].key
  <2>1. \A i \in 1 .. s : cells[i].key < m
    BY <1>3, <1>4, <1>10
  <2>2. ASSUME NEW i \in 1 .. n - s - 1 PROVE m <= cells[s + 1 + i].key
    <3>1. PICK j \in 1 .. n : j = s + 1 + i /\ s + 1 < j
      BY <1>10
    <3>2. m < cells[j].key
      BY <1>3, <1>4, <1>10, <3>1
    <3>3. cells[j].key \in Int /\ m \in Int
      BY <1>1, <1>10
    <3>4. m <= cells[j].key
      BY <3>2, <3>3
    <3> QED
      BY <3>1, <3>4
  <2> QED
    BY <2>1, <2>2
<1>12. Sorted(low)
  <2>1. \A i, j \in 1 .. s : i < j => low[i].key < low[j].key
    <3>1. \A i \in 1 .. s : i \in 1 .. n
      BY <1>10
    <3> QED
      BY <1>4, <1>6, <3>1
  <2> QED
    BY <1>6, <2>1 DEF Sorted
<1>13. Sorted(high)
  <2> SUFFICES ASSUME NEW i \in 1 .. n - s - 1, NEW j \in 1 .. n - s - 1, i < j
               PROVE  high[i].key < high[j].key
    BY <1>7 DEF Sorted
  <2>1. PICK g \in 1 .. n : g = s + 1 + i
    BY <1>10
  <2>2. PICK h \in 1 .. n : h = s + 1 + j
    BY <1>10
  <2>3. g < h
    <3>1. s \in Int /\ i \in Int /\ j \in Int
      BY <1>10
    <3> QED
      BY <2>1, <2>2, <3>1
  <2>4. cells[g].key < cells[h].key
    BY <1>4, <2>3
  <2> QED
    BY <1>7, <2>1, <2>2, <2>4
<1>14. Cells(low) /\ Cells(high)
  BY <1>6, <1>7, InternalCells
<1>15. ASSUME NEW i \in 0 .. s PROVE ChildAt(a, i) = ChildAt(node, i)
  <2>1. CASE i = 0
    BY <1>8, <2>1 DEF ChildAt
  <2>2. CASE i # 0
    <3>1. i \in 1 .. s
      BY <1>10, <2>2
    <3> QED
      BY <1>6, <1>8, <2>2, <3>1 DEF ChildAt, cells
  <2> QED
    BY <2>1, <2>2
<1>16. ASSUME NEW i \in 0 .. n - s - 1 PROVE ChildAt(b, i) = ChildAt(node, s + 1 + i)
  <2>1. CASE i = 0
    <3>1. s + 1 + i = s + 1
      BY <1>10, <2>1
    <3>2. ChildAt(b, i) = cells[s + 1].child
      BY <1>9, <2>1 DEF ChildAt
    <3> QED
      BY <1>5, <1>10, <3>1, <3>2
  <2>2. CASE i # 0
    <3>1. i \in 1 .. n - s - 1
      BY <1>10, <2>2
    <3>2. ChildAt(b, i) = cells[s + 1 + i].child
      BY <1>7, <1>9, <2>2, <3>1 DEF ChildAt
    <3> QED
      BY <1>5, <1>10, <3>1, <3>2
  <2> QED
    BY <2>1, <2>2
<1>17. ASSUME NEW i \in 0 .. s, NEW k \in Int
       PROVE  Between(cells, i, k) <=> Between(low, i, k) /\ k < m
  <2>1. Between(low, i, k) <=> /\ i >= 1 => low[i].key <= k
                               /\ i < s => k < low[i + 1].key
    BY <1>6, <1>12, <1>14, BetweenEnds
  <2>2. i \in 0 .. Len(cells)
    BY <1>2, <1>10 DEF n
  <2>3. Between(cells, i, k) <=> /\ i >= 1 => cells[i].key <= k
                                 /\ i < n => k < cells[i + 1].key
    BY <1>1, <2>2, BetweenEnds DEF n
  <2>4. i >= 1 => low[i] = cells[i]
    BY <1>6, <1>10
  <2>5. CASE i < s
    <3>1. i + 1 \in 1 .. s /\ i < n
      BY <1>2, <1>10, <2>5
    <3>2. low[i + 1] = cells[i + 1] /\ cells[i + 1].key < m /\ cells[i + 1].key \in Int
      BY <1>1, <1>6, <1>10, <1>11, <3>1
    <3>3. k < cells[i + 1].key => k < m
      BY <1>10, <3>2
    <3> QED
      BY <2>1, <2>3, <2>4, <2>5, <3>1, <3>2, <3>3
  <2>6. CASE i = s
    <3>1. ~(i < s) /\ i < n
      BY <1>2, <1>10, <2>6
    <3> QED
      BY <1>3, <2>1, <2>3, <2>4, <2>6, <3>1
  <2>7. i < s \/ i = s
    BY <1>10
  <2> QED
    BY <2>5, <2>6, <2>7
<1>18. ASSUME NEW i \in 0 .. n - s - 1, NEW k \in Int
       PROVE  Between(cells, s + 1 + i, k) <=> Between(high, i, k) /\ m <= k
  <2>1. Between(high, i, k) <=> /\ i >= 1 => high[i].key <= k
                                /\ i < n - s - 1 => k < high[i + 1].key
    BY <1>7, <1>13, <1>14, BetweenEnds
  <2>2. PICK g \in 0 .. Len(cells) : g = s + 1 + i /\ g >= 1
    BY <1>2, <1>10 DEF n
  <2>3. Between(cells, g, k) <=> /\ g >= 1 => cells[g].key <= k
                                 /\ g < n => k < cells[g + 1].key
    BY <1>1, BetweenEnds DEF n
  <2>4. i < n - s - 1 <=> g < n
    <3>1. s \in Int /\ n \in Int /\ i \in Int
      BY <1>10
    <3> QED
      BY <2>2, <3>1, SMTT(30)
  <2>5. i < n - s - 1 => high[i + 1] = cells[g + 1]
    <3>1. i < n - s - 1 => i + 1 \in 1 .. n - s - 1 /\ s + 1 + (i + 1) = g + 1
      <4>1. s \in Int /\ n \in Int /\ i \in Int /\ i >= 0
        BY <1>10
      <4> QED
        BY <2>2, <4>1, SMTT(30)
    <3> QED
      BY <1>7, <3>1
  <2>6. CASE i = 0
    <3>1. g = s + 1 /\ ~(i >= 1)
      BY <1>10, <2>2, <2>6
    <3> QED
      BY <1>3, <2>1, <2>2, <2>3, <2>4, <2>5, <3>1
  <2>7. CASE i >= 1
    <3>1. i \in 1 .. n - s - 1
      BY <1>10, <2>7
    <3>2. high[i] = cells[g] /\ m <= cells[g].key /\ cells[g].key \in Int
      BY <1>1, <1>7, <1>10, <1>11, <2>2, <3>1
    <3>3. cells[g].key <= k => m <= k
      BY <1>10, <3>2, SMTT(30)
    <3> QED
      BY <2>1, <2>2, <2>3, <2>4, <2>5, <2>7, <3>2, <3>3
  <2>8. i = 0 \/ i >= 1
    OBVIOUS
  <2> QED
    BY <2>6, <2>7, <2>8
<1>19. /\ \A i \in 1 .. s : a.cells[i].key = cells[i].key
       /\ \A i \in 1 .. n - s - 1 : b.cells[i].key = cells[s + 1 + i].key
  BY <1>6, <1>7, <1>8, <1>9
<1>20. /\ a \in InternalNode /\ b \in InternalNode /\ s \in 1 .. n - 2
       /\ Len(a.cells) = s /\ Len(b.cells) = n - s - 1
       /\ Sorted(a.cells) /\ Sorted(b.cells) /\ m \in Key /\ m = cells[s + 1].key
  BY <1>2, <1>3, <1>6, <1>7, <1>8, <1>9, <1>10, <1>12, <1>13
<1> QED
  BY <1>8, <1>9, <1>11, <1>15, <1>16, <1>17, <1>18, <1>19, <1>20 DEF n, cells, InternalSplit

-----------------------------------------------------------------------------
(* Search trees. *)

\* The types of the witnesses.
Homes == [PageId -> SUBSET Key]
Levels == [PageId -> Nat]

LEMMA NoSplitCover ==
  ASSUME NEW home, NEW right
  PROVE  \A p \in PageId : Cover(home, NoPage, right, p) = home[p]
BY NoPageAssumption DEF Cover

\* Without a split under way, the right half does not matter.
LEMMA NoSplitTree ==
  ASSUME NEW content, NEW root \in PageId, NEW home \in Homes, NEW level, NEW a, NEW b,
         SearchTree(content, root, home, level, NoPage, a)
  PROVE  SearchTree(content, root, home, level, NoPage, b)
<1>1. \A p \in PageId : /\ Cover(home, NoPage, a, p) = home[p]
                        /\ Cover(home, NoPage, b, p) = home[p]
  BY NoSplitCover
<1>2. ASSUME NEW p \in PageId, home[p] # {}
      PROVE  NodeIsRouted(content[p], p, home, level, NoPage, b) /\ level[p] <= level[root]
  <2>1. NodeIsRouted(content[p], p, home, level, NoPage, a) /\ level[p] <= level[root]
    BY <1>2 DEF SearchTree
  <2>2. content[p].type = "INTERNAL" => content[p] \in InternalNode
    BY <2>1 DEF NodeIsRouted, LeafNode
  <2>3. content[p].type = "INTERNAL" =>
          \A i \in 0 .. Len(content[p].cells) : ChildAt(content[p], i) \in PageId
    BY <2>2, InternalFields
  <2> QED
    BY <1>1, <2>1, <2>3 DEF NodeIsRouted
<1>3. Nested(home, level, NoPage, b)
  BY <1>1 DEF SearchTree, Nested
<1>4. home[root] # {} /\ Cover(home, NoPage, b, root) = Key
  BY <1>1 DEF SearchTree
<1> QED
  BY <1>2, <1>3, <1>4 DEF SearchTree

\* A page of the tree has a leaf or a separator node; the search for one of
\* its keys goes on in a child that has the key.
LEMMA RoutedNode ==
  ASSUME NEW node, NEW p \in PageId, NEW home \in Homes, NEW level \in Levels, NEW left, NEW right,
         NodeIsRouted(node, p, home, level, left, right)
  PROVE  /\ node \in Node /\ node # NoNode
         /\ \/ node \in LeafNode /\ node.type = "LEAF" /\ level[p] = 0
            \/ node \in InternalNode /\ node.type = "INTERNAL" /\ level[p] > 0
         /\ Sorted(node.cells) /\ Cells(node.cells)
<1>1. node \in LeafNode \cup InternalNode /\ Sorted(node.cells)
      /\ (node.type = "LEAF" <=> level[p] = 0) /\ level[p] \in Nat
  BY DEF NodeIsRouted, Levels
<1>2. CASE node \in LeafNode
  BY <1>1, <1>2, LeafFields
<1>3. CASE node \in InternalNode
  BY <1>1, <1>3, InternalFields
<1> QED
  BY <1>1, <1>2, <1>3

LEMMA ChildOfNode ==
  ASSUME NEW node, NEW p \in PageId, NEW home \in Homes, NEW level \in Levels, NEW left, NEW right,
         NodeIsRouted(node, p, home, level, left, right), node.type = "INTERNAL",
         NEW i \in 0 .. Len(node.cells), NEW c, c = ChildAt(node, i)
  PROVE  /\ c \in PageId /\ home[c] # {} /\ level[c] = level[p] - 1
         /\ Cover(home, left, right, c) = {k \in home[p] : Between(node.cells, i, k)}
<1>1. node \in InternalNode
  BY RoutedNode
<1>2. c \in PageId
  BY <1>1, InternalFields
<1> QED
  BY <1>2 DEF NodeIsRouted

LEMMA SearchStep ==
  ASSUME NEW node, NEW p \in PageId, NEW home \in Homes, NEW level \in Levels, NEW left, NEW right,
         NodeIsRouted(node, p, home, level, left, right), node.type = "INTERNAL",
         NEW key \in home[p], NEW i, i = ChildIdx(node, key), NEW c, c = ChildAt(node, i)
  PROVE  /\ i \in 0 .. Len(node.cells) /\ Between(node.cells, i, key)
         /\ \A j \in 0 .. Len(node.cells) : Between(node.cells, j, key) => j = i
         /\ c \in PageId /\ home[c] # {} /\ level[c] = level[p] - 1
         /\ Cover(home, left, right, c) = {k \in home[p] : Between(node.cells, i, k)}
         /\ key \in Cover(home, left, right, c)
<1>1. Sorted(node.cells) /\ Cells(node.cells)
  BY RoutedNode
<1>2. key \in Int /\ key \in Key
  BY KeyAssumption DEF Homes
<1>3. /\ i \in 0 .. Len(node.cells)
      /\ \A j \in 0 .. Len(node.cells) : Between(node.cells, j, key) <=> j = i
  BY <1>1, <1>2, ChildIdxFacts
<1>4. /\ c \in PageId /\ home[c] # {} /\ level[c] = level[p] - 1
      /\ Cover(home, left, right, c) = {k \in home[p] : Between(node.cells, i, k)}
  BY <1>3, ChildOfNode
<1> QED
  BY <1>3, <1>4

\* The tree depends only on the pages in it.
LEMMA SameTree ==
  ASSUME NEW content, NEW after, NEW root \in PageId, NEW home, NEW level, NEW left, NEW right,
         SearchTree(content, root, home, level, left, right),
         \A p \in PageId : home[p] # {} => after[p] = content[p]
  PROVE  SearchTree(after, root, home, level, left, right)
BY DEF SearchTree

\* The row of leaves depends only on what leaves there are and where they
\* point.
LEMMA SameChain ==
  ASSUME NEW content, NEW after, NEW home, NEW h, Chained(content, home),
         \A p \in PageId : h[p] # {} /\ after[p].type = "LEAF" =>
            /\ content[p].type = "LEAF" /\ h[p] = home[p]
            /\ after[p].next_leaf = content[p].next_leaf,
         \A p \in PageId : home[p] # {} /\ content[p].type = "LEAF" =>
            after[p].type = "LEAF" /\ h[p] = home[p]
  PROVE  Chained(after, h)
<1>1. ASSUME NEW p \in PageId, h[p] # {}, after[p].type = "LEAF"
      PROVE  LET next == after[p].next_leaf
             IN  IF next = NoPage THEN FollowedBy(h[p], {})
                 ELSE /\ next \in PageId /\ h[next] # {} /\ after[next].type = "LEAF"
                      /\ FollowedBy(h[p], h[next])
  <2> PICK next : next = after[p].next_leaf
    OBVIOUS
  <2>1. content[p].type = "LEAF" /\ h[p] = home[p] /\ home[p] # {} /\ next = content[p].next_leaf
    BY <1>1
  <2>2. IF next = NoPage THEN FollowedBy(home[p], {})
        ELSE /\ next \in PageId /\ home[next] # {} /\ content[next].type = "LEAF"
             /\ FollowedBy(home[p], home[next])
    BY <2>1 DEF Chained
  <2>3. next # NoPage => h[next] = home[next] /\ after[next].type = "LEAF"
    BY <2>2
  <2> QED
    BY <2>1, <2>2, <2>3
<1> QED
  BY <1>1 DEF Chained

LEMMA SameValues ==
  ASSUME NEW content, NEW after, NEW home, NEW may, NEW can,
         IsIndex(content, home, may),
         \A p \in PageId : home[p] # {} => after[p] = content[p],
         \A p \in PageId : \A k \in home[p] : may[k] \subseteq can[k]
  PROVE  IsIndex(after, home, can)
<1>1. HoldsValues(after, home, can)
  BY DEF HoldsValues, IsIndex
<1>2. Chained(after, home)
  BY DEF Chained, IsIndex
<1> QED
  BY <1>1, <1>2 DEF IsIndex

\* Another leaf in the place of a leaf.
LEMMA LeafReplaced ==
  ASSUME NEW content, NEW after, NEW root \in PageId, NEW home \in Homes, NEW level \in Levels,
         NEW left, NEW right, SearchTree(content, root, home, level, left, right),
         NEW p \in PageId, home[p] # {}, content[p].type = "LEAF",
         after[p] \in LeafNode, Sorted(after[p].cells),
         \A c \in Range(after[p].cells) : c.key \in home[p],
         \A q \in PageId : q # p => after[q] = content[q]
  PROVE  SearchTree(after, root, home, level, left, right)
<1>1. NodeIsRouted(content[p], p, home, level, left, right)
  BY DEF SearchTree
<1>2. level[p] = 0 /\ level[p] \in 0 .. p
  BY <1>1 DEF NodeIsRouted
<1>3. after[p].type = "LEAF" /\ after[p].cells \in Seq(LeafCell)
  BY LeafFields
<1>4. \A i \in 1 .. Len(after[p].cells) : after[p].cells[i].key \in home[p]
  BY <1>3, RangeElements
<1>5. NodeIsRouted(after[p], p, home, level, left, right)
  BY <1>2, <1>3, <1>4 DEF NodeIsRouted
<1>6. ASSUME NEW q \in PageId, home[q] # {}
      PROVE  NodeIsRouted(after[q], q, home, level, left, right) /\ level[q] <= level[root]
  BY <1>5, <1>6 DEF SearchTree
<1> QED
  BY <1>6 DEF SearchTree

\* Page p gives its keys from m on to page q.
SharesKeys(home, level, h, l, p, q, m) ==
    /\ h = [home EXCEPT ![p] = {k \in home[p] : k < m}, ![q] = {k \in home[p] : m <= k}]
    /\ l = [level EXCEPT ![q] = level[p]]
    /\ h[p] # {} /\ h[q] # {}

\* The pages below p go to one of the halves.
GoesToOneHalf(home, level, h, p, q) ==
    \A x \in PageId : level[x] < level[p] /\ home[x] \cap home[p] # {} =>
        home[x] \subseteq h[p] \/ home[x] \subseteq h[q]

SameBut(after, content, p, q) ==
    \A x \in PageId : x # p /\ x # q => after[x] = content[x]

\* Page p is split at m and its upper half goes to the unused page q: a
\* search tree in which no node points at q yet.
LEMMA PageSplit ==
  ASSUME NEW content, NEW after, NEW root \in PageId, NEW home \in Homes, NEW level \in Levels,
         NEW r, SearchTree(content, root, home, level, NoPage, r),
         NEW p \in PageId, home[p] # {}, NEW q \in PageId, home[q] = {}, NEW m \in Int,
         NEW h, NEW l, SharesKeys(home, level, h, l, p, q, m), GoesToOneHalf(home, level, h, p, q),
         NodeIsRouted(after[p], p, h, l, p, q), NodeIsRouted(after[q], q, h, l, p, q),
         SameBut(after, content, p, q)
  PROVE  /\ h \in Homes /\ l \in Levels
         /\ SearchTree(after, root, h, l, p, q)
<1> DEFINE C(x) == Cover(h, p, q, x)
           o(x) == IF x = q THEN p ELSE x
<1>0. /\ h = [home EXCEPT ![p] = {k \in home[p] : k < m}, ![q] = {k \in home[p] : m <= k}]
      /\ l = [level EXCEPT ![q] = level[p]]
      /\ h[p] # {} /\ h[q] # {}
  BY DEF SharesKeys
<1>1. p # q /\ \A x \in PageId : home[x] \subseteq Key /\ home[x] \subseteq Int
  BY KeyAssumption DEF Homes
<1>2. /\ h \in Homes /\ l \in Levels
      /\ h[p] = {k \in home[p] : k < m} /\ h[q] = {k \in home[p] : m <= k}
      /\ \A x \in PageId : x # p /\ x # q => h[x] = home[x]
      /\ \A x \in PageId : x # q => l[x] = level[x]
      /\ l[q] = level[p]
  BY <1>0, <1>1 DEF Homes, Levels
<1>3. h[p] \cap h[q] = {} /\ h[p] \cup h[q] = home[p]
  BY <1>1, <1>2
<1>4. /\ C(p) = home[p] /\ C(q) = h[q]
      /\ \A x \in PageId : x # p /\ x # q => C(x) = home[x]
  BY <1>1, <1>2, <1>3 DEF Cover
<1>5. \A x \in PageId : /\ o(x) \in PageId /\ h[x] \subseteq home[o(x)] /\ C(x) \subseteq home[o(x)]
                        /\ l[x] = level[o(x)]
  BY <1>2, <1>3, <1>4
<1>6. \A x \in PageId : Cover(home, NoPage, r, x) = home[x]
  BY NoSplitCover
<1> HIDE DEF C
<1>7. ASSUME NEW x \in PageId, h[x] # {}
      PROVE  NodeIsRouted(after[x], x, h, l, p, q) /\ l[x] <= l[root]
  <2>1. home[o(x)] # {} /\ o(x) \in PageId
    BY <1>5, <1>7
  <2>2. root # q
    BY DEF SearchTree
  <2>3. l[x] <= l[root]
    <3>1. level[o(x)] <= level[root]
      BY <2>1 DEF SearchTree
    <3> QED
      BY <1>2, <1>5, <2>2, <3>1
  <2>4. CASE x # p /\ x # q
    <3>1. NodeIsRouted(content[x], x, home, level, NoPage, r) /\ after[x] = content[x]
      BY <2>1, <2>4 DEF SearchTree, SameBut
    <3>2. h[x] = home[x] /\ l[x] = level[x]
      BY <1>2, <2>4
    <3>3. ASSUME content[x].type = "INTERNAL", NEW i \in 0 .. Len(content[x].cells)
          PROVE  LET c == ChildAt(content[x], i)
                 IN  /\ h[c] # {} /\ l[c] = l[x] - 1
                     /\ C(c) = {k \in h[x] : Between(content[x].cells, i, k)}
      <4>1. PICK c : c = ChildAt(content[x], i)
        OBVIOUS
      <4>2. /\ c \in PageId /\ home[c] # {} /\ level[c] = level[x] - 1
            /\ home[c] = {k \in home[x] : Between(content[x].cells, i, k)}
        BY <1>6, <3>1, <3>3, <4>1, ChildOfNode
      <4>3. c # q
        BY <4>2
      <4>4. h[c] # {} /\ l[c] = level[c] /\ C(c) = home[c]
        BY <1>0, <1>2, <1>4, <4>2, <4>3
      <4> QED
        BY <3>2, <4>1, <4>2, <4>4
    <3> QED
      BY <2>3, <3>1, <3>2, <3>3 DEF NodeIsRouted, C
  <2> QED
    BY <2>3, <2>4
<1>8. Nested(h, l, p, q)
  <2>0. Nested(home, level, NoPage, r)
    BY DEF SearchTree
  <2> SUFFICES ASSUME NEW x \in PageId, NEW y \in PageId
               PROVE  /\ l[x] = l[y] /\ h[x] \cap h[y] # {} => x = y
                      /\ l[x] < l[y] /\ C(x) \cap h[y] # {} => C(x) \subseteq h[y]
    BY DEF Nested, C
  <2>a. PICK ox \in PageId : ox = o(x) /\ h[x] \subseteq home[ox] /\ C(x) \subseteq home[ox]
                             /\ l[x] = level[ox]
    BY <1>5
  <2>b. PICK oy \in PageId : oy = o(y) /\ h[y] \subseteq home[oy] /\ l[y] = level[oy]
    BY <1>5
  <2>1. ASSUME l[x] = l[y], h[x] \cap h[y] # {} PROVE x = y
    <3>1. home[ox] \cap home[oy] # {} /\ level[ox] = level[oy]
      BY <2>1, <2>a, <2>b
    <3>2. ox = oy
      BY <2>0, <3>1 DEF Nested
    <3>3. x = y \/ (x = p /\ y = q) \/ (x = q /\ y = p)
      BY <2>a, <2>b, <3>2
    <3>4. h[p] \cap h[q] = {} /\ h[q] \cap h[p] = {}
      BY <1>3
    <3> HIDE DEF o
    <3> QED
      BY <2>1, <3>3, <3>4
  <2>2. ASSUME l[x] < l[y], C(x) \cap h[y] # {} PROVE C(x) \subseteq h[y]
    <3>0. home[ox] \cap home[oy] # {} /\ level[ox] < level[oy]
      BY <2>2, <2>a, <2>b
    <3>1. home[o(x)] \subseteq home[o(y)]
      BY <1>6, <2>0, <2>a, <2>b, <3>0 DEF Nested
    <3>2. CASE y # p /\ y # q
      BY <1>2, <1>5, <3>1, <3>2
    <3>3. CASE y = p \/ y = q
      <4>1. level[o(x)] < level[p]
        BY <1>2, <1>5, <2>2, <3>3
      <4>2. x # p /\ x # q /\ o(x) = x
        BY <1>2, <4>1 DEF Levels
      <4>3. C(x) = home[x] /\ home[x] \cap home[p] # {}
        BY <1>3, <1>4, <2>2, <3>3, <4>2
      <4>4. home[x] \subseteq h[p] \/ home[x] \subseteq h[q]
        BY <4>1, <4>2, <4>3 DEF GoesToOneHalf
      <4> QED
        BY <1>3, <2>2, <3>3, <4>3, <4>4
    <3> QED
      BY <3>2, <3>3
  <2> QED
    BY <2>1, <2>2
<1>9. h[root] # {} /\ C(root) = Key
  <2>1. home[root] = Key /\ home[root] # {}
    BY <1>6 DEF SearchTree
  <2>2. root # q
    BY <2>1
  <2> QED
    BY <1>0, <1>2, <1>4, <2>1, <2>2
<1> QED
  BY <1>2, <1>7, <1>8, <1>9 DEF SearchTree, C

\* Of keys parted in two the upper ones follow the lower ones; what came
\* after them comes after the upper ones, and the lower ones come after what
\* they came after.
PartedAt(S, m, A, B) ==
    /\ A = {k \in S : k < m} /\ B = {k \in S : m <= k}
    /\ A # {} /\ B # {}

LEMMA PartedRow ==
  ASSUME NEW S \in SUBSET Key, NEW m \in Int, NEW A, NEW B, NEW T \in SUBSET Key,
         PartedAt(S, m, A, B), FollowedBy(S, T)
  PROVE  /\ FollowedBy(A, B) /\ FollowedBy(B, T)
         /\ \A U \in SUBSET Key : FollowedBy(U, S) => FollowedBy(U, A)
<1> USE DEF PartedAt
<1>1. \A k \in Key : k \in Int
  BY KeyAssumption
<1>2. /\ \A k \in S, l \in T : k < l
      /\ \A k \in S, l \in Key : k <= l => l \in S \/ \E o \in T : o <= l
  BY DEF FollowedBy
<1>3. FollowedBy(A, B)
  <2>1. ASSUME NEW k \in A, NEW l \in Key, k <= l, l \notin A PROVE \E o \in B : o <= l
    <3>1. CASE l \in S
      BY <1>1, <2>1, <3>1
    <3>2. CASE l \notin S
      <4>1. PICK o \in T : o <= l
        BY <1>2, <2>1, <3>2
      <4>2. PICK e \in B : e < o
        BY <1>2
      <4> QED
        BY <1>1, <4>1, <4>2
    <3> QED
      BY <3>1, <3>2
  <2> QED
    BY <1>1, <2>1 DEF FollowedBy
<1>4. FollowedBy(B, T)
  <2>1. ASSUME NEW k \in B, NEW l \in Key, k <= l, l \notin B PROVE \E o \in T : o <= l
    <3>1. l \notin S
      BY <1>1, <2>1
    <3> QED
      BY <1>2, <2>1, <3>1
  <2> QED
    BY <1>2, <2>1 DEF FollowedBy
<1>5. ASSUME NEW U \in SUBSET Key, FollowedBy(U, S) PROVE FollowedBy(U, A)
  <2>1. /\ \A k \in U, l \in S : k < l
        /\ \A k \in U, l \in Key : k <= l => l \in U \/ \E o \in S : o <= l
    BY <1>5 DEF FollowedBy
  <2>2. PICK e \in A : e < m
    OBVIOUS
  <2>3. ASSUME NEW l \in Key, NEW o \in S, o <= l PROVE \E i \in A : i <= l
    BY <1>1, <2>2, <2>3
  <2> QED
    BY <2>1, <2>3 DEF FollowedBy
<1> QED
  BY <1>3, <1>4, <1>5

\* A leaf split puts the right half next to the left one.
LEMMA SplitChain ==
  ASSUME NEW content, NEW after, NEW home \in Homes, NEW h \in Homes, Chained(content, home),
         NEW p \in PageId, NEW q \in PageId, p # q, home[p] # {}, home[q] = {}, q # NoPage,
         content[p].type = "LEAF", after[p].type = "LEAF", after[q].type = "LEAF",
         after[p].next_leaf = q, after[q].next_leaf = content[p].next_leaf,
         SameBut(after, content, p, q), NEW m \in Int, NEW level, NEW l,
         SharesKeys(home, level, h, l, p, q, m)
  PROVE  Chained(after, h)
<1>1. \A x \in PageId : home[x] \in SUBSET Key
  BY DEF Homes
<1>0. /\ h[p] = {k \in home[p] : k < m} /\ h[q] = {k \in home[p] : m <= k} /\ h[p] # {} /\ h[q] # {}
      /\ \A x \in PageId : x # p /\ x # q => h[x] = home[x]
  BY DEF SharesKeys, Homes
<1> PICK y : y = content[p].next_leaf
  OBVIOUS
<1> PICK T : T = IF y = NoPage THEN {} ELSE home[y]
  OBVIOUS
<1>2. /\ T \in SUBSET Key /\ FollowedBy(home[p], T)
      /\ y # NoPage => y \in PageId /\ home[y] # {} /\ content[y].type = "LEAF"
  BY <1>1 DEF Chained
<1>3. /\ FollowedBy(h[p], h[q]) /\ FollowedBy(h[q], T)
      /\ \A U \in SUBSET Key : FollowedBy(U, home[p]) => FollowedBy(U, h[p])
  <2>1. PartedAt(home[p], m, h[p], h[q])
    BY <1>0 DEF PartedAt
  <2> QED
    BY <1>1, <1>2, <2>1, PartedRow
<1>4. y # p
  <2>1. ASSUME y = p PROVE FALSE
    <3>1. FollowedBy(home[p], home[p])
      BY <1>2, <2>1, NoPageAssumption
    <3>2. PICK k \in home[p] : k \in Int
      BY <1>1, KeyAssumption
    <3> QED
      BY <3>1, <3>2 DEF FollowedBy
  <2> QED
    BY <2>1
<1>5. ASSUME NEW x \in PageId, h[x] # {}, after[x].type = "LEAF", NEW z, z = after[x].next_leaf
      PROVE  IF z = NoPage THEN FollowedBy(h[x], {})
             ELSE /\ z \in PageId /\ h[z] # {} /\ after[z].type = "LEAF"
                  /\ FollowedBy(h[x], h[z])
  <2>1. CASE x = p
    BY <1>0, <1>3, <1>5, <2>1
  <2>2. CASE x = q
    <3>1. z = y
      BY <1>5, <2>2
    <3>2. y # NoPage => h[y] = home[y] /\ after[y] = content[y]
      BY <1>0, <1>2, <1>4 DEF SameBut
    <3> QED
      BY <1>2, <1>3, <2>2, <3>1, <3>2
  <2>3. CASE x # p /\ x # q
    <3>1. after[x] = content[x] /\ h[x] = home[x] /\ z = content[x].next_leaf
      BY <1>0, <1>5, <2>3 DEF SameBut
    <3>2. IF z = NoPage THEN FollowedBy(home[x], {})
          ELSE /\ z \in PageId /\ home[z] # {} /\ content[z].type = "LEAF"
               /\ FollowedBy(home[x], home[z])
      BY <1>5, <3>1 DEF Chained
    <3>3. CASE z = p
      <4>1. FollowedBy(h[x], h[p])
        BY <1>1, <1>3, <3>1, <3>2, <3>3, NoPageAssumption
      <4> QED
        BY <1>0, <3>3, <4>1, NoPageAssumption
    <3>4. CASE z # p
      <4>1. z # NoPage => h[z] = home[z] /\ after[z] = content[z]
        BY <1>0, <3>2, <3>4 DEF SameBut
      <4> QED
        BY <3>1, <3>2, <4>1
    <3> QED
      BY <3>3, <3>4
  <2> QED
    BY <2>1, <2>2, <2>3
<1> QED
  BY <1>5 DEF Chained

\* What a split leaves: the keys below m in p, the others in q, and the same
\* values in the leaves.
Halves(content, after, root, home, level, h, l, p, q, m) ==
    /\ h \in Homes /\ l \in Levels
    /\ SearchTree(after, root, h, l, p, q)
    /\ \A x \in PageId : x # p /\ x # q => h[x] = home[x] /\ l[x] = level[x]
    /\ l[p] = level[p] /\ l[q] = level[p]
    /\ Parted(h, l, p, q, m)
    /\ \A may : IsIndex(content, home, may) => IsIndex(after, h, may)

LEMMA LeafHalves ==
  ASSUME NEW content, NEW after, NEW root \in PageId, NEW home \in Homes, NEW level \in Levels,
         NEW r, SearchTree(content, root, home, level, NoPage, r),
         NEW p \in PageId, home[p] # {}, NEW q \in PageId, home[q] = {}, p < q,
         NEW node \in LeafNode, content[p] = node, Len(node.cells) >= 2,
         NEW m, m = SplitLeafRight(node).cells[1].key,
         after[p] = SplitLeafLeft(node, q), after[q] = SplitLeafRight(node),
         SameBut(after, content, p, q)
  PROVE  \E h, l : Halves(content, after, root, home, level, h, l, p, q, m)
<1> DEFINE h == [home EXCEPT ![p] = {k \in home[p] : k < m}, ![q] = {k \in home[p] : m <= k}]
           l == [level EXCEPT ![q] = level[p]]
           a == after[p]
           b == after[q]
<1>1. NodeIsRouted(node, p, home, level, NoPage, r)
  BY DEF SearchTree
<1>2. /\ Sorted(node.cells) /\ level[p] = 0 /\ level[p] \in 0 .. p
      /\ \A i \in 1 .. Len(node.cells) : node.cells[i].key \in home[p]
  BY <1>1, LeafFields DEF NodeIsRouted
<1>3. \A c \in Range(node.cells) : c.key \in home[p] /\ c.key \in Key /\ c.key \in Int
  <2>1. \A c \in Range(node.cells) : \E i \in 1 .. Len(node.cells) : node.cells[i] = c
    BY LeafFields, RangeElements, SMTT(30)
  <2>2. \A c \in Range(node.cells) : c.key \in Key /\ c.key \in Int
    BY LeafFields, Zenon
  <2> QED
    BY <1>2, <2>1, <2>2, ZenonT(30)
<1>4. /\ a \in LeafNode /\ b \in LeafNode /\ Sorted(a.cells) /\ Sorted(b.cells)
      /\ Range(a.cells) = {c \in Range(node.cells) : c.key < m}
      /\ Range(b.cells) = {c \in Range(node.cells) : m <= c.key}
      /\ \E c \in Range(node.cells) : c.key < m
      /\ \E c \in Range(node.cells) : c.key = m
      /\ a.next_leaf = q /\ b.next_leaf = node.next_leaf
  BY <1>2, SplitLeafFacts
<1> HIDE DEF a, b
<1>5. m \in Int /\ m \in home[p] /\ p # q /\ p \in Int /\ q \in Int
  BY <1>3, <1>4 DEF PageId
<1>6. /\ h \in Homes /\ l \in Levels
      /\ h[p] = {k \in home[p] : k < m} /\ h[q] = {k \in home[p] : m <= k}
      /\ \A x \in PageId : x # p /\ x # q => h[x] = home[x] /\ l[x] = level[x]
      /\ l[p] = level[p] /\ l[q] = level[p]
  BY <1>5 DEF Homes, Levels
<1> HIDE DEF h, l
<1>7. h[p] # {} /\ h[q] # {} /\ m \in h[q] /\ (\A k \in h[p] : k < m) /\ (\A k \in h[q] : m <= k)
  BY <1>3, <1>4, <1>5, <1>6
<1>8. /\ \A i \in 1 .. Len(a.cells) : a.cells[i].key \in h[p]
      /\ \A i \in 1 .. Len(b.cells) : b.cells[i].key \in h[q]
  <2>1. /\ \A i \in 1 .. Len(a.cells) : a.cells[i] \in Range(a.cells)
        /\ \A i \in 1 .. Len(b.cells) : b.cells[i] \in Range(b.cells)
        /\ a.type = "LEAF" /\ b.type = "LEAF"
    BY <1>4, LeafFields, RangeElements
  <2> QED
    BY <1>3, <1>4, <1>6, <2>1
<1>9. NodeIsRouted(a, p, h, l, p, q) /\ NodeIsRouted(b, q, h, l, p, q)
  <2>1. a.type = "LEAF" /\ b.type = "LEAF"
    BY <1>4, LeafFields
  <2>2. l[p] \in 0 .. p /\ l[q] \in 0 .. q /\ l[p] = 0 /\ l[q] = 0
    BY <1>2, <1>6 DEF PageId
  <2>3. NodeIsRouted(a, p, h, l, p, q)
    BY <1>4, <1>8, <2>1, <2>2 DEF NodeIsRouted
  <2>4. NodeIsRouted(b, q, h, l, p, q)
    BY <1>4, <1>8, <2>1, <2>2 DEF NodeIsRouted
  <2> QED
    BY <2>3, <2>4
<1>10. SearchTree(after, root, h, l, p, q)
  <2>1. GoesToOneHalf(home, level, h, p, q)
    BY <1>2 DEF Levels, GoesToOneHalf
  <2>2. SharesKeys(home, level, h, l, p, q, m)
    BY <1>7 DEF h, l, SharesKeys
  <2>3. NodeIsRouted(after[p], p, h, l, p, q) /\ NodeIsRouted(after[q], q, h, l, p, q)
    BY <1>9 DEF a, b
  <2> QED
    BY <1>5, <2>1, <2>2, <2>3, PageSplit
<1>11. ASSUME NEW may, HoldsValues(content, home, may)
       PROVE  HoldsValues(after, h, may)
  <2> SUFFICES ASSUME NEW x \in PageId, h[x] # {}, after[x].type = "LEAF", NEW k \in h[x]
               PROVE  Lookup(after[x], k) \in may[k]
    BY DEF HoldsValues
  <2>0. k \in Key /\ k \in Int
    BY <1>6, KeyAssumption DEF Homes
  <2>1. CASE x # p /\ x # q
    BY <1>6, <1>11, <2>1 DEF HoldsValues, SameBut
  <2>2. CASE x = p
    <3>1. k \in home[p] /\ k < m
      BY <1>6, <2>2
    <3>2. Lookup(node, k) \in may[k]
      BY <1>11, <3>1, LeafFields DEF HoldsValues
    <3>3. \A c : c.key = k => (c \in Range(a.cells) <=> c \in Range(node.cells))
      BY <1>4, <3>1
    <3>4. Lookup(a, k) = Lookup(node, k)
      BY <1>2, <1>4, <2>0, <3>3, LookupSame
    <3> QED
      BY <2>2, <3>2, <3>4 DEF a
  <2>3. CASE x = q
    <3>1. k \in home[p] /\ m <= k
      BY <1>6, <2>3
    <3>2. Lookup(node, k) \in may[k]
      BY <1>11, <3>1, LeafFields DEF HoldsValues
    <3>3. \A c : c.key = k => (c \in Range(b.cells) <=> c \in Range(node.cells))
      BY <1>4, <3>1
    <3>4. Lookup(b, k) = Lookup(node, k)
      BY <1>2, <1>4, <2>0, <3>3, LookupSame
    <3> QED
      BY <2>3, <3>2, <3>4 DEF b
  <2> QED
    BY <2>1, <2>2, <2>3
<1>12. ASSUME Chained(content, home)
       PROVE  Chained(after, h)
  <2>1. /\ a.type = "LEAF" /\ b.type = "LEAF" /\ a.next_leaf = q /\ b.next_leaf = node.next_leaf
        /\ after[p] = a /\ after[q] = b /\ node.type = "LEAF"
    BY <1>4, LeafFields DEF a, b
  <2>2. q # NoPage
    BY NoPageAssumption
  <2>3. SharesKeys(home, level, h, l, p, q, m)
    BY <1>7 DEF h, l, SharesKeys
  <2>4. after[q].next_leaf = content[p].next_leaf /\ content[p].type = "LEAF"
    BY <2>1
  <2> QED
    BY <1>5, <1>6, <1>12, <2>1, <2>2, <2>3, <2>4, SplitChain
<1> QED
  BY <1>6, <1>7, <1>10, <1>11, <1>12 DEF Halves, Parted, IsIndex

LEMMA InternalHalves ==
  ASSUME NEW content, NEW after, NEW root \in PageId, NEW home \in Homes, NEW level \in Levels,
         NEW r, SearchTree(content, root, home, level, NoPage, r),
         NEW p \in PageId, home[p] # {}, NEW q \in PageId, home[q] = {}, p < q,
         NEW node \in InternalNode, content[p] = node, Len(node.cells) >= 3,
         NEW m, m = MiddleCell(node).key,
         after[p] = SplitInternalLeft(node), after[q] = SplitInternalRight(node),
         SameBut(after, content, p, q)
  PROVE  \E h, l : Halves(content, after, root, home, level, h, l, p, q, m)
<1> DEFINE h == [home EXCEPT ![p] = {k \in home[p] : k < m}, ![q] = {k \in home[p] : m <= k}]
           l == [level EXCEPT ![q] = level[p]]
           cells == node.cells
           n == Len(cells)
           s == SplitPoint(node)
           a == after[p]
           b == after[q]
<1>1. NodeIsRouted(node, p, home, level, NoPage, r)
  BY DEF SearchTree
<1>2. /\ Sorted(cells) /\ level[p] > 0 /\ level[p] \in 0 .. p /\ node.type = "INTERNAL"
      /\ \A i \in 1 .. n : cells[i].key \in home[p]
      /\ n \in Nat
  <2>1. node.type = "INTERNAL" /\ n \in Nat
    BY InternalFields
  <2>2. level[p] > 0
    BY <1>1, <2>1, RoutedNode
  <2> QED
    BY <1>1, <2>1, <2>2 DEF NodeIsRouted
<1>a. InternalSplit(node, s, m, a, b)
  BY <1>2, SplitInternalFacts
<1>3. /\ a \in InternalNode /\ b \in InternalNode
      /\ s \in 1 .. n - 2
      /\ Len(a.cells) = s /\ Len(b.cells) = n - s - 1
      /\ Sorted(a.cells) /\ Sorted(b.cells)
      /\ m \in Key /\ m = cells[s + 1].key
      /\ \A i \in 1 .. s : a.cells[i].key = cells[i].key /\ cells[i].key < m
      /\ \A i \in 1 .. n - s - 1 : b.cells[i].key = cells[s + 1 + i].key /\ m <= cells[s + 1 + i].key
      /\ \A i \in 0 .. s : ChildAt(a, i) = ChildAt(node, i)
      /\ \A i \in 0 .. n - s - 1 : ChildAt(b, i) = ChildAt(node, s + 1 + i)
  BY <1>a DEF InternalSplit
<1>4. /\ \A i \in 0 .. s, k \in Int : Between(cells, i, k) <=> Between(a.cells, i, k) /\ k < m
      /\ \A i \in 0 .. n - s - 1, k \in Int :
            Between(cells, s + 1 + i, k) <=> Between(b.cells, i, k) /\ m <= k
  BY <1>a DEF InternalSplit
<1> HIDE DEF a, b, s
<1>5. /\ \A i \in 0 .. s : i \in 0 .. n
      /\ \A i \in 0 .. n - s - 1 : s + 1 + i \in 0 .. n
      /\ \A i \in 1 .. s : i \in 1 .. n
      /\ \A i \in 1 .. n - s - 1 : s + 1 + i \in 1 .. n
      /\ s + 1 \in 1 .. n /\ 1 \in 1 .. s /\ 1 \in 1 .. n
  <2>1. n \in Int /\ s \in Int /\ 1 <= s /\ s <= n - 2
    BY <1>2, <1>3
  <2> QED
    BY <2>1, SMTT(30)
<1> HIDE DEF n, cells
<1>6. m \in Int /\ m \in home[p] /\ p # q /\ p \in Int /\ q \in Int
  BY <1>2, <1>3, <1>5, KeyAssumption DEF PageId
<1>7. /\ h \in Homes /\ l \in Levels
      /\ h[p] = {k \in home[p] : k < m} /\ h[q] = {k \in home[p] : m <= k}
      /\ \A x \in PageId : x # p /\ x # q => h[x] = home[x] /\ l[x] = level[x]
      /\ l[p] = level[p] /\ l[q] = level[p]
  BY <1>6 DEF Homes, Levels
<1> HIDE DEF h, l
<1>8. h[p] # {} /\ h[q] # {} /\ m \in h[q] /\ (\A k \in h[p] : k < m) /\ (\A k \in h[q] : m <= k)
  <2>1. cells[1].key \in h[p]
    BY <1>2, <1>3, <1>5, <1>7
  <2> QED
    BY <1>6, <1>7, <2>1
<1>9. \A x \in PageId : \A k \in home[x] : k \in Int
  BY KeyAssumption DEF Homes
\* the children of node
<1>10. ASSUME NEW i \in 0 .. n, NEW c, c = ChildAt(node, i)
       PROVE  /\ c \in PageId /\ h[c] # {} /\ l[c] = level[p] - 1
              /\ Cover(h, p, q, c) = {k \in home[p] : Between(cells, i, k)}
              /\ home[c] = {k \in home[p] : Between(cells, i, k)}
  <2>1. /\ c \in PageId /\ home[c] # {} /\ level[c] = level[p] - 1
        /\ home[c] = {k \in home[p] : Between(cells, i, k)}
    <3>1. /\ c \in PageId /\ home[c] # {} /\ level[c] = level[p] - 1
          /\ Cover(home, NoPage, r, c) = {k \in home[p] : Between(cells, i, k)}
      BY <1>1, <1>2, <1>10, ChildOfNode DEF cells, n
    <3> QED
      BY <3>1, NoSplitCover
  <2>2. c # p /\ c # q
    BY <1>2, <2>1
  <2> QED
    BY <1>7, <2>1, <2>2 DEF Cover
<1>11. NodeIsRouted(a, p, h, l, p, q)
  <2>1. a.type = "INTERNAL" /\ l[p] \in 0 .. p /\ l[p] # 0
    BY <1>2, <1>3, <1>7, InternalFields
  <2>2. \A i \in 1 .. s : a.cells[i].key \in h[p]
    BY <1>2, <1>3, <1>5, <1>7
  <2>3. ASSUME NEW i \in 0 .. s
        PROVE  LET c == ChildAt(a, i)
               IN  /\ h[c] # {} /\ l[c] = l[p] - 1
                   /\ Cover(h, p, q, c) = {k \in h[p] : Between(a.cells, i, k)}
    <3>1. PICK c : c = ChildAt(node, i) /\ c = ChildAt(a, i)
      BY <1>3
    <3>2. /\ h[c] # {} /\ l[c] = l[p] - 1
          /\ Cover(h, p, q, c) = {k \in home[p] : Between(cells, i, k)}
      <4>1. PICK j \in 0 .. n : j = i
        BY <1>5
      <4> QED
        BY <1>7, <1>10, <3>1, <4>1, ZenonT(60)
    <3>3. {k \in home[p] : Between(cells, i, k)} = {k \in h[p] : Between(a.cells, i, k)}
      BY <1>4, <1>7, <1>9
    <3> QED
      BY <3>1, <3>2, <3>3
  <2> QED
    BY <1>3, <2>1, <2>2, <2>3 DEF NodeIsRouted
<1>12. NodeIsRouted(b, q, h, l, p, q)
  <2>1. b.type = "INTERNAL" /\ l[q] \in 0 .. q /\ l[q] # 0
    BY <1>2, <1>3, <1>6, <1>7, InternalFields, SMTT(30)
  <2>2. \A i \in 1 .. n - s - 1 : b.cells[i].key \in h[q]
    BY <1>2, <1>3, <1>5, <1>7
  <2>3. ASSUME NEW i \in 0 .. n - s - 1
        PROVE  LET c == ChildAt(b, i)
               IN  /\ h[c] # {} /\ l[c] = l[q] - 1
                   /\ Cover(h, p, q, c) = {k \in h[q] : Between(b.cells, i, k)}
    <3>0. PICK j \in 0 .. n : j = s + 1 + i
      BY <1>5
    <3>1. PICK c : c = ChildAt(node, j) /\ c = ChildAt(b, i)
      BY <1>3, <3>0
    <3>2. /\ h[c] # {} /\ l[c] = l[q] - 1
          /\ Cover(h, p, q, c) = {k \in home[p] : Between(cells, j, k)}
      BY <1>7, <1>10, <3>1, ZenonT(60)
    <3>3. {k \in home[p] : Between(cells, j, k)} = {k \in h[q] : Between(b.cells, i, k)}
      BY <1>4, <1>7, <1>9, <3>0
    <3> QED
      BY <3>1, <3>2, <3>3
  <2> QED
    BY <1>3, <2>1, <2>2, <2>3 DEF NodeIsRouted
<1>13. ASSUME NEW x \in PageId, level[x] < level[p], home[x] \cap home[p] # {}
       PROVE  home[x] \subseteq h[p] \/ home[x] \subseteq h[q]
  <2>1. PICK k : k \in home[x] /\ k \in home[p]
    BY <1>13
  <2>2. PICK i \in 0 .. n, c \in PageId :
          c = ChildAt(node, i) /\ level[c] = level[p] - 1 /\ k \in home[c]
    <3>1. PICK i, c : i = ChildIdx(node, k) /\ c = ChildAt(node, i)
      OBVIOUS
    <3>2. /\ i \in 0 .. n /\ c \in PageId /\ level[c] = level[p] - 1
          /\ k \in Cover(home, NoPage, r, c)
      BY <1>1, <1>2, <2>1, <3>1, SearchStep DEF n, cells
    <3> QED
      BY <3>1, <3>2, NoSplitCover
  <2>3. home[c] = {y \in home[p] : Between(cells, i, y)}
    BY <1>10, <2>2
  <2>4. home[x] \subseteq home[c]
    <3>1. Nested(home, level, NoPage, r) /\ home[x] \cap home[c] # {}
      BY <2>1, <2>2 DEF SearchTree
    <3>2. level[x] = level[c] \/ level[x] < level[c]
      BY <1>13, <2>2 DEF Levels
    <3>3. Cover(home, NoPage, r, x) = home[x]
      BY NoSplitCover
    <3> QED
      BY <3>1, <3>2, <3>3 DEF Nested
  <2>5. CASE i \in 0 .. s
    BY <1>4, <1>7, <1>9, <2>3, <2>4, <2>5
  <2>6. CASE i > s
    <3>1. i - s - 1 \in 0 .. n - s - 1 /\ s + 1 + (i - s - 1) = i
      <4>1. n \in Int /\ s \in Int /\ i \in Int /\ i <= n
        BY <1>2, <1>3
      <4> QED
        BY <2>6, <4>1
    <3>2. \A y \in Int : Between(cells, i, y) => m <= y
      BY <1>4, <3>1
    <3> QED
      BY <1>7, <1>9, <2>3, <2>4, <3>2
  <2>7. i \in 0 .. s \/ i > s
    BY <1>3
  <2> QED
    BY <2>5, <2>6, <2>7
<1>14. SearchTree(after, root, h, l, p, q)
  <2>1. SharesKeys(home, level, h, l, p, q, m) /\ GoesToOneHalf(home, level, h, p, q)
    BY <1>8, <1>13 DEF h, l, SharesKeys, GoesToOneHalf
  <2>2. NodeIsRouted(after[p], p, h, l, p, q) /\ NodeIsRouted(after[q], q, h, l, p, q)
    BY <1>11, <1>12 DEF a, b
  <2> QED
    BY <1>6, <2>1, <2>2, PageSplit
<1>15. ASSUME NEW may, HoldsValues(content, home, may)
       PROVE  HoldsValues(after, h, may)
  <2> SUFFICES ASSUME NEW x \in PageId, h[x] # {}, after[x].type = "LEAF", NEW k \in h[x]
               PROVE  Lookup(after[x], k) \in may[k]
    BY DEF HoldsValues
  <2>1. x # p /\ x # q
    BY <1>3, InternalFields DEF a, b
  <2> QED
    BY <1>7, <1>15, <2>1 DEF HoldsValues, SameBut
<1>16. ASSUME Chained(content, home)
       PROVE  Chained(after, h)
  <2>1. after[p].type = "INTERNAL" /\ after[q].type = "INTERNAL" /\ content[p].type = "INTERNAL"
    BY <1>3, InternalFields DEF a, b
  <2>2. \A x \in PageId : x # p /\ x # q => h[x] = home[x] /\ after[x] = content[x]
    BY <1>7 DEF SameBut
  <2>3. \A x \in PageId : home[x] # {} /\ content[x].type = "LEAF" =>
            h[x] = home[x] /\ after[x] = content[x]
    BY <2>1, <2>2
  <2>4. \A x \in PageId : h[x] # {} /\ after[x].type = "LEAF" =>
            h[x] = home[x] /\ after[x] = content[x]
    BY <2>1, <2>2
  <2> QED
    BY <1>16, <2>3, <2>4, SameChain
<1> QED
  BY <1>7, <1>8, <1>14, <1>15, <1>16 DEF Halves, Parted, IsIndex

\* The separator between the halves L and R goes into their parent P: the
\* tree is whole again.
LEMMA SeparatorTree ==
  ASSUME NEW content, NEW after, NEW root \in PageId, NEW home \in Homes, NEW level \in Levels,
         NEW L \in PageId, NEW R \in PageId, SearchTree(content, root, home, level, L, R),
         NEW m, Parted(home, level, L, R, m),
         NEW P \in PageId, home[P] # {}, content[P].type = "INTERNAL", level[P] = level[L] + 1,
         NEW idx \in 0 .. Len(content[P].cells), ChildAt(content[P], idx) = L,
         after[P] = WithSeparator(content[P], idx, m, R),
         SameBut(after, content, P, P), NEW r
  PROVE  /\ SearchTree(after, root, home, level, NoPage, r)
         /\ content[P] \in InternalNode /\ SeparatorAdded(content[P], idx, m, R, after[P])
         /\ \A may : IsIndex(content, home, may) => IsIndex(after, home, may)
<1> DEFINE node == content[P]
           cells == node.cells
           n == Len(cells)
           new == after[P]
<1>0. /\ home[L] # {} /\ level[R] = level[L] /\ m \in home[R]
      /\ \A k \in home[L] : k < m
      /\ \A k \in home[R] : m <= k
  BY DEF Parted
<1>1. NodeIsRouted(node, P, home, level, L, R) /\ Nested(home, level, L, R)
  BY DEF SearchTree
<1>2. /\ node \in InternalNode /\ node.type = "INTERNAL" /\ Sorted(cells) /\ n \in Nat
      /\ \A i \in 1 .. n : cells[i].key \in home[P]
      /\ level[P] \in 0 .. P /\ level[P] # 0 /\ idx \in 0 .. n
  <2>1. node \in InternalNode
    BY <1>1, RoutedNode
  <2> QED
    BY <1>1, <2>1, InternalFields DEF NodeIsRouted
<1>3. \A p \in PageId : \A k \in home[p] : k \in Key /\ k \in Int
  BY KeyAssumption DEF Homes
<1>4. home[L] \cup home[R] = {k \in home[P] : Between(cells, idx, k)}
  <2>1. Cover(home, L, R, L) = {k \in home[P] : Between(cells, idx, k)}
    BY <1>1, ChildOfNode
  <2> QED
    BY <2>1 DEF Cover
<1>5. PICK x \in home[L] : x \in home[P] /\ Between(cells, idx, x) /\ x < m /\ x \in Int
  BY <1>0, <1>3, <1>4
<1>6. m \in home[P] /\ Between(cells, idx, m) /\ m \in Key /\ m \in Int /\ L # R
  BY <1>0, <1>3, <1>4, <1>5
<1>7. SeparatorAdded(node, idx, m, R, new)
  BY <1>2, <1>5, <1>6, WithSeparatorFacts
<1>8. \A p \in PageId : /\ Cover(home, NoPage, r, p) = home[p]
                        /\ p # L => Cover(home, L, R, p) = home[p]
                        /\ home[p] \subseteq Cover(home, L, R, p)
  BY NoSplitCover DEF Cover
<1>9. ASSUME NEW i \in 0 .. n, NEW c, c = ChildAt(node, i), i # idx
      PROVE  /\ c \in PageId /\ c # L /\ home[c] # {} /\ level[c] = level[P] - 1
             /\ home[c] = {k \in home[P] : Between(cells, i, k)}
  <2>1. /\ c \in PageId /\ home[c] # {} /\ level[c] = level[P] - 1
        /\ Cover(home, L, R, c) = {k \in home[P] : Between(cells, i, k)}
    BY <1>1, <1>2, <1>9, ChildOfNode
  <2>2. c # L
    <3> SUFFICES ASSUME c = L PROVE FALSE
      OBVIOUS
    <3>1. Between(cells, i, x)
      BY <1>5, <1>8, <2>1
    <3>2. Cells(cells)
      BY <1>2, InternalFields
    <3>3. i = ChildIdx(node, x) /\ idx = ChildIdx(node, x)
      BY <1>2, <1>5, <3>1, <3>2, ChildIdxFacts
    <3> QED
      BY <1>9, <3>3
  <2> QED
    BY <1>8, <2>1, <2>2
<1> HIDE DEF node, cells, n, new
<1>10. /\ new \in InternalNode /\ Len(new.cells) = n + 1 /\ Sorted(new.cells)
       /\ \A i \in 1 .. n + 1 : new.cells[i].key = m \/ \E j \in 1 .. n : new.cells[i].key = cells[j].key
  BY <1>7 DEF SeparatorAdded, n, cells
<1>11. ASSUME NEW i \in 0 .. n + 1, NEW c, c = ChildAt(new, i)
       PROVE  /\ home[c] # {} /\ level[c] = level[P] - 1
              /\ c \in PageId
              /\ home[c] = {k \in home[P] : Between(new.cells, i, k)}
  <2>0. idx \in Int /\ n \in Int /\ i \in Int /\ 0 <= idx /\ idx <= n /\ level[L] \in Int
    BY <1>2 DEF Levels
  <2>1. c = IF i <= idx THEN ChildAt(node, i)
            ELSE IF i = idx + 1 THEN R ELSE ChildAt(node, i - 1)
    BY <1>7, <1>11 DEF SeparatorAdded, n, cells
  <2>2. \A k \in Int : Between(new.cells, i, k) <=>
                  IF i < idx THEN Between(cells, i, k)
                  ELSE IF i = idx THEN Between(cells, idx, k) /\ k < m
                  ELSE IF i = idx + 1 THEN Between(cells, idx, k) /\ m <= k
                  ELSE Between(cells, i - 1, k)
    BY <1>7 DEF SeparatorAdded, n, cells
  <2>3. CASE i < idx
    <3>1. i \in 0 .. n /\ i # idx /\ i <= idx
      BY <2>0, <2>3
    <3>2. /\ c \in PageId /\ home[c] # {} /\ level[c] = level[P] - 1
          /\ home[c] = {k \in home[P] : Between(cells, i, k)}
      BY <1>9, <2>1, <3>1
    <3>3. {k \in home[P] : Between(cells, i, k)} = {k \in home[P] : Between(new.cells, i, k)}
      BY <1>3, <2>2, <2>3
    <3> QED
      BY <3>2, <3>3
  <2>4. CASE i = idx
    <3>1. c = L
      BY <2>0, <2>1, <2>4 DEF node
    <3>2. home[L] = {k \in home[P] : Between(cells, idx, k) /\ k < m}
      BY <1>0, <1>3, <1>4, <1>6
    <3>3. \A k \in Int : Between(new.cells, i, k) <=> Between(cells, idx, k) /\ k < m
      BY <2>0, <2>2, <2>4
    <3> QED
      BY <1>0, <1>3, <2>0, <3>1, <3>2, <3>3
  <2>5. CASE i = idx + 1
    <3>1. c = R
      BY <2>0, <2>1, <2>5
    <3>2. home[R] = {k \in home[P] : Between(cells, idx, k) /\ m <= k}
      BY <1>0, <1>3, <1>4, <1>6
    <3>3. \A k \in Int : Between(new.cells, i, k) <=> Between(cells, idx, k) /\ m <= k
      BY <2>0, <2>2, <2>5
    <3> QED
      BY <1>0, <1>3, <2>0, <3>1, <3>2, <3>3
  <2>6. CASE i > idx + 1
    <3>1. PICK j \in 0 .. n : j = i - 1 /\ j # idx
      BY <2>0, <2>6
    <3>2. c = ChildAt(node, j) /\ \A k \in Int : Between(new.cells, i, k) <=> Between(cells, j, k)
      BY <2>0, <2>1, <2>2, <2>6, <3>1
    <3>3. /\ c \in PageId /\ home[c] # {} /\ level[c] = level[P] - 1
          /\ home[c] = {k \in home[P] : Between(cells, j, k)}
      BY <1>9, <3>1, <3>2
    <3>4. {k \in home[P] : Between(cells, j, k)} = {k \in home[P] : Between(new.cells, i, k)}
      BY <1>3, <3>2
    <3> QED
      BY <3>3, <3>4
  <2> QED
    BY <2>0, <2>3, <2>4, <2>5, <2>6
<1>12. NodeIsRouted(new, P, home, level, NoPage, r)
  <2>1. new.type = "INTERNAL"
    BY <1>10, InternalFields
  <2>2. \A i \in 1 .. n + 1 : new.cells[i].key \in home[P]
    BY <1>2, <1>6, <1>10
  <2> QED
    BY <1>2, <1>8, <1>10, <1>11, <2>1, <2>2 DEF NodeIsRouted
<1>13. ASSUME NEW p \in PageId, home[p] # {}
       PROVE  NodeIsRouted(after[p], p, home, level, NoPage, r) /\ level[p] <= level[root]
  <2>1. level[p] <= level[root] /\ NodeIsRouted(content[p], p, home, level, L, R)
    BY <1>13 DEF SearchTree
  <2>2. CASE p # P
    <3>1. after[p] = content[p]
      BY <2>2 DEF SameBut
    <3>2. ASSUME content[p].type = "INTERNAL", NEW i \in 0 .. Len(content[p].cells)
          PROVE  LET c == ChildAt(content[p], i)
                 IN  Cover(home, NoPage, r, c) = Cover(home, L, R, c)
      <4>1. PICK c : c = ChildAt(content[p], i)
        OBVIOUS
      <4>2. /\ c \in PageId /\ level[c] = level[p] - 1
            /\ Cover(home, L, R, c) = {k \in home[p] : Between(content[p].cells, i, k)}
        BY <2>1, <3>2, <4>1, ChildOfNode
      <4>3. c # L
        <5> SUFFICES ASSUME c = L PROVE FALSE
          OBVIOUS
        <5>1. x \in home[p] /\ level[p] = level[P]
          BY <1>8, <4>2 DEF Levels
        <5>2. p = P
          BY <1>1, <1>5, <5>1 DEF Nested
        <5> QED
          BY <2>2, <5>2
      <4> QED
        BY <1>8, <4>1, <4>2, <4>3
    <3> QED
      BY <2>1, <3>1, <3>2 DEF NodeIsRouted
  <2> QED
    BY <1>12, <2>1, <2>2 DEF new
<1>14. Nested(home, level, NoPage, r)
  BY <1>1, <1>8 DEF Nested
<1>15. home[root] # {} /\ Cover(home, NoPage, r, root) = Key
  <2>1. level[P] <= level[root] /\ home[root] # {} /\ Cover(home, L, R, root) = Key
    BY DEF SearchTree
  <2>2. root # L
    BY <2>1 DEF Levels
  <2> QED
    BY <1>8, <2>1, <2>2
<1>16. ASSUME NEW may, IsIndex(content, home, may) PROVE IsIndex(after, home, may)
  <2>1. new.type = "INTERNAL" /\ content[P].type = "INTERNAL"
    BY <1>10, InternalFields
  <2>2. HoldsValues(after, home, may)
    BY <1>16, <2>1 DEF HoldsValues, SameBut, new, IsIndex
  <2>3. Chained(content, home)
    BY <1>16 DEF IsIndex
  <2>4. Chained(after, home)
    BY <2>1, <2>3, SameChain DEF SameBut, new
  <2> QED
    BY <2>2, <2>4 DEF IsIndex
<1> QED
  BY <1>2, <1>7, <1>13, <1>14, <1>15, <1>16 DEF SearchTree, node, new, cells

\* A new root N above the halves of the old root L.
LEMMA RootTree ==
  ASSUME NEW content, NEW after, NEW home \in Homes, NEW level \in Levels,
         NEW L \in PageId, NEW R \in PageId, SearchTree(content, L, home, level, L, R),
         NEW m, Parted(home, level, L, R, m),
         NEW N \in PageId, home[N] = {}, L < N,
         after[N] = Internal(<<[key |-> m, child |-> R]>>, L),
         SameBut(after, content, N, N), NEW r
  PROVE  \E h \in Homes, l \in Levels :
            /\ SearchTree(after, N, h, l, NoPage, r)
            /\ \A may : IsIndex(content, home, may) => IsIndex(after, h, may)
<1> DEFINE h == [home EXCEPT ![N] = Key]
           l == [level EXCEPT ![N] = level[L] + 1]
           new == after[N]
<1>0. /\ home[L] # {} /\ level[R] = level[L] /\ m \in home[R]
      /\ \A k \in home[L] : k < m
      /\ \A k \in home[R] : m <= k
  BY DEF Parted
<1>1. \A p \in PageId : home[p] \subseteq Key /\ (\A k \in home[p] : k \in Int) /\ level[p] \in Nat
  BY KeyAssumption DEF Homes, Levels
<1>2. m \in Key /\ m \in Int /\ L # R /\ L # N /\ R # N /\ L \in Int /\ N \in Int
  BY <1>0, <1>1 DEF PageId
<1>3. home[L] \cup home[R] = Key
  BY DEF SearchTree, Cover
<1>4. /\ h \in Homes /\ l \in Levels /\ h[N] = Key /\ l[N] = level[L] + 1
      /\ \A p \in PageId : p # N => h[p] = home[p] /\ l[p] = level[p]
  BY <1>1 DEF Homes, Levels
<1>5. \A p \in PageId : home[p] # {} => level[p] <= level[L]
  BY DEF SearchTree
<1>6. \A p \in PageId : /\ Cover(h, NoPage, r, p) = h[p]
                        /\ p # L => Cover(home, L, R, p) = home[p]
                        /\ home[p] \subseteq Cover(home, L, R, p)
  <2>1. \A p \in PageId : Cover(h, NoPage, r, p) = h[p]
    BY NoSplitCover
  <2> QED
    BY <2>1 DEF Cover
<1> HIDE DEF h, l
<1>7. /\ new \in InternalNode /\ Len(new.cells) = 1 /\ new.cells[1].key = m /\ new.type = "INTERNAL"
      /\ ChildAt(new, 0) = L /\ ChildAt(new, 1) = R
  <2>1. [key |-> m, child |-> R] \in InternalCell
    BY <1>2 DEF InternalCell
  <2>2. <<[key |-> m, child |-> R]>> \in Seq(InternalCell) /\ Len(<<[key |-> m, child |-> R]>>) = 1
    BY <2>1
  <2>3. new.cells = <<[key |-> m, child |-> R]>>
    BY DEF Internal
  <2> QED
    BY <2>2, <2>3 DEF Internal, InternalNode, ChildAt
<1> HIDE DEF new
<1>8. NodeIsRouted(new, N, h, l, NoPage, r)
  <2>1. Sorted(new.cells)
    BY <1>7 DEF Sorted
  <2>2. \A i \in 1 .. Len(new.cells) : new.cells[i].key \in h[N]
    BY <1>2, <1>4, <1>7
  <2>3. l[N] \in 0 .. N /\ l[N] # 0
    <3>1. level[L] \in 0 .. L
      BY <1>0 DEF SearchTree, NodeIsRouted
    <3> QED
      BY <1>2, <1>4, <3>1
  <2>4. \A k \in Key : /\ Between(new.cells, 0, k) <=> k < m
                       /\ Between(new.cells, 1, k) <=> m <= k
    <3>1. \A k : /\ Between(new.cells, 0, k) <=> k < new.cells[1].key
                 /\ Between(new.cells, 1, k) <=> new.cells[1].key <= k
      BY <1>7 DEF Between
    <3> QED
      BY <1>7, <3>1
  <2>5. /\ home[L] = {k \in Key : k < m}
        /\ home[R] = {k \in Key : m <= k}
    <3>1. \A k \in Key : k \in Int /\ (k \in home[L] \/ k \in home[R])
      BY <1>3, KeyAssumption
    <3>2. home[L] \subseteq Key /\ home[R] \subseteq Key
      BY <1>1
    <3>3. \A k \in Key : (k \in home[L] <=> k < m) /\ (k \in home[R] <=> m <= k)
      BY <1>0, <1>2, <3>1
    <3> QED
      BY <3>2, <3>3
  <2>6. ASSUME NEW i \in 0 .. Len(new.cells)
        PROVE  LET c == ChildAt(new, i)
               IN  /\ h[c] # {} /\ l[c] = l[N] - 1
                   /\ Cover(h, NoPage, r, c) = {k \in h[N] : Between(new.cells, i, k)}
    <3>1. CASE i = 0
      <4>1. h[L] # {} /\ l[L] = l[N] - 1 /\ Cover(h, NoPage, r, L) = home[L]
        BY <1>0, <1>1, <1>2, <1>4, <1>6, SMTT(30)
      <4> QED
        BY <1>4, <1>7, <2>4, <2>5, <3>1, <4>1
    <3>2. CASE i = 1
      <4>1. h[R] # {} /\ l[R] = l[N] - 1 /\ Cover(h, NoPage, r, R) = home[R]
        BY <1>0, <1>1, <1>2, <1>4, <1>6, SMTT(30)
      <4> QED
        BY <1>4, <1>7, <2>4, <2>5, <3>2, <4>1
    <3> QED
      BY <1>7, <3>1, <3>2
  <2> QED
    BY <1>7, <2>1, <2>2, <2>3, <2>6 DEF NodeIsRouted
<1>9. ASSUME NEW p \in PageId, h[p] # {}
      PROVE  NodeIsRouted(after[p], p, h, l, NoPage, r) /\ l[p] <= l[N]
  <2>1. CASE p = N
    BY <1>4, <1>8, <2>1 DEF new, Levels
  <2>2. CASE p # N
    <3>1. home[p] # {} /\ h[p] = home[p] /\ l[p] = level[p] /\ after[p] = content[p]
      BY <1>4, <1>9, <2>2 DEF SameBut
    <3>2. level[p] <= level[L] /\ NodeIsRouted(content[p], p, home, level, L, R)
      BY <3>1 DEF SearchTree
    <3>3. ASSUME content[p].type = "INTERNAL", NEW i \in 0 .. Len(content[p].cells)
          PROVE  LET c == ChildAt(content[p], i)
                 IN  /\ h[c] # {} /\ l[c] = l[p] - 1
                     /\ Cover(h, NoPage, r, c) = Cover(home, L, R, c)
      <4>1. PICK c : c = ChildAt(content[p], i)
        OBVIOUS
      <4>2. c \in PageId /\ level[c] = level[p] - 1 /\ home[c] # {}
        BY <3>2, <3>3, <4>1, ChildOfNode
      <4>3. c # N
        BY <4>2
      <4>4. c # L
        BY <1>1, <3>2, <4>2
      <4> QED
        BY <1>4, <1>6, <3>1, <4>1, <4>2, <4>3, <4>4
    <3>4. l[p] <= l[N]
      BY <1>1, <1>4, <3>1, <3>2
    <3> QED
      BY <3>1, <3>2, <3>3, <3>4 DEF NodeIsRouted
  <2> QED
    BY <2>1, <2>2
<1>10. Nested(h, l, NoPage, r)
  <2>0. Nested(home, level, L, R)
    BY DEF SearchTree
  <2> SUFFICES ASSUME NEW x \in PageId, NEW y \in PageId
               PROVE  /\ l[x] = l[y] /\ h[x] \cap h[y] # {} => x = y
                      /\ l[x] < l[y] /\ h[x] \cap h[y] # {} => h[x] \subseteq h[y]
    BY <1>6 DEF Nested
  <2>1. \A z \in PageId : z # N /\ h[z] # {} => l[z] < l[N] /\ l[z] \in Nat
    BY <1>1, <1>4, <1>5
  <2>2. l[N] \in Nat
    BY <1>1, <1>4
  <2>3. CASE x # N /\ y # N
    <3>1. /\ h[x] = home[x] /\ h[y] = home[y] /\ l[x] = level[x] /\ l[y] = level[y]
          /\ home[x] \subseteq Cover(home, L, R, x)
      BY <1>4, <1>6, <2>3
    <3>2. level[x] = level[y] /\ home[x] \cap home[y] # {} => x = y
      BY <2>0 DEF Nested
    <3>3. level[x] < level[y] /\ home[x] \cap home[y] # {} => home[x] \subseteq home[y]
      BY <2>0, <3>1 DEF Nested
    <3> QED
      BY <3>1, <3>2, <3>3
  <2>4. CASE x = N /\ y # N
    BY <2>1, <2>2, <2>4
  <2>5. CASE x # N /\ y = N
    BY <1>1, <1>4, <2>1, <2>2, <2>5
  <2>6. CASE x = N /\ y = N
    BY <2>2, <2>6
  <2> QED
    BY <2>3, <2>4, <2>5, <2>6
<1>11. h[N] # {} /\ Cover(h, NoPage, r, N) = Key
  BY <1>4, <1>6, KeyAssumption
<1>12. SearchTree(after, N, h, l, NoPage, r)
  BY <1>9, <1>10, <1>11 DEF SearchTree
<1>13. ASSUME NEW may, IsIndex(content, home, may) PROVE IsIndex(after, h, may)
  <2>1. HoldsValues(after, h, may)
    BY <1>4, <1>7, <1>13 DEF HoldsValues, SameBut, new, IsIndex
  <2>2. Chained(after, h)
    BY <1>4, <1>7, <1>13 DEF Chained, SameBut, new, IsIndex
  <2> QED
    BY <2>1, <2>2 DEF IsIndex
<1> QED
  BY <1>4, <1>12, <1>13

\* If the separator of a split is never written, what is left is a search
\* tree still: the left half answers for the lost keys.
LEMMA HalfLost ==
  ASSUME NEW content, NEW root \in PageId, NEW home \in Homes, NEW level \in Levels,
         NEW L \in PageId, NEW R \in PageId, SearchTree(content, root, home, level, L, R),
         NEW m, Parted(home, level, L, R, m), NEW r
  PROVE  \E h \in Homes : SearchTree(content, root, h, level, NoPage, r)
<1>0. /\ home[L] # {} /\ level[R] = level[L] /\ m \in home[R]
      /\ \A k \in home[L] : k < m
      /\ \A k \in home[R] : m <= k
  BY DEF Parted
<1>1. \A p \in PageId : home[p] \subseteq Key /\ (\A k \in home[p] : k \in Int) /\ level[p] \in Nat
  BY KeyAssumption DEF Homes, Levels
<1>2. PICK w \in home[L] : \A x \in home[L] : x <= w
  <2>1. home[L] \in SUBSET Int /\ m \in Int
    BY <1>0, <1>1
  <2> QED
    BY <1>0, <2>1, GreatestBelow
<1>3. w \in Key /\ w \in Int /\ w < m /\ m \in Int /\ w \notin home[R]
  BY <1>0, <1>1, <1>2
<1> DEFINE f(k) == IF k \in home[R] THEN w ELSE k
           h == [p \in PageId |-> {k \in Key : f(k) \in home[p]}]
           C(p) == Cover(home, L, R, p)
<1>4. \A k \in Key : f(k) \in Key /\ f(k) \notin home[R]
  BY <1>3
<1>5. h \in Homes /\ \A p \in PageId : \A k : k \in h[p] <=> k \in Key /\ f(k) \in home[p]
  BY DEF Homes
<1> HIDE DEF h
<1>6. \A p \in PageId : h[p] # {} => home[p] # {} /\ ~(home[p] \subseteq home[R])
  BY <1>4, <1>5
<1>7. \A p \in PageId : /\ Cover(h, NoPage, r, p) = h[p]
                        /\ home[p] \subseteq C(p)
                        /\ p # L => C(p) = home[p]
                        /\ \A k : k \notin home[R] => (k \in C(p) <=> k \in home[p])
  <2>1. \A p \in PageId : Cover(h, NoPage, r, p) = h[p]
    BY NoSplitCover
  <2> QED
    BY <2>1 DEF Cover
<1>8. C(L) = home[L] \cup home[R]
  BY DEF Cover
<1>9. Nested(home, level, L, R)
  BY DEF SearchTree
<1> HIDE DEF C
<1>10. \A p, q \in PageId : /\ level[p] = level[q] /\ home[p] \cap home[q] # {} => p = q
                            /\ level[p] < level[q] /\ C(p) \cap home[q] # {} => C(p) \subseteq home[q]
  BY <1>9 DEF Nested, C
\* a page that keeps keys and had some of the lost ones is above both halves
<1>11. ASSUME NEW p \in PageId, h[p] # {}, home[p] \cap home[R] # {}
       PROVE  w \in home[p]
  <2>1. level[p] # level[R]
    BY <1>6, <1>10, <1>11
  <2>2. ~(level[p] < level[R])
    <3> SUFFICES ASSUME level[p] < level[R] PROVE FALSE
      OBVIOUS
    <3>1. C(p) \cap home[R] # {}
      BY <1>7, <1>11
    <3>2. C(p) \subseteq home[R]
      BY <1>10, <3>1
    <3> QED
      BY <1>6, <1>7, <1>11, <3>2
  <2>3. level[L] < level[p]
    BY <1>0, <1>1, <2>1, <2>2
  <2>4. C(L) \cap home[p] # {}
    BY <1>8, <1>11
  <2> QED
    BY <1>2, <1>8, <1>10, <2>3, <2>4
\* a search for a lost key goes where one for w goes
<1>12. ASSUME NEW p \in PageId, w \in home[p], content[p].type = "INTERNAL", NEW k \in home[R],
              NEW i \in 0 .. Len(content[p].cells)
       PROVE  Between(content[p].cells, i, w) <=> Between(content[p].cells, i, k)
  <2> DEFINE cells == content[p].cells
  <2>1. NodeIsRouted(content[p], p, home, level, L, R)
    BY <1>12 DEF SearchTree
  <2>2. Sorted(cells) /\ Cells(cells) /\ Len(cells) \in Nat
    BY <2>1, RoutedNode DEF Cells
  <2>3. k \in Int /\ w < k
    BY <1>0, <1>1, <1>3
  <2>4. CASE level[p] <= level[L]
    <3>1. home[p] \subseteq home[L]
      <4>1. home[p] \cap home[L] # {} /\ C(p) \cap home[L] # {} /\ home[p] \subseteq C(p)
        BY <1>2, <1>7, <1>12
      <4>2. level[p] = level[L] \/ level[p] < level[L]
        BY <1>1, <2>4
      <4>3. CASE level[p] = level[L]
        BY <1>10, <4>1, <4>3
      <4>4. CASE level[p] < level[L]
        BY <1>10, <4>1, <4>4
      <4> QED
        BY <4>2, <4>3, <4>4
    <3>2. \A j \in 1 .. Len(cells) : cells[j].key \in Int /\ cells[j].key <= w /\ cells[j].key <= k
      <4>1. \A j \in 1 .. Len(cells) : cells[j].key \in home[L]
        BY <2>1, <3>1 DEF NodeIsRouted
      <4> QED
        BY <1>1, <1>2, <1>3, <2>3, <4>1
    <3>3. \A j \in 1 .. i : j \in 1 .. Len(cells)
      BY <2>2
    <3>4. \A j \in i + 1 .. Len(cells) : j \in 1 .. Len(cells)
      BY <2>2
    <3>5. ASSUME NEW x \in {w, k}
          PROVE  Between(cells, i, x) <=> \A j \in i + 1 .. Len(cells) : FALSE
      <4>1. \A j \in 1 .. Len(cells) : cells[j].key <= x /\ ~(x < cells[j].key)
        BY <1>3, <2>3, <3>2
      <4> QED
        BY <3>3, <3>4, <4>1 DEF Between
    <3>6. Between(cells, i, w) <=> \A j \in i + 1 .. Len(cells) : FALSE
      BY <3>5
    <3>7. Between(cells, i, k) <=> \A j \in i + 1 .. Len(cells) : FALSE
      BY <3>5
    <3> QED
      BY <3>6, <3>7
  <2>5. CASE level[L] < level[p]
    <3>1. PICK j, c : j = ChildIdx(content[p], w) /\ c = ChildAt(content[p], j)
      OBVIOUS
    <3>2. /\ j \in 0 .. Len(cells) /\ c \in PageId /\ level[c] = level[p] - 1
          /\ C(c) = {x \in home[p] : Between(cells, j, x)} /\ w \in C(c)
      BY <1>12, <2>1, <3>1, SearchStep DEF C
    <3>3. w \in home[c]
      BY <1>3, <1>7, <3>2
    <3>4. k \in C(c)
      <4>1. level[c] = level[L] \/ level[L] < level[c]
        BY <1>1, <2>5, <3>2
      <4>2. CASE level[c] = level[L]
        BY <1>2, <1>8, <1>10, <3>2, <3>3, <4>2
      <4>3. CASE level[L] < level[c]
        <5>1. C(L) \cap home[c] # {}
          BY <1>2, <1>8, <3>3
        <5>2. C(L) \subseteq home[c]
          BY <1>10, <3>2, <4>3, <5>1
        <5> QED
          BY <1>7, <1>8, <3>2, <5>2
      <4> QED
        BY <4>1, <4>2, <4>3
    <3>5. Between(cells, j, k)
      BY <3>2, <3>4
    <3>6. \A g \in 0 .. Len(cells) : Between(cells, g, w) <=> g = j
      BY <1>3, <2>2, <3>1, ChildIdxFacts
    <3>7. \A g \in 0 .. Len(cells) : Between(cells, g, k) <=> g = j
      <4>1. \A g \in 0 .. Len(cells) : Between(cells, g, k) <=> g = ChildIdx(content[p], k)
        BY <2>2, <2>3, ChildIdxFacts
      <4>2. j = ChildIdx(content[p], k)
        BY <3>2, <3>5, <4>1
      <4> QED
        BY <4>1, <4>2
    <3> QED
      BY <3>6, <3>7
  <2> QED
    BY <1>1, <2>4, <2>5
<1>13. ASSUME NEW p \in PageId, h[p] # {}
       PROVE  NodeIsRouted(content[p], p, h, level, NoPage, r) /\ level[p] <= level[root]
  <2> DEFINE node == content[p]
  <2>1. NodeIsRouted(node, p, home, level, L, R) /\ level[p] <= level[root]
    BY <1>6, <1>13 DEF SearchTree
  <2>2. ASSUME NEW i \in 1 .. Len(node.cells) PROVE node.cells[i].key \in h[p]
    <3>1. PICK x : x = node.cells[i].key /\ x \in home[p] /\ x \in Key
      BY <1>1, <2>1 DEF NodeIsRouted
    <3>2. f(x) \in home[p]
      <4>1. x \in home[R] => home[p] \cap home[R] # {}
        BY <3>1
      <4>2. x \in home[R] => w \in home[p]
        BY <1>11, <1>13, <4>1
      <4> QED
        BY <3>1, <4>2
    <3> QED
      BY <1>5, <3>1, <3>2
  <2>3. ASSUME node.type = "INTERNAL", NEW i \in 0 .. Len(node.cells)
        PROVE  LET c == ChildAt(node, i)
               IN  /\ h[c] # {} /\ level[c] = level[p] - 1
                   /\ Cover(h, NoPage, r, c) = {k \in h[p] : Between(node.cells, i, k)}
    <3>1. PICK c : c = ChildAt(node, i)
      OBVIOUS
    <3>2. /\ c \in PageId /\ home[c] # {} /\ level[c] = level[p] - 1
          /\ C(c) = {k \in home[p] : Between(node.cells, i, k)}
      BY <2>1, <2>3, <3>1, ChildOfNode DEF C
    <3>3. ASSUME NEW k \in Key
          PROVE  k \in h[c] <=> k \in h[p] /\ Between(node.cells, i, k)
      <4>1. k \in h[c] <=> f(k) \in C(c)
        BY <1>4, <1>5, <1>7, <3>2
      <4>2. f(k) \in C(c) <=> f(k) \in home[p] /\ Between(node.cells, i, f(k))
        BY <3>2
      <4>3. f(k) \in home[p] => (Between(node.cells, i, f(k)) <=> Between(node.cells, i, k))
        BY <1>12, <2>3
      <4>4. k \in h[p] <=> f(k) \in home[p]
        BY <1>5
      <4> QED
        BY <4>1, <4>2, <4>3, <4>4
    <3>4. h[c] # {}
      <4>1. PICK x : x \in home[c] /\ x \in Key
        BY <1>1, <3>2
      <4>2. CASE x \notin home[R]
        BY <1>5, <3>2, <4>1, <4>2
      <4>3. CASE x \in home[R]
        <5>1. x \in home[p] /\ Between(node.cells, i, x)
          BY <1>7, <3>2, <4>1
        <5>2. w \in home[p]
          BY <1>11, <1>13, <4>3, <5>1
        <5>3. Between(node.cells, i, w)
          BY <1>12, <2>3, <4>3, <5>1, <5>2
        <5>4. w \in home[c]
          BY <1>3, <1>7, <3>2, <5>2, <5>3
        <5> QED
          BY <1>3, <1>5, <3>2, <5>4
      <4> QED
        BY <4>2, <4>3
    <3>5. h[c] = {k \in h[p] : Between(node.cells, i, k)}
      BY <1>5, <3>2, <3>3
    <3> QED
      BY <1>7, <3>1, <3>2, <3>4, <3>5
  <2> QED
    BY <2>1, <2>2, <2>3 DEF NodeIsRouted
<1>14. Nested(h, level, NoPage, r)
  <2> SUFFICES ASSUME NEW x \in PageId, NEW y \in PageId, h[x] \cap h[y] # {}
               PROVE  /\ level[x] = level[y] => x = y
                      /\ level[x] < level[y] => h[x] \subseteq h[y]
    BY <1>7 DEF Nested
  <2>1. home[x] \cap home[y] # {} /\ C(x) \cap home[y] # {}
    BY <1>5, <1>7
  <2>2. level[x] < level[y] => home[x] \subseteq home[y]
    BY <1>7, <1>10, <2>1
  <2> QED
    BY <1>5, <1>10, <2>1, <2>2
<1>15. h[root] # {} /\ Cover(h, NoPage, r, root) = Key
  <2>1. C(root) = Key
    BY DEF SearchTree, C
  <2>2. \A k \in Key : f(k) \in home[root]
    BY <1>4, <1>7, <2>1
  <2>3. h[root] = Key
    BY <1>5, <2>2
  <2> QED
    BY <1>7, <2>3, KeyAssumption
<1> QED
  BY <1>5, <1>13, <1>14, <1>15 DEF SearchTree

\* What is written into or taken out of the leaf of a key changes what is
\* found for that key and for no other.
LEMMA LeafChanged ==
  ASSUME NEW content, NEW after, NEW root \in PageId, NEW home \in Homes, NEW level \in Levels,
         NEW r, SearchTree(content, root, home, level, NoPage, r),
         NEW p \in PageId, NEW key \in home[p], content[p].type = "LEAF",
         NEW node \in LeafNode, Sorted(node.cells), node.next_leaf = content[p].next_leaf,
         \A c \in Range(node.cells) : c.key = key \/ c \in Range(content[p].cells),
         \A c \in Range(content[p].cells) : c.key = key \/ c \in Range(node.cells),
         after[p] = node, SameBut(after, content, p, p),
         NEW may, NEW can, Lookup(node, key) \in can[key],
         \A k \in Key : k = key \/ may[k] \subseteq can[k]
  PROVE  /\ SearchTree(after, root, home, level, NoPage, r)
         /\ IsIndex(content, home, may) => IsIndex(after, home, can)
<1>1. /\ NodeIsRouted(content[p], p, home, level, NoPage, r) /\ home[p] # {} /\ level[p] = 0
      /\ content[p] \in LeafNode /\ Sorted(content[p].cells) /\ home[p] \in SUBSET Key
  <2>1. home[p] # {} /\ NodeIsRouted(content[p], p, home, level, NoPage, r)
    BY DEF SearchTree
  <2>2. PICK old : old = content[p]
    OBVIOUS
  <2>3. old \in LeafNode /\ level[p] = 0 /\ Sorted(old.cells)
    <3>1. NodeIsRouted(old, p, home, level, NoPage, r) /\ old.type = "LEAF"
      BY <2>1, <2>2
    <3>2. \/ old \in LeafNode /\ old.type = "LEAF" /\ level[p] = 0
          \/ old \in InternalNode /\ old.type = "INTERNAL" /\ level[p] > 0
      BY <3>1, RoutedNode
    <3> QED
      BY <3>1, <3>2 DEF NodeIsRouted
  <2> QED
    BY <2>1, <2>2, <2>3 DEF Homes
<1>2. \A c \in Range(node.cells) : c.key \in home[p]
  <2>1. \A c \in Range(content[p].cells) : c.key \in home[p]
    <3>1. PICK cells : cells = content[p].cells
      OBVIOUS
    <3>2. cells \in Seq(LeafCell) /\ \A i \in 1 .. Len(cells) : cells[i].key \in home[p]
      BY <1>1, <3>1, LeafFields DEF NodeIsRouted
    <3>3. \A x \in Range(cells) : \E i \in 1 .. Len(cells) : cells[i] = x
      BY <3>2, RangeElements
    <3> QED
      BY <3>1, <3>2, <3>3
  <2> QED
    BY <2>1
<1>3. SearchTree(after, root, home, level, NoPage, r)
  BY <1>1, <1>2, LeafReplaced DEF SameBut
<1>4. ASSUME HoldsValues(content, home, may)
      PROVE  HoldsValues(after, home, can)
  <2> SUFFICES ASSUME NEW q \in PageId, home[q] # {}, after[q].type = "LEAF", NEW k \in home[q]
               PROVE  Lookup(after[q], k) \in can[k]
    BY DEF HoldsValues
  <2>1. k \in Key
    BY DEF Homes
  <2>2. CASE q = p /\ k = key
    BY <2>2
  <2>3. CASE q = p /\ k # key
    <3>1. Lookup(node, k) = Lookup(content[p], k)
      <4>1. \A c : c.key = k => (c \in Range(node.cells) <=> c \in Range(content[p].cells))
        BY <2>3
      <4> QED
        BY <1>1, <2>1, <4>1, LookupSame
    <3>2. Lookup(content[p], k) \in may[k]
      BY <1>1, <1>4, <2>3 DEF HoldsValues
    <3> QED
      BY <2>1, <2>3, <3>1, <3>2
  <2>4. CASE q # p
    <3>1. after[q] = content[q]
      BY <2>4 DEF SameBut
    <3>2. Lookup(content[q], k) \in may[k]
      BY <1>4, <3>1 DEF HoldsValues
    <3>3. k # key
      <4>1. level[q] = 0
        <5>1. NodeIsRouted(content[q], q, home, level, NoPage, r)
          BY DEF SearchTree
        <5> QED
          BY <3>1, <5>1 DEF NodeIsRouted
      <4>2. home[p] \cap home[q] # {} => p = q
        BY <1>1, <4>1 DEF SearchTree, Nested
      <4> QED
        BY <2>4, <4>2
    <3> QED
      BY <2>1, <3>1, <3>2, <3>3
  <2> QED
    BY <2>2, <2>3, <2>4
<1>5. ASSUME Chained(content, home)
      PROVE  Chained(after, home)
  <2>1. node.type = "LEAF"
    BY LeafFields
  <2>2. \A x \in PageId : after[x].type = content[x].type
                          /\ (content[x].type = "LEAF" => after[x].next_leaf = content[x].next_leaf)
    BY <2>1 DEF SameBut
  <2> QED
    BY <1>5, <2>2, SameChain
<1> QED
  BY <1>3, <1>4, <1>5 DEF IsIndex

-----------------------------------------------------------------------------
(* Searches. *)

\* FindLeafPageId's loop does turn by turn what Turn says.
LEMMA DescentTurns ==
  ASSUME NEW key
  PROVE  \A n \in 0 .. MaxPages :
            Descent(key)[n] = IF n = 0 THEN [page |-> root_page_id, passed |-> 0]
                              ELSE Turn(Descent(key)[n - 1], key)
<1> DEFINE start == [page |-> root_page_id, passed |-> 0]
           IsLoop(f, m) == f = [n \in 0 .. m |-> IF n = 0 THEN start ELSE Turn(f[n - 1], key)]
           Exists(m) == \E f : IsLoop(f, m)
           T == {m \in 0 .. MaxPages : ~Exists(m)}
<1>0. MaxPages \in Nat
  BY BTreeBoundsAssumption
<1>1. T = {}
  <2>1. SUFFICES ASSUME T # {} PROVE FALSE
    OBVIOUS
  <2>2. T \in SUBSET Nat
    BY <1>0
  <2>3. PICK m \in T : \A k \in T : m <= k
    <3> HIDE DEF T
    <3> QED
      BY <2>1, <2>2, LeastNatural
  <2>4. m \in 0 .. MaxPages /\ ~Exists(m) /\ m \in Nat
    BY <1>0
  <2>5. CASE m = 0
    <3> DEFINE f == [n \in 0 .. m |-> start]
    <3>1. \A n \in 0 .. m : n = 0
      BY <2>5
    <3>2. IsLoop(f, m)
      BY <3>1
    <3> QED
      BY <2>4, <3>2
  <2>6. CASE m # 0
    <3>1. m - 1 \in 0 .. MaxPages /\ ~(m <= m - 1)
      BY <1>0, <2>4, <2>6
    <3>2. Exists(m - 1)
      BY <2>3, <3>1
    <3>3. PICK g : g = [n \in 0 .. m - 1 |-> IF n = 0 THEN start ELSE Turn(g[n - 1], key)]
      BY <3>2
    <3>4. \A n \in 0 .. m - 1 : g[n] = IF n = 0 THEN start ELSE Turn(g[n - 1], key)
      BY <3>3
    <3> DEFINE f == [n \in 0 .. m |-> IF n = m THEN Turn(g[m - 1], key) ELSE g[n]]
    <3>5. \A n \in 0 .. m : f[n] = IF n = 0 THEN start ELSE Turn(f[n - 1], key)
      <4> SUFFICES ASSUME NEW n \in 0 .. m
                   PROVE  f[n] = IF n = 0 THEN start ELSE Turn(f[n - 1], key)
        OBVIOUS
      <4>1. CASE n = m
        <5>1. m - 1 \in 0 .. m /\ m - 1 # m /\ n # 0
          BY <2>4, <2>6, <4>1
        <5>2. f[n] = Turn(g[m - 1], key) /\ f[n - 1] = g[m - 1]
          BY <4>1, <5>1
        <5> HIDE DEF f
        <5> QED
          BY <5>1, <5>2
      <4>2. CASE n # m /\ n # 0
        <5>1. n \in 0 .. m - 1 /\ n - 1 \in 0 .. m /\ n - 1 # m
          BY <2>4, <4>2
        <5>2. f[n] = g[n] /\ f[n - 1] = g[n - 1]
          BY <4>2, <5>1
        <5> HIDE DEF f
        <5> QED
          BY <3>4, <4>2, <5>1, <5>2
      <4>3. CASE n = 0 /\ n # m
        <5>1. n \in 0 .. m - 1
          BY <2>4, <4>3
        <5>2. f[n] = g[n]
          BY <4>3
        <5> HIDE DEF f
        <5> QED
          BY <3>4, <4>3, <5>1, <5>2
      <4> QED
        BY <4>1, <4>2, <4>3
    <3>6. IsLoop(f, m)
      <4>1. f = [n \in 0 .. m |-> f[n]]
        OBVIOUS
      <4> HIDE DEF f
      <4> QED
        BY <3>5, <4>1
    <3> QED
      BY <2>4, <3>6
  <2> QED
    BY <2>5, <2>6
<1>2. Exists(MaxPages)
  BY <1>0, <1>1
<1>3. IsLoop(Descent(key), MaxPages)
  BY <1>2 DEF Descent
<1> HIDE DEF start
<1>4. \A n \in 0 .. MaxPages : Descent(key)[n] = IF n = 0 THEN start ELSE Turn(Descent(key)[n - 1], key)
  <2> DEFINE d == Descent(key)
  <2>1. d = [n \in 0 .. MaxPages |-> IF n = 0 THEN start ELSE Turn(d[n - 1], key)]
    BY <1>3
  <2> HIDE DEF d
  <2>2. \A n \in 0 .. MaxPages : d[n] = IF n = 0 THEN start ELSE Turn(d[n - 1], key)
    BY <2>1
  <2> QED
    BY <2>2 DEF d
<1> QED
  BY <1>4 DEF start

\* The search for a key passes the pages that have it, one level down at a
\* time.
LEMMA DescentInTree ==
  ASSUME root_page_id \in PageId, NEW home \in Homes, NEW level \in Levels, NEW r,
         SearchTree(mem, root_page_id, home, level, NoPage, r), NEW key \in Key
  PROVE  \A n \in 0 .. MaxPages :
            /\ Descent(key)[n].page \in PageId
            /\ key \in home[Descent(key)[n].page]
            /\ Descent(key)[n].passed \in Nat
            /\ level[Descent(key)[n].page] + Descent(key)[n].passed = level[root_page_id]
            /\ level[Descent(key)[n].page] = 0 \/ Descent(key)[n].passed >= n
<1> DEFINE d == Descent(key)
           Good(n) == /\ d[n].page \in PageId
                      /\ key \in home[d[n].page]
                      /\ d[n].passed \in Nat
                      /\ level[d[n].page] + d[n].passed = level[root_page_id]
                      /\ level[d[n].page] = 0 \/ d[n].passed >= n
           T == {n \in 0 .. MaxPages : ~Good(n)}
<1>0. MaxPages \in Nat
  BY BTreeBoundsAssumption
<1>1. \A n \in 0 .. MaxPages : d[n] = IF n = 0 THEN [page |-> root_page_id, passed |-> 0]
                                      ELSE Turn(d[n - 1], key)
  BY DescentTurns
<1> HIDE DEF d
<1>2. \A p \in PageId : Cover(home, NoPage, r, p) = home[p] /\ level[p] \in Nat
  BY NoSplitCover DEF Levels
<1>3. SUFFICES ASSUME T # {} PROVE FALSE
  BY DEF d
<1>4. T \in SUBSET Nat
  BY <1>0
<1>5. PICK n \in T : \A k \in T : n <= k
  <2> HIDE DEF T
  <2> QED
    BY <1>3, <1>4, LeastNatural
<1>6. n \in 0 .. MaxPages /\ ~Good(n) /\ n \in Nat
  BY <1>0
<1>7. CASE n = 0
  <2>1. d[n].page = root_page_id /\ d[n].passed = 0
    BY <1>1, <1>6, <1>7
  <2>2. key \in home[root_page_id]
    BY <1>2 DEF SearchTree
  <2> QED
    BY <1>2, <1>6, <1>7, <2>1, <2>2
<1>8. CASE n # 0
  <2>1. n - 1 \in 0 .. MaxPages /\ ~(n <= n - 1)
    BY <1>0, <1>6, <1>8
  <2>2. Good(n - 1)
    BY <1>5, <2>1
  <2>3. PICK at : at = d[n - 1] /\ d[n] = Turn(at, key)
    BY <1>1, <1>6, <1>8
  <2>4. /\ at.page \in PageId /\ key \in home[at.page] /\ at.passed \in Nat
        /\ level[at.page] + at.passed = level[root_page_id]
        /\ level[at.page] = 0 \/ at.passed >= n - 1
    BY <2>2, <2>3
  <2>5. NodeIsRouted(mem[at.page], at.page, home, level, NoPage, r)
    BY <2>4 DEF SearchTree
  <2>6. CASE mem[at.page].type = "INTERNAL"
    <3>1. IsA(at.page, "INTERNAL")
      BY <2>4, <2>5, <2>6, RoutedNode DEF IsA
    <3>2. PICK i, c : i = ChildIdx(mem[at.page], key) /\ c = ChildAt(mem[at.page], i)
      OBVIOUS
    <3>3. d[n].page = c /\ d[n].passed = at.passed + 1
      BY <2>3, <3>1, <3>2 DEF Turn
    <3>4. /\ c \in PageId /\ level[c] = level[at.page] - 1
          /\ key \in Cover(home, NoPage, r, c)
      BY <2>4, <2>5, <2>6, <3>2, SearchStep
    <3>5. level[at.page] # 0
      BY <1>2, <3>4
    <3>6. level[c] \in Nat /\ level[at.page] \in Nat /\ key \in home[c]
      BY <1>2, <2>4, <3>4
    <3>7. /\ level[c] + (at.passed + 1) = level[root_page_id]
          /\ at.passed + 1 \in Nat /\ at.passed + 1 >= n
      BY <1>6, <2>4, <3>4, <3>5, <3>6
    <3> QED
      BY <1>6, <3>3, <3>4, <3>6, <3>7
  <2>7. CASE mem[at.page].type # "INTERNAL"
    <3>1. ~IsA(at.page, "INTERNAL") /\ level[at.page] = 0
      BY <2>4, <2>5, <2>7, RoutedNode DEF IsA
    <3>2. d[n] = at
      BY <2>3, <3>1 DEF Turn
    <3> QED
      BY <1>6, <2>4, <3>1, <3>2
  <2> QED
    BY <2>6, <2>7
<1> QED
  BY <1>7, <1>8

\* Every search ends in the one leaf that has the key.
LEMMA SearchEnds ==
  ASSUME root_page_id \in PageId, NEW home \in Homes, NEW level \in Levels, NEW r,
         SearchTree(mem, root_page_id, home, level, NoPage, r),
         NEW key \in Key, NEW p, p = FindLeafPageId(key)
  PROVE  /\ p \in PageId /\ p # NoPage /\ key \in home[p] /\ level[p] = 0
         /\ mem[p] \in LeafNode /\ mem[p].type = "LEAF" /\ Sorted(mem[p].cells)
         /\ \A i \in 1 .. Len(mem[p].cells) : mem[p].cells[i].key \in home[p]
         /\ Depth(key) = level[root_page_id]
         /\ \A q \in PageId : key \in home[q] /\ level[q] = 0 => q = p
<1> DEFINE e == Descent(key)[MaxPages]
<1>0. MaxPages \in Nat /\ MaxPages \in 0 .. MaxPages
  BY BTreeBoundsAssumption
<1>1. /\ e.page \in PageId /\ key \in home[e.page] /\ e.passed \in Nat
      /\ level[e.page] + e.passed = level[root_page_id]
      /\ level[e.page] = 0 \/ e.passed >= MaxPages
  BY <1>0, DescentInTree
<1>2. level[root_page_id] < MaxPages /\ level[e.page] \in Nat
  <2>1. NodeIsRouted(mem[root_page_id], root_page_id, home, level, NoPage, r)
    BY DEF SearchTree
  <2>2. level[root_page_id] \in 0 .. root_page_id
    BY <2>1 DEF NodeIsRouted
  <2> QED
    BY <1>0, <1>1, <2>2 DEF PageId, Levels
<1>3. level[e.page] = 0 /\ e.passed = level[root_page_id]
  <2>1. level[e.page] = 0
    BY <1>0, <1>1, <1>2
  <2> QED
    BY <1>1, <2>1
<1>4. NodeIsRouted(mem[e.page], e.page, home, level, NoPage, r) /\ Nested(home, level, NoPage, r)
  BY <1>1 DEF SearchTree
<1>5. mem[e.page] \in LeafNode /\ mem[e.page].type = "LEAF" /\ mem[e.page] # NoNode /\ Sorted(mem[e.page].cells)
  BY <1>1, <1>3, <1>4, RoutedNode
<1>6. p = e.page
  BY <1>1, <1>5 DEF FindLeafPageId, IsA
<1>7. Depth(key) = e.passed
  BY DEF Depth
<1>8. \A i \in 1 .. Len(mem[e.page].cells) : mem[e.page].cells[i].key \in home[e.page]
  BY <1>4 DEF NodeIsRouted
<1>9. \A q \in PageId : key \in home[q] /\ level[q] = 0 => q = e.page
  BY <1>1, <1>3, <1>4 DEF Nested
<1> HIDE DEF e
<1> QED
  BY <1>1, <1>3, <1>5, <1>6, <1>7, <1>8, <1>9, NoPageAssumption

-----------------------------------------------------------------------------
(* Scans. *)

LEMMA PosAboveFacts ==
  ASSUME NEW cells, Cells(cells), NEW high \in Int
  PROVE  /\ PosAbove(cells, high) \in 1 .. Len(cells) + 1
         /\ \A j \in 1 .. PosAbove(cells, high) - 1 : cells[j].key <= high
         /\ PosAbove(cells, high) <= Len(cells) => cells[PosAbove(cells, high)].key > high
<1> DEFINE T == {i \in 1 .. Len(cells) + 1 : i <= Len(cells) => cells[i].key > high}
<1>1. T \in SUBSET Nat /\ Len(cells) + 1 \in T /\ Len(cells) \in Nat
  BY DEF Cells
<1>2. PICK x \in T : \A y \in T : x <= y
  <2> HIDE DEF T
  <2> QED
    BY <1>1, LeastNatural
<1>3. \A j \in 1 .. x - 1 : ~(cells[j].key > high)
  BY <1>1, <1>2 DEF Cells
<1>4. \E i \in 1 .. Len(cells) + 1 :
        /\ \A j \in 1 .. i - 1 : ~(cells[j].key > high)
        /\ i <= Len(cells) => cells[i].key > high
  BY <1>2, <1>3
<1>5. /\ PosAbove(cells, high) \in 1 .. Len(cells) + 1
      /\ \A j \in 1 .. PosAbove(cells, high) - 1 : ~(cells[j].key > high)
      /\ PosAbove(cells, high) <= Len(cells) => cells[PosAbove(cells, high)].key > high
  BY <1>4 DEF PosAbove, FirstPos
<1> HIDE DEF T
<1>6. \A j \in 1 .. Len(cells) : cells[j].key \in Int
  BY DEF Cells
<1>7. \A j \in 1 .. PosAbove(cells, high) - 1 : j \in 1 .. Len(cells)
  BY <1>1, <1>5
<1> QED
  BY <1>5, <1>6, <1>7

\* What a scan takes of one leaf: its cells in the range, in order.
Taken(node, low, high) ==
    SubSeq(node.cells, LeafPos(node.cells, low), PosAbove(node.cells, high) - 1)

LEMMA TakenOfLeaf ==
  ASSUME NEW node \in LeafNode, Sorted(node.cells), NEW low \in Int, NEW high \in Int, low <= high
  PROVE  /\ Taken(node, low, high) \in Seq(LeafCell) /\ Sorted(Taken(node, low, high))
         /\ Range(Taken(node, low, high)) = {c \in Range(node.cells) : low <= c.key /\ c.key <= high}
         /\ PosAbove(node.cells, high) <= Len(node.cells) =>
               \E c \in Range(node.cells) : c.key > high
<1>a. PICK cells : cells = node.cells
  OBVIOUS
<1>b. PICK a, b : a = LeafPos(cells, low) /\ b = PosAbove(cells, high)
  OBVIOUS
<1>c. PICK taken : taken = SubSeq(cells, a, b - 1)
  OBVIOUS
<1>1. /\ cells \in Seq(LeafCell) /\ Cells(cells)
      /\ \A i \in 1 .. Len(cells) : cells[i] \in Range(cells) /\ cells[i].key \in Int
      /\ \A c \in Range(cells) : \E i \in 1 .. Len(cells) : cells[i] = c
  BY <1>a, LeafFields, RangeElements DEF Cells
<1>2. Len(cells) \in Nat
  BY <1>1
<1>3. /\ a \in 1 .. Len(cells) + 1 /\ \A j \in 1 .. a - 1 : cells[j].key < low
      /\ a <= Len(cells) => cells[a].key >= low
  BY <1>1, <1>b, LeafPosFacts
<1>4. /\ b \in 1 .. Len(cells) + 1 /\ \A j \in 1 .. b - 1 : cells[j].key <= high
      /\ b <= Len(cells) => cells[b].key > high
  BY <1>1, <1>b, PosAboveFacts
<1>5. \A i, j \in 1 .. Len(cells) : i < j => cells[i].key < cells[j].key
  BY <1>a DEF Sorted
<1>6. a <= b
  <2> SUFFICES ASSUME b < a PROVE FALSE
    BY <1>2, <1>3, <1>4
  <2>1. b \in 1 .. a - 1 /\ b \in 1 .. Len(cells) /\ b <= Len(cells)
    BY <1>2, <1>3, <1>4
  <2>2. cells[b].key < low /\ cells[b].key > high /\ cells[b].key \in Int
    BY <1>1, <1>3, <1>4, <2>1
  <2> QED
    BY <2>2
<1>0. PICK N \in Nat : N = Len(cells) /\ 1 <= a /\ a <= b /\ b <= N + 1 /\ a \in Int /\ b \in Int
  BY <1>2, <1>3, <1>4, <1>6
<1>7. \A i \in 1 .. N : low <= cells[i].key /\ cells[i].key <= high <=> a <= i /\ i <= b - 1
  <2> TAKE i \in 1 .. N
  <2>0. cells[i].key \in Int
    BY <1>0, <1>1
  <2>1. CASE i < a
    <3>1. i \in 1 .. a - 1
      BY <1>0, <2>1
    <3>2. cells[i].key < low
      BY <1>3, <3>1
    <3> QED
      BY <1>0, <2>0, <2>1, <3>2
  <2>2. CASE i >= b
    <3>1. b \in 1 .. N
      BY <1>0, <2>2
    <3>2. cells[b].key > high /\ cells[b].key \in Int
      BY <1>0, <1>1, <1>4, <3>1
    <3>3. b < i => cells[b].key < cells[i].key
      BY <1>0, <1>5, <3>1
    <3>4. cells[i].key > high
      <4>1. CASE b = i
        BY <3>2, <4>1
      <4>2. CASE b < i
        BY <2>0, <3>2, <3>3, <4>2
      <4> QED
        BY <1>0, <2>2, <4>1, <4>2
    <3> QED
      BY <1>0, <2>0, <2>2, <3>4
  <2>3. CASE a <= i /\ i < b
    <3>1. i \in 1 .. b - 1 /\ a \in 1 .. N
      BY <1>0, <2>3
    <3>2. cells[i].key <= high /\ cells[a].key >= low /\ cells[a].key \in Int
      BY <1>0, <1>1, <1>3, <1>4, <3>1
    <3>3. a < i => cells[a].key < cells[i].key
      BY <1>0, <1>5, <3>1
    <3>4. low <= cells[i].key
      <4>1. CASE a = i
        BY <3>2, <4>1
      <4>2. CASE a < i
        BY <2>0, <3>2, <3>3, <4>2
      <4> QED
        BY <1>0, <2>3, <4>1, <4>2
    <3> QED
      BY <1>0, <2>3, <3>2, <3>4
  <2> QED
    BY <1>0, <2>1, <2>2, <2>3
<1>8. /\ taken \in Seq(LeafCell) /\ Len(taken) = b - a
      /\ \A i \in 1 .. b - a : taken[i] = cells[a + i - 1]
  <2>1. PICK e : e = b - 1 /\ e \in a - 1 .. N /\ e - a + 1 = b - a
    BY <1>0
  <2>2. taken = SubSeq(cells, a, e) /\ a \in 1 .. N + 1
    BY <1>0, <1>c, <2>1
  <2>3. /\ SubSeq(cells, a, e) \in Seq(LeafCell) /\ Len(SubSeq(cells, a, e)) = e - a + 1
        /\ \A i \in 1 .. e - a + 1 : SubSeq(cells, a, e)[i] = cells[a + i - 1]
    BY <1>0, <1>1, <2>1, <2>2, SubSeqElements
  <2> QED
    BY <2>1, <2>2, <2>3
<1>9. Sorted(taken)
  <2> SUFFICES ASSUME NEW i \in 1 .. b - a, NEW j \in 1 .. b - a, i < j
               PROVE  taken[i].key < taken[j].key
    BY <1>8 DEF Sorted
  <2>1. a + i - 1 \in 1 .. N /\ a + j - 1 \in 1 .. N /\ a + i - 1 < a + j - 1
    BY <1>0
  <2>2. taken[i] = cells[a + i - 1] /\ taken[j] = cells[a + j - 1]
    BY <1>8
  <2> QED
    BY <1>0, <1>5, <2>1, <2>2
<1>10. Range(taken) = {c \in Range(cells) : low <= c.key /\ c.key <= high}
  <2>1. /\ \A i \in 1 .. b - a : taken[i] \in Range(taken)
        /\ \A c \in Range(taken) : \E i \in 1 .. b - a : taken[i] = c
    <3>1. taken \in Seq(LeafCell) /\ Len(taken) = b - a
      BY <1>8
    <3>2. /\ \A i \in 1 .. Len(taken) : taken[i] \in Range(taken)
          /\ \A c \in Range(taken) : \E i \in 1 .. Len(taken) : taken[i] = c
      BY <3>1, RangeElements
    <3> QED
      BY <3>1, <3>2
  <2>2. ASSUME NEW c \in Range(taken)
        PROVE  c \in Range(cells) /\ low <= c.key /\ c.key <= high
    <3>1. PICK i \in 1 .. b - a : taken[i] = c
      BY <2>1
    <3>2. PICK j \in 1 .. N : j = a + i - 1 /\ a <= j /\ j <= b - 1
      <4>1. a + i - 1 \in 1 .. N /\ a <= a + i - 1 /\ a + i - 1 <= b - 1
        BY <1>0
      <4> QED
        BY <4>1
    <3>3. c = cells[j]
      BY <1>8, <3>1, <3>2
    <3> QED
      BY <1>0, <1>1, <1>7, <3>2, <3>3
  <2>3. ASSUME NEW c \in Range(cells), low <= c.key, c.key <= high
        PROVE  c \in Range(taken)
    <3>1. PICK j \in 1 .. N : cells[j] = c
      BY <1>0, <1>1
    <3>2. a <= j /\ j <= b - 1
      BY <1>7, <2>3, <3>1
    <3>3. PICK i \in 1 .. b - a : a + i - 1 = j
      <4>1. j - a + 1 \in 1 .. b - a /\ a + (j - a + 1) - 1 = j
        BY <1>0, <3>2
      <4> QED
        BY <4>1
    <3>4. taken[i] = c
      BY <1>8, <3>1, <3>3
    <3> QED
      BY <2>1, <3>4
  <2> QED
    BY <2>2, <2>3
<1>11. b <= Len(cells) => \E c \in Range(cells) : c.key > high
  BY <1>1, <1>2, <1>4
<1>12. Taken(node, low, high) = taken
  BY <1>a, <1>b, <1>c DEF Taken
<1> QED
  BY <1>8, <1>9, <1>10, <1>11, <1>12, <1>a, <1>b

\* Results followed by cells with greater keys.
LEMMA SortedRows ==
  ASSUME NEW s \in Seq(LeafCell), NEW t \in Seq(LeafCell), Sorted(s), Sorted(t),
         \A c \in Range(s), d \in Range(t) : c.key < d.key
  PROVE  /\ s \o t \in Seq(LeafCell) /\ Sorted(s \o t)
         /\ Range(s \o t) = Range(s) \cup Range(t)
<1> PICK u : u = s \o t
  OBVIOUS
<1> PICK m, n : m = Len(s) /\ n = Len(t)
  OBVIOUS
<1>1. m \in Nat /\ n \in Nat
  OBVIOUS
<1>2. /\ u \in Seq(LeafCell) /\ Len(u) = m + n
      /\ \A i \in 1 .. m + n : u[i] = IF i <= m THEN s[i] ELSE t[i - m]
  <2>1. u \in Seq(LeafCell)
    OBVIOUS
  <2> QED
    BY <2>1
<1>3. /\ \A i \in 1 .. m : s[i] \in Range(s)
      /\ \A c \in Range(s) : \E i \in 1 .. m : s[i] = c
      /\ \A i \in 1 .. n : t[i] \in Range(t)
      /\ \A c \in Range(t) : \E i \in 1 .. n : t[i] = c
      /\ \A i \in 1 .. m + n : u[i] \in Range(u)
      /\ \A c \in Range(u) : \E i \in 1 .. m + n : u[i] = c
  <2>1. /\ \A i \in 1 .. m : s[i] \in Range(s)
        /\ \A c \in Range(s) : \E i \in 1 .. m : s[i] = c
        /\ \A i \in 1 .. n : t[i] \in Range(t)
        /\ \A c \in Range(t) : \E i \in 1 .. n : t[i] = c
    BY RangeElements
  <2>2. /\ \A i \in 1 .. Len(u) : u[i] \in Range(u)
        /\ \A c \in Range(u) : \E i \in 1 .. Len(u) : u[i] = c
    <3>1. u \in Seq(LeafCell)
      BY <1>2
    <3> QED
      BY <3>1, RangeElements
  <2> QED
    BY <1>2, <2>1, <2>2
<1>4. Sorted(u)
  <2> SUFFICES ASSUME NEW i \in 1 .. m + n, NEW j \in 1 .. m + n, i < j
               PROVE  u[i].key < u[j].key
    BY <1>2 DEF Sorted
  <2>1. CASE j <= m
    <3>1. i \in 1 .. m /\ j \in 1 .. m /\ u[i] = s[i] /\ u[j] = s[j]
      BY <1>1, <1>2, <2>1
    <3> QED
      BY <3>1 DEF Sorted
  <2>2. CASE i > m
    <3>1. /\ i - m \in 1 .. n /\ j - m \in 1 .. n /\ i - m < j - m
          /\ u[i] = t[i - m] /\ u[j] = t[j - m]
      BY <1>1, <1>2, <2>2
    <3> QED
      BY <3>1 DEF Sorted
  <2>3. CASE i <= m /\ j > m
    <3>1. i \in 1 .. m /\ j - m \in 1 .. n /\ u[i] = s[i] /\ u[j] = t[j - m]
      BY <1>1, <1>2, <2>3
    <3> QED
      BY <1>3, <3>1
  <2> QED
    BY <1>1, <2>1, <2>2, <2>3
<1>5. Range(u) = Range(s) \cup Range(t)
  <2>1. ASSUME NEW c \in Range(u) PROVE c \in Range(s) \cup Range(t)
    <3>1. PICK i \in 1 .. m + n : u[i] = c
      BY <1>3
    <3>2. i <= m => i \in 1 .. m
      BY <1>1
    <3>3. ~(i <= m) => i - m \in 1 .. n
      BY <1>1
    <3> QED
      BY <1>2, <1>3, <3>1, <3>2, <3>3
  <2>2. ASSUME NEW c \in Range(s) PROVE c \in Range(u)
    <3>1. PICK i \in 1 .. m : s[i] = c
      BY <1>3
    <3>2. i \in 1 .. m + n /\ i <= m
      BY <1>1
    <3> QED
      BY <1>2, <1>3, <3>1, <3>2
  <2>3. ASSUME NEW c \in Range(t) PROVE c \in Range(u)
    <3>1. PICK i \in 1 .. n : t[i] = c
      BY <1>3
    <3>2. m + i \in 1 .. m + n /\ ~(m + i <= m) /\ (m + i) - m = i
      BY <1>1
    <3>3. u[m + i] = t[i]
      BY <1>2, <3>2
    <3> QED
      BY <1>3, <3>1, <3>2, <3>3
  <2> QED
    BY <2>1, <2>2, <2>3
<1> QED
  BY <1>2, <1>4, <1>5

\* RangeScan's loop does turn by turn what ScanTurn says.
LEMMA ScanTurns ==
  ASSUME NEW low, NEW high
  PROVE  \A n \in 0 .. MaxPages :
            Scan(low, high)[n] = IF n = 0 THEN [page |-> FindLeafPageId(low), results |-> << >>]
                              ELSE ScanTurn(Scan(low, high)[n - 1], low, high)
<1> DEFINE start == [page |-> FindLeafPageId(low), results |-> << >>]
           IsLoop(f, m) == f = [n \in 0 .. m |-> IF n = 0 THEN start ELSE ScanTurn(f[n - 1], low, high)]
           Exists(m) == \E f : IsLoop(f, m)
           T == {m \in 0 .. MaxPages : ~Exists(m)}
<1>0. MaxPages \in Nat
  BY BTreeBoundsAssumption
<1>1. T = {}
  <2>1. SUFFICES ASSUME T # {} PROVE FALSE
    OBVIOUS
  <2>2. T \in SUBSET Nat
    BY <1>0
  <2>3. PICK m \in T : \A k \in T : m <= k
    <3> HIDE DEF T
    <3> QED
      BY <2>1, <2>2, LeastNatural
  <2>4. m \in 0 .. MaxPages /\ ~Exists(m) /\ m \in Nat
    BY <1>0
  <2>5. CASE m = 0
    <3> DEFINE f == [n \in 0 .. m |-> start]
    <3>1. \A n \in 0 .. m : n = 0
      BY <2>5
    <3>2. IsLoop(f, m)
      BY <3>1
    <3> QED
      BY <2>4, <3>2
  <2>6. CASE m # 0
    <3>1. m - 1 \in 0 .. MaxPages /\ ~(m <= m - 1)
      BY <1>0, <2>4, <2>6
    <3>2. Exists(m - 1)
      BY <2>3, <3>1
    <3>3. PICK g : g = [n \in 0 .. m - 1 |-> IF n = 0 THEN start ELSE ScanTurn(g[n - 1], low, high)]
      BY <3>2
    <3>4. \A n \in 0 .. m - 1 : g[n] = IF n = 0 THEN start ELSE ScanTurn(g[n - 1], low, high)
      BY <3>3
    <3> DEFINE f == [n \in 0 .. m |-> IF n = m THEN ScanTurn(g[m - 1], low, high) ELSE g[n]]
    <3>5. \A n \in 0 .. m : f[n] = IF n = 0 THEN start ELSE ScanTurn(f[n - 1], low, high)
      <4> SUFFICES ASSUME NEW n \in 0 .. m
                   PROVE  f[n] = IF n = 0 THEN start ELSE ScanTurn(f[n - 1], low, high)
        OBVIOUS
      <4>1. CASE n = m
        <5>1. m - 1 \in 0 .. m /\ m - 1 # m /\ n # 0
          BY <2>4, <2>6, <4>1
        <5>2. f[n] = ScanTurn(g[m - 1], low, high) /\ f[n - 1] = g[m - 1]
          BY <4>1, <5>1
        <5> HIDE DEF f
        <5> QED
          BY <5>1, <5>2
      <4>2. CASE n # m /\ n # 0
        <5>1. n \in 0 .. m - 1 /\ n - 1 \in 0 .. m /\ n - 1 # m
          BY <2>4, <4>2
        <5>2. f[n] = g[n] /\ f[n - 1] = g[n - 1]
          BY <4>2, <5>1
        <5> HIDE DEF f
        <5> QED
          BY <3>4, <4>2, <5>1, <5>2
      <4>3. CASE n = 0 /\ n # m
        <5>1. n \in 0 .. m - 1
          BY <2>4, <4>3
        <5>2. f[n] = g[n]
          BY <4>3
        <5> HIDE DEF f
        <5> QED
          BY <3>4, <4>3, <5>1, <5>2
      <4> QED
        BY <4>1, <4>2, <4>3
    <3>6. IsLoop(f, m)
      <4>1. f = [n \in 0 .. m |-> f[n]]
        OBVIOUS
      <4> HIDE DEF f
      <4> QED
        BY <3>5, <4>1
    <3> QED
      BY <2>4, <3>6
  <2> QED
    BY <2>5, <2>6
<1>2. Exists(MaxPages)
  BY <1>0, <1>1
<1>3. IsLoop(Scan(low, high), MaxPages)
  BY <1>2 DEF Scan
<1> HIDE DEF start
<1>4. \A n \in 0 .. MaxPages : Scan(low, high)[n] = IF n = 0 THEN start ELSE ScanTurn(Scan(low, high)[n - 1], low, high)
  <2> DEFINE d == Scan(low, high)
  <2>1. d = [n \in 0 .. MaxPages |-> IF n = 0 THEN start ELSE ScanTurn(d[n - 1], low, high)]
    BY <1>3
  <2> HIDE DEF d
  <2>2. \A n \in 0 .. MaxPages : d[n] = IF n = 0 THEN start ELSE ScanTurn(d[n - 1], low, high)
    BY <2>1
  <2> QED
    BY <2>2 DEF d
<1> QED
  BY <1>4 DEF start

\* The cells Get finds for some keys.
Found(keys) == {[key |-> k, value |-> Get(k)] : k \in {k \in keys : Get(k) # Absent}}

\* A leaf of the tree has the cells Get finds for its keys.
LEMMA CellsAreFound ==
  ASSUME root_page_id \in PageId, NEW home \in Homes, NEW level \in Levels, NEW r,
         SearchTree(mem, root_page_id, home, level, NoPage, r),
         NEW p \in PageId, home[p] # {}, mem[p].type = "LEAF"
  PROVE  /\ mem[p] \in LeafNode /\ Sorted(mem[p].cells)
         /\ Range(mem[p].cells) = Found(home[p])
<1> PICK node : node = mem[p]
  OBVIOUS
<1>1. NodeIsRouted(node, p, home, level, NoPage, r)
  BY DEF SearchTree
<1>2. /\ node \in LeafNode /\ Sorted(node.cells) /\ level[p] = 0
      /\ \A i \in 1 .. Len(node.cells) : node.cells[i].key \in home[p]
  <2>1. node \in Node /\ Sorted(node.cells)
    BY <1>1, RoutedNode
  <2> QED
    BY <1>1, <2>1, NodeOfType DEF NodeIsRouted
<1>3. \A k \in home[p] : k \in Key
  BY DEF Homes
<1>4. \A c \in Range(node.cells) : c \in LeafCell /\ c.key \in home[p] /\ c.value \in Value
                                  /\ c = [key |-> c.key, value |-> c.value]
  <2>1. \A c \in Range(node.cells) : \E i \in 1 .. Len(node.cells) : node.cells[i] = c
    BY <1>2, LeafFields, RangeElements
  <2>2. \A c \in Range(node.cells) : c \in LeafCell
    BY <1>2, LeafFields
  <2>3. \A c \in LeafCell : c.value \in Value /\ c = [key |-> c.key, value |-> c.value]
    BY DEF LeafCell
  <2> QED
    BY <1>2, <2>1, <2>2, <2>3
<1>5. \A k \in home[p] : Get(k) = Lookup(node, k)
  <2> TAKE k \in home[p]
  <2>1. PICK q : q = FindLeafPageId(k)
    OBVIOUS
  <2>2. k \in Key
    BY <1>3
  <2>3. \A x \in PageId : k \in home[x] /\ level[x] = 0 => x = q
    BY <2>1, <2>2, SearchEnds
  <2> QED
    BY <1>2, <2>1, <2>3 DEF Get
<1>6. ASSUME NEW c \in Range(node.cells) PROVE c \in Found(home[p])
  <2>1. c.key \in home[p] /\ c.key \in Key /\ c.value # Absent /\ c = [key |-> c.key, value |-> c.value]
    BY <1>3, <1>4, ValueAssumption
  <2>2. Lookup(node, c.key) = c.value
    BY <1>2, <2>1, LookupFacts
  <2>3. Get(c.key) = c.value
    BY <1>5, <2>1, <2>2
  <2> QED
    BY <2>1, <2>3 DEF Found
<1>7. ASSUME NEW c \in Found(home[p]) PROVE c \in Range(node.cells)
  <2>1. PICK k \in home[p] : Get(k) # Absent /\ c = [key |-> k, value |-> Get(k)]
    BY <1>7 DEF Found
  <2>2. Lookup(node, k) = Get(k) /\ k \in Key
    BY <1>3, <1>5
  <2>3. PICK d \in Range(node.cells) : d.key = k
    BY <1>2, <2>1, <2>2, LookupFacts
  <2>4. d.value = Get(k)
    BY <1>2, <2>2, <2>3, LookupFacts
  <2>5. d = [key |-> k, value |-> Get(k)]
    BY <1>4, <2>3, <2>4
  <2> QED
    BY <2>1, <2>5
<1> QED
  BY <1>2, <1>6, <1>7

\* The keys before the next leaf are those before a leaf and its own.
LEMMA RowStep ==
  ASSUME NEW S \in SUBSET Key, S # {}, NEW T \in SUBSET Key, FollowedBy(S, T), NEW k \in Key
  PROVE  /\ (\A t \in T : k < t) <=> k \in S \/ \A s \in S : k < s
         /\ \A c \in S : k < c => k \in S \/ \A s \in S : k < s
<1>1. \A x \in Key : x \in Int
  BY KeyAssumption
<1>2. /\ \A s \in S, t \in T : s < t
      /\ \A s \in S, l \in Key : s <= l => l \in S \/ \E t \in T : t <= l
  BY DEF FollowedBy
<1>3. PICK e \in S : e \in Int
  BY <1>1
<1>4. ASSUME \A s \in S : k < s, NEW t \in T PROVE k < t
  <2>1. k < e /\ e < t /\ t \in Int /\ k \in Int
    BY <1>1, <1>2, <1>4
  <2> QED
    BY <1>3, <2>1
<1>5. ASSUME ~\A s \in S : k < s, k \notin S PROVE \E t \in T : t <= k
  <2>1. PICK s \in S : ~(k < s)
    BY <1>5
  <2>2. s <= k
    BY <1>1, <2>1
  <2> QED
    BY <1>2, <1>5, <2>2
<1>6. (\A t \in T : k < t) => k \in S \/ \A s \in S : k < s
  <2> SUFFICES ASSUME \A t \in T : k < t, k \notin S, ~\A s \in S : k < s PROVE FALSE
    OBVIOUS
  <2>1. PICK t \in T : t <= k
    BY <1>5
  <2>2. k < t /\ k \in Int /\ t \in Int
    BY <1>1
  <2> QED
    BY <2>1, <2>2
<1>7. ASSUME NEW c \in S, k < c, k \notin S, ~\A s \in S : k < s PROVE FALSE
  <2>1. PICK t \in T : t <= k
    BY <1>5, <1>7
  <2>2. c < t /\ c \in Int /\ t \in Int /\ k \in Int
    BY <1>1, <1>2
  <2> QED
    BY <1>7, <2>1, <2>2
<1> QED
  BY <1>2, <1>4, <1>6, <1>7

\* The keys of the range that come before page p, all of them if p is no
\* page.
Reached(home, low, high, p) ==
    {k \in Key : low <= k /\ k <= high /\ (p = NoPage \/ \A h \in home[p] : k < h)}

\* After n turns: the cells found for the keys before the page the scan is
\* at, and n pages with lesser keys.
ScanIsAt(at, home, low, high, n) ==
    /\ at.results \in Seq(LeafCell) /\ Sorted(at.results)
    /\ Range(at.results) = Found(Reached(home, low, high, at.page))
    /\ at.page # NoPage =>
          /\ at.page \in PageId /\ home[at.page] # {} /\ mem[at.page].type = "LEAF"
          /\ \E V \in SUBSET PageId :
                /\ Cardinality(V) = n
                /\ \A p \in V : home[p] # {} /\ \A k \in home[p], l \in home[at.page] : k < l

LEMMA FoundParts ==
  ASSUME NEW A, NEW B, NEW C, \A k : k \in C <=> k \in A \/ k \in B
  PROVE  Found(C) = Found(A) \cup Found(B)
BY DEF Found

LEMMA FoundCells ==
  ASSUME NEW S, NEW c
  PROVE  c \in Found(S) <=> \E k \in S : Get(k) # Absent /\ c = [key |-> k, value |-> Get(k)]
BY DEF Found

KeysIn(keys, low, high) == {k \in keys : low <= k /\ k <= high}

LEMMA FoundInRange ==
  ASSUME NEW S, NEW low, NEW high, NEW c
  PROVE  c \in Found(KeysIn(S, low, high)) <=> c \in Found(S) /\ low <= c.key /\ c.key <= high
<1>1. \A k : [key |-> k, value |-> Get(k)].key = k
  OBVIOUS
<1>2. ASSUME c \in Found(S), low <= c.key, c.key <= high
      PROVE  c \in Found(KeysIn(S, low, high))
  <2>1. PICK k \in S : Get(k) # Absent /\ c = [key |-> k, value |-> Get(k)]
    BY <1>2, FoundCells
  <2>2. k \in KeysIn(S, low, high)
    BY <1>2, <2>1 DEF KeysIn
  <2> QED
    BY <2>1, <2>2, FoundCells
<1>3. ASSUME c \in Found(KeysIn(S, low, high))
      PROVE  c \in Found(S) /\ low <= c.key /\ c.key <= high
  <2>1. PICK k \in KeysIn(S, low, high) : Get(k) # Absent /\ c = [key |-> k, value |-> Get(k)]
    BY <1>3, FoundCells
  <2>2. k \in S /\ low <= k /\ k <= high /\ c.key = k
    BY <2>1 DEF KeysIn
  <2> QED
    BY <2>1, <2>2, FoundCells
<1> QED
  BY <1>2, <1>3

\* One more turn of a scan.
LEMMA ScanStep ==
  ASSUME root_page_id \in PageId, NEW home \in Homes, NEW level \in Levels, NEW r,
         SearchTree(mem, root_page_id, home, level, NoPage, r), Chained(mem, home),
         NEW low \in Key, NEW high \in Key, low <= high, NEW n \in Nat,
         NEW at, ScanIsAt(at, home, low, high, n), NEW next, next = ScanTurn(at, low, high)
  PROVE  ScanIsAt(next, home, low, high, n + 1)
<1>1. CASE at.page = NoPage
  BY <1>1 DEF ScanTurn, ScanIsAt
<1>2. CASE at.page # NoPage
  <2>a. PICK p : p = at.page
    OBVIOUS
  <2>b. PICK node : node = mem[p]
    OBVIOUS
  <2>c. PICK old, new : old = at.results /\ new = Taken(node, low, high)
    OBVIOUS
  <2>0. low \in Int /\ high \in Int /\ \A k \in Key : k \in Int
    BY KeyAssumption
  <2>1. /\ p \in PageId /\ p # NoPage /\ home[p] # {} /\ mem[p].type = "LEAF" /\ home[p] \in SUBSET Key
        /\ old \in Seq(LeafCell) /\ Sorted(old) /\ Range(old) = Found(Reached(home, low, high, p))
    BY <1>2, <2>a, <2>c DEF ScanIsAt, Homes
  <2>2. node \in LeafNode /\ Sorted(node.cells) /\ Range(node.cells) = Found(home[p])
    BY <2>1, <2>b, CellsAreFound
  <2>3. /\ new \in Seq(LeafCell) /\ Sorted(new)
        /\ Range(new) = {c \in Range(node.cells) : low <= c.key /\ c.key <= high}
        /\ PosAbove(node.cells, high) <= Len(node.cells) =>
              \E c \in Range(node.cells) : c.key > high
    BY <2>0, <2>2, <2>c, TakenOfLeaf
  <2>4. Range(new) = Found(KeysIn(home[p], low, high))
    <3>1. \A c : c \in Range(new) <=> c \in Found(home[p]) /\ low <= c.key /\ c.key <= high
      BY <2>2, <2>3
    <3> QED
      BY <3>1, FoundInRange
  <2>5. \A c \in Range(old), d \in Range(new) : c.key < d.key
    <3> TAKE c \in Range(old), d \in Range(new)
    <3>1. PICK k \in Reached(home, low, high, p) : c = [key |-> k, value |-> Get(k)]
      BY <2>1, FoundCells
    <3>2. PICK l \in home[p] : d = [key |-> l, value |-> Get(l)]
      BY <2>4, FoundCells DEF KeysIn
    <3>3. k < l
      BY <2>1, <3>1, <3>2 DEF Reached
    <3> QED
      BY <3>1, <3>2, <3>3
  <2>6. PICK both : both = old \o new
    OBVIOUS
  <2>7. both \in Seq(LeafCell) /\ Sorted(both) /\ Range(both) = Range(old) \cup Range(new)
    BY <2>1, <2>3, <2>5, <2>6, SortedRows
  <2>8. PICK q : q = IF PosAbove(node.cells, high) <= Len(node.cells) THEN NoPage ELSE node.next_leaf
    OBVIOUS
  <2>9. next.page = q /\ next.results = both
    BY <1>2, <2>6, <2>8, <2>a, <2>b, <2>c DEF ScanTurn, Taken
  <2>10. PICK T : T = IF node.next_leaf = NoPage THEN {} ELSE home[node.next_leaf]
    OBVIOUS
  <2>11. /\ T \in SUBSET Key /\ FollowedBy(home[p], T)
         /\ node.next_leaf # NoPage => /\ node.next_leaf \in PageId /\ home[node.next_leaf] # {}
                                       /\ mem[node.next_leaf].type = "LEAF"
    BY <2>1, <2>10, <2>b DEF Chained, Homes
  <2>12. ASSUME NEW k \in Key, low <= k, k <= high
         PROVE  (q = NoPage \/ \A h \in home[q] : k < h) <=> k \in home[p] \/ \A h \in home[p] : k < h
    <3>1. /\ (\A t \in T : k < t) <=> k \in home[p] \/ \A h \in home[p] : k < h
          /\ \A c \in home[p] : k < c => k \in home[p] \/ \A h \in home[p] : k < h
      BY <2>1, <2>11, RowStep
    <3>2. CASE PosAbove(node.cells, high) <= Len(node.cells)
      <4>1. PICK c \in Found(home[p]) : c.key > high
        BY <2>2, <2>3, <3>2
      <4>2. PICK l \in home[p] : c = [key |-> l, value |-> Get(l)]
        BY FoundCells
      <4>3. k < l
        <5>1. l > high /\ l \in Int /\ k \in Int
          BY <2>0, <2>1, <4>1, <4>2
        <5> QED
          BY <2>0, <2>12, <5>1
      <4> QED
        BY <2>8, <3>1, <3>2, <4>3
    <3>3. CASE ~(PosAbove(node.cells, high) <= Len(node.cells))
      <4>1. q = node.next_leaf
        BY <2>8, <3>3
      <4> QED
        BY <2>10, <3>1, <4>1
    <3> QED
      BY <3>2, <3>3
  <2>13. Range(both) = Found(Reached(home, low, high, q))
    <3>1. PICK A, B, C : /\ A = Reached(home, low, high, p) /\ C = Reached(home, low, high, q)
                         /\ B = KeysIn(home[p], low, high)
      OBVIOUS
    <3>2. \A k : k \in C <=> k \in A \/ k \in B
      BY <2>1, <2>12, <3>1 DEF Reached, KeysIn
    <3>3. Found(C) = Found(A) \cup Found(B)
      BY <3>2, FoundParts
    <3> QED
      BY <2>1, <2>4, <2>7, <3>1, <3>3
  <2>14. ASSUME q # NoPage
         PROVE  /\ q \in PageId /\ home[q] # {} /\ mem[q].type = "LEAF"
                /\ \E V \in SUBSET PageId :
                      /\ Cardinality(V) = n + 1
                      /\ \A x \in V : home[x] # {} /\ \A k \in home[x], l \in home[q] : k < l
    <3>1. q = node.next_leaf /\ q \in PageId /\ home[q] # {} /\ mem[q].type = "LEAF"
      BY <2>8, <2>11, <2>14
    <3>2. \A k \in home[p], l \in home[q] : k < l
      BY <2>10, <2>11, <2>14, <3>1 DEF FollowedBy
    <3>3. PICK V \in SUBSET PageId :
             /\ Cardinality(V) = n
             /\ \A x \in V : home[x] # {} /\ \A k \in home[x], l \in home[p] : k < l
      BY <1>2, <2>a DEF ScanIsAt
    <3>4. PICK e \in home[p] : e \in Int
      BY <2>0, <2>1
    <3>5. p \notin V
      BY <3>3, <3>4
    <3>6. IsFiniteSet(V)
      <4>1. IsFiniteSet(PageId)
        BY BTreeBoundsAssumption, FS_Interval DEF PageId
      <4> QED
        BY <4>1, FS_Subset
    <3>7. Cardinality(V \cup {p}) = n + 1
      BY <3>3, <3>5, <3>6, FS_AddElement
    <3>8. ASSUME NEW x \in V \cup {p}, NEW k \in home[x], NEW l \in home[q] PROVE k < l
      <4>1. CASE x = p
        BY <3>2, <4>1
      <4>2. CASE x \in V
        <5>1. k < e /\ e < l
          BY <3>2, <3>3, <4>2
        <5>2. k \in Int /\ l \in Int
          BY <2>0, <3>1, <4>2 DEF Homes
        <5> QED
          BY <3>4, <5>1, <5>2
      <4> QED
        BY <4>1, <4>2
    <3>9. \A x \in V \cup {p} : home[x] # {}
      BY <2>1, <3>3
    <3>10. V \cup {p} \in SUBSET PageId
      BY <2>1
    <3> QED
      BY <3>1, <3>7, <3>8, <3>9, <3>10
  <2> QED
    BY <2>7, <2>9, <2>13, <2>14 DEF ScanIsAt
<1> QED
  BY <1>1, <1>2

\* A scan returns the cells found for the keys of the range.
LEMMA ScanEnds ==
  ASSUME root_page_id \in PageId, NEW home \in Homes, NEW level \in Levels, NEW r,
         SearchTree(mem, root_page_id, home, level, NoPage, r), Chained(mem, home),
         NEW low \in Key, NEW high \in Key
  PROVE  /\ Sorted(RangeScan(low, high))
         /\ Range(RangeScan(low, high)) = Found({k \in Key : low <= k /\ k <= high})
<1>0. MaxPages \in Nat /\ low \in Int /\ high \in Int /\ \A k \in Key : k \in Int
  BY BTreeBoundsAssumption, KeyAssumption
<1>1. CASE low > high
  <2>1. RangeScan(low, high) = << >>
    BY <1>1 DEF RangeScan
  <2>2. Sorted(<< >>) /\ Range(<< >>) = {}
    BY DEF Sorted, Range
  <2>3. \A k \in Key : ~(low <= k /\ k <= high)
    BY <1>0, <1>1
  <2>4. Found({k \in Key : low <= k /\ k <= high}) = {}
    BY <2>3 DEF Found
  <2> QED
    BY <2>1, <2>2, <2>4
<1>2. CASE ~(low > high)
  <2>1. low <= high
    BY <1>0, <1>2
  <2> DEFINE d == Scan(low, high)
             T == {n \in 0 .. MaxPages : ~ScanIsAt(d[n], home, low, high, n)}
  <2>2. \A n \in 0 .. MaxPages : d[n] = IF n = 0 THEN [page |-> FindLeafPageId(low), results |-> << >>]
                                        ELSE ScanTurn(d[n - 1], low, high)
    BY ScanTurns
  <2> HIDE DEF d
  <2>3. ScanIsAt(d[0], home, low, high, 0)
    <3>1. PICK p : p = FindLeafPageId(low)
      OBVIOUS
    <3>2. p \in PageId /\ p # NoPage /\ low \in home[p] /\ mem[p].type = "LEAF"
      BY <3>1, SearchEnds
    <3>3. d[0].page = p /\ d[0].results = << >>
      BY <1>0, <2>2, <3>1
    <3>4. << >> \in Seq(LeafCell) /\ Sorted(<< >>) /\ Range(<< >>) = {}
      BY DEF Sorted, Range
    <3>5. Found(Reached(home, low, high, p)) = {}
      <4>1. \A k \in Key : low <= k => ~(k < low)
        BY <1>0
      <4>2. Reached(home, low, high, p) = {}
        BY <3>2, <4>1 DEF Reached
      <4> QED
        BY <4>2 DEF Found
    <3>6. {} \in SUBSET PageId /\ Cardinality({}) = 0
      BY FS_EmptySet
    <3> QED
      BY <3>2, <3>3, <3>4, <3>5, <3>6 DEF ScanIsAt
  <2>4. T = {}
    <3> SUFFICES ASSUME T # {} PROVE FALSE
      OBVIOUS
    <3>1. T \in SUBSET Nat
      BY <1>0
    <3>2. PICK n \in T : \A k \in T : n <= k
      <4> HIDE DEF T
      <4> QED
        BY <3>1, LeastNatural
    <3>3. n \in 0 .. MaxPages /\ ~ScanIsAt(d[n], home, low, high, n) /\ n # 0
      BY <2>3
    <3>4. PICK m \in Nat : m + 1 = n /\ m \in 0 .. MaxPages /\ ~(n <= m) /\ m = n - 1
      BY <1>0, <3>3
    <3>5. ScanIsAt(d[m], home, low, high, m)
      BY <3>2, <3>4
    <3>6. d[n] = ScanTurn(d[m], low, high)
      BY <2>2, <3>3, <3>4
    <3>7. ScanIsAt(d[n], home, low, high, m + 1)
      BY <2>1, <3>5, <3>6, ScanStep
    <3> QED
      BY <3>3, <3>4, <3>7
  <2>5. ScanIsAt(d[MaxPages], home, low, high, MaxPages)
    BY <1>0, <2>4
  <2>6. d[MaxPages].page = NoPage
    <3> SUFFICES ASSUME d[MaxPages].page # NoPage PROVE FALSE
      OBVIOUS
    <3>1. PICK p \in PageId : p = d[MaxPages].page /\ home[p] # {}
      BY <2>5 DEF ScanIsAt
    <3>2. PICK V \in SUBSET PageId :
             /\ Cardinality(V) = MaxPages
             /\ \A x \in V : home[x] # {} /\ \A k \in home[x], l \in home[p] : k < l
      BY <2>5, <3>1 DEF ScanIsAt
    <3>3. PICK e \in home[p] : e \in Int
      BY <1>0, <3>1 DEF Homes
    <3>4. p \notin V
      BY <3>2, <3>3
    <3>5. IsFiniteSet(PageId) /\ Cardinality(PageId) = MaxPages
      BY BTreeBoundsAssumption, FS_Interval DEF PageId
    <3>6. V = PageId
      BY <3>2, <3>5, FS_Subset
    <3> QED
      BY <3>4, <3>6
  <2>7. Reached(home, low, high, NoPage) = {k \in Key : low <= k /\ k <= high}
    BY DEF Reached
  <2>8. RangeScan(low, high) = d[MaxPages].results
    BY <1>2 DEF RangeScan, d
  <2> QED
    BY <2>5, <2>6, <2>7, <2>8 DEF ScanIsAt
<1> QED
  BY <1>1, <1>2

-----------------------------------------------------------------------------
(* Pointers. *)

LEMMA LeafIsSound ==
  ASSUME NEW node \in LeafNode, NEW log
  PROVE  NodeIsSound(node, log) <=>
            /\ Sorted(node.cells)
            /\ node.next_leaf # NoPage => log[node.next_leaf] # NoNode
<1>1. node.type = "LEAF" /\ node.next_leaf \in PageId \cup {NoPage}
  BY LeafFields
<1>2. Refs(node) = {node.next_leaf} \ {NoPage}
  BY <1>1 DEF Refs
<1> QED
  BY <1>1, <1>2 DEF NodeIsSound

LEMMA InternalIsSound ==
  ASSUME NEW node \in InternalNode, NEW log
  PROVE  NodeIsSound(node, log) <=>
            /\ Sorted(node.cells)
            /\ \A i \in 0 .. Len(node.cells) : log[ChildAt(node, i)] # NoNode
<1>1. node.type = "INTERNAL" /\ Len(node.cells) \in Nat
  BY InternalFields
<1>2. Refs(node) = {node.leftmost_child} \cup {node.cells[i].child : i \in 1 .. Len(node.cells)}
  BY <1>1 DEF Refs
<1>3. /\ ChildAt(node, 0) = node.leftmost_child /\ 0 \in 0 .. Len(node.cells)
      /\ \A i \in 1 .. Len(node.cells) : ChildAt(node, i) = node.cells[i].child /\ i \in 0 .. Len(node.cells)
      /\ \A i \in 0 .. Len(node.cells) : i = 0 \/ i \in 1 .. Len(node.cells)
  <2>1. \A i \in 1 .. Len(node.cells) : i # 0 /\ i \in 0 .. Len(node.cells)
    BY <1>1
  <2>2. 0 \in 0 .. Len(node.cells) /\ \A i \in 0 .. Len(node.cells) : i = 0 \/ i \in 1 .. Len(node.cells)
    BY <1>1
  <2> QED
    BY <2>1, <2>2 DEF ChildAt
<1>4. \A i \in 0 .. Len(node.cells) : ChildAt(node, i) \in Refs(node)
  BY <1>2, <1>3
<1>5. \A q \in Refs(node) : \E i \in 0 .. Len(node.cells) : q = ChildAt(node, i)
  BY <1>2, <1>3
<1>6. \A i \in 0 .. Len(node.cells) : ChildAt(node, i) \in PageId
  BY InternalFields
<1> QED
  BY <1>1, <1>4, <1>5, <1>6 DEF NodeIsSound

LEMMA MetaIsSound ==
  ASSUME NEW node \in MetaNode, NEW log
  PROVE  NodeIsSound(node, log) <=> log[node.root_page_id] # NoNode
<1>1. node.type = "METADATA" /\ node.root_page_id \in PageId
  BY DEF MetaNode
<1>2. Refs(node) = {node.root_page_id}
  BY <1>1 DEF Refs
<1> QED
  BY <1>1, <1>2 DEF NodeIsSound

\* The log grows, and each page is left alone, taken over from the other
\* side, or sound by itself.
SoundChange(content, log, after, grown) ==
    /\ \A q \in PageId : log[q] # NoNode => grown[q] # NoNode
    /\ \A p \in PageId : \/ after[p] = content[p] \/ after[p] = log[p]
                         \/ NodeIsSound(after[p], grown)
    /\ \A p \in PageId : \/ grown[p] = content[p] \/ grown[p] = log[p]
                         \/ NodeIsSound(grown[p], grown)

LEMMA SoundPages ==
  ASSUME NEW content, NEW log, PagesAreSound(content, log),
         NEW after, NEW grown, SoundChange(content, log, after, grown)
  PROVE  PagesAreSound(after, grown)
<1>1. \A node : NodeIsSound(node, log) => NodeIsSound(node, grown)
  BY DEF NodeIsSound, SoundChange
<1> QED
  BY <1>1 DEF PagesAreSound, SoundChange
=============================================================================
