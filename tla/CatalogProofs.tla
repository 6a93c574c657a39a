--------------------------- MODULE CatalogProofs ---------------------------
(***************************************************************************)
(* The row codec loses nothing, and the catalog keeps its invariant.       *)
(***************************************************************************)
EXTENDS Catalog, CollectionLemmas, FiniteSetTheorems

\* A declaration CreateTable accepts has one primary key, and
\* PrimaryKeyIndex finds it.
LEMMA KeyColumn ==
  ASSUME NEW columns \in Columns, ValidSchema(columns)
  PROVE  /\ PrimaryKeyIndex(columns) \in 1 .. Len(columns)
         /\ Encoded(columns) \subseteq 1 .. Len(columns)
         /\ \A i \in 1 .. Len(columns) :
               i \in Encoded(columns) <=> i # PrimaryKeyIndex(columns)
<1> DEFINE keys == {i \in 1 .. Len(columns) : columns[i].is_primary_key}
<1>1. Cardinality(keys) = 1
  BY DEF ValidSchema
<1>2. Len(columns) \in Nat
  BY ColumnsAssumption
<1>3. IsFiniteSet(keys)
  <2>1. IsFiniteSet(1 .. Len(columns)) /\ keys \subseteq 1 .. Len(columns)
    BY <1>2, FS_Interval
  <2> HIDE DEF keys
  <2> QED
    BY <2>1, FS_Subset
<1>4. PICK k : keys = {k}
  <2> HIDE DEF keys
  <2> QED
    BY <1>1, <1>3, FS_Singleton
<1>5. k \in 1 .. Len(columns) /\ columns[k].is_primary_key
      /\ \A j \in 1 .. k - 1 : ~columns[j].is_primary_key
  BY <1>2, <1>4
<1>6. PrimaryKeyIndex(columns) \in 1 .. Len(columns)
  BY <1>5 DEF PrimaryKeyIndex
<1> QED
  BY <1>6 DEF Encoded

\* The fields of a blob are apart: offsets are naturals, and no two encoded
\* columns have the same.
LEMMA FieldsAreApart ==
  ASSUME NEW columns \in Columns, ValidSchema(columns)
  PROVE  /\ \A i \in 1 .. Len(columns) : FieldOffset(columns, i) \in Nat
         /\ \A i, j \in Encoded(columns) :
               FieldOffset(columns, i) = FieldOffset(columns, j) => i = j
<1> DEFINE n == Len(columns)
           width(i) == IF i \in Encoded(columns) THEN ColumnWidth(columns[i]) ELSE 0
           w == [i \in 1 .. n |-> width(i)]
           f == Offsets(columns)
<1>1. n \in Nat /\ Encoded(columns) \subseteq 1 .. n
  BY ColumnsAssumption, KeyColumn
<1>2. \A i \in 1 .. n : w[i] \in Nat /\ (i \in Encoded(columns) => w[i] > 0)
  BY WidthAssumption DEF ColumnWidth
<1>3. PICK g : g = [i \in 1 .. n + 1 |-> IF i = 1 THEN 0 ELSE g[i - 1] + w[i - 1]]
  <2> HIDE DEF n, w
  <2> QED
    BY <1>1, RunningTotalExists
<1>4. \A i \in 1 .. n + 1 : i # 1 => w[i - 1] = width(i - 1)
  BY <1>1
<1>5. g = [i \in 1 .. n + 1 |-> IF i = 1 THEN 0 ELSE g[i - 1] + width(i - 1)]
  <2> HIDE DEF w, n
  <2> QED
    BY <1>3, <1>4
<1>6. f = [i \in 1 .. n + 1 |-> IF i = 1 THEN 0 ELSE f[i - 1] + width(i - 1)]
  BY <1>5 DEF Offsets
<1>7. \A i \in 1 .. n + 1 : f[i] = IF i = 1 THEN 0 ELSE f[i - 1] + w[i - 1]
  <2> HIDE DEF w, n, f
  <2> QED
    BY <1>4, <1>6
<1>8. \A j \in 1 .. n + 1 : f[j] \in Nat /\ \A i \in 1 .. n : i < j => f[i] + w[i] <= f[j]
  <2> HIDE DEF w, n, f
  <2> QED
    BY <1>1, <1>2, <1>7, RunningTotalGrows
<1>9. ASSUME NEW i \in Encoded(columns), NEW j \in Encoded(columns), f[i] = f[j]
      PROVE  i = j
  <2> HIDE DEF w, n, f
  <2>1. i \in 1 .. n /\ j \in 1 .. n /\ i \in 1 .. n + 1 /\ j \in 1 .. n + 1
    BY <1>1
  <2>2. w[i] \in Nat \ {0} /\ w[j] \in Nat \ {0} /\ f[i] \in Nat /\ f[j] \in Nat
    BY <1>2, <1>8, <2>1
  <2>3. ~(i < j)
    BY <1>8, <1>9, <2>1, <2>2
  <2>4. ~(j < i)
    BY <1>8, <1>9, <2>1, <2>2
  <2> QED
    BY <2>1, <2>3, <2>4
<1> QED
  BY <1>1, <1>8, <1>9 DEF FieldOffset

\* Decode gives back the row that was encoded.
LEMMA DecodeEncode ==
  ASSUME NEW columns \in Columns, ValidSchema(columns),
         NEW values \in Rows, ValidRow(columns, values)
  PROVE  Decode(columns, KeyOf(columns, values), Encode(columns, values)) = values
<1> DEFINE n == Len(columns)
           k == PrimaryKeyIndex(columns)
           blob == Encode(columns, values)
           row == Decode(columns, KeyOf(columns, values), blob)
<1>1. values \in Seq(Value) /\ Len(values) = n /\ n \in Nat
  BY RowsAssumption, ColumnsAssumption DEF ValidRow
<1>2. k \in 1 .. n /\ \A i \in 1 .. n : i \in Encoded(columns) <=> i # k
  BY KeyColumn
<1>3. ASSUME NEW i \in 1 .. n PROVE row[i] = values[i]
  <2>1. values[i] = [kind |-> values[i].kind, data |-> values[i].data]
    <3>1. values[i] \in Value
      BY <1>1
    <3> QED
      BY <3>1 DEF Value
  <2>2. CASE i = k
    BY <2>1, <2>2 DEF Decode, KeyOf, ValidRow
  <2>3. CASE i # k
    <3> DEFINE o == FieldOffset(columns, i)
    <3>1. i \in Encoded(columns)
      BY <1>2, <2>3
    <3>2. (CHOOSE j \in Encoded(columns) : FieldOffset(columns, j) = o) = i
      BY <3>1, FieldsAreApart
    <3>3. blob[o] = values[i].data
      BY <3>1, <3>2 DEF Encode
    <3>4. values[i].kind = columns[i].type
      BY <3>1 DEF ValidRow, Encodable
    <3>5. row[i] = [kind |-> columns[i].type, data |-> blob[o]]
      BY <2>3 DEF Decode
    <3> QED
      BY <2>1, <3>3, <3>4, <3>5
  <2> QED
    BY <2>2, <2>3
<1>4. row = [i \in 1 .. n |-> row[i]]
  BY DEF Decode
<1>5. values = [i \in 1 .. n |-> values[i]]
  BY <1>1
<1>6. \A i \in 1 .. n : row[i] = values[i]
  BY <1>3
<1>7. row = values
  <2> HIDE DEF row, n
  <2> QED
    BY <1>4, <1>5, <1>6
<1> QED
  BY <1>7

\* The cell of a row has an integer key, and fields at natural offsets.
LEMMA CellOfType ==
  ASSUME NEW columns \in Columns, ValidSchema(columns),
         NEW values \in Rows, ValidRow(columns, values)
  PROVE  /\ CellOf(columns, values).key = KeyOf(columns, values)
         /\ CellOf(columns, values).key \in Int
         /\ DOMAIN CellOf(columns, values).blob \subseteq Nat
<1>1. values \in Seq(Value) /\ Len(values) = Len(columns)
  BY RowsAssumption DEF ValidRow
<1>2. /\ PrimaryKeyIndex(columns) \in 1 .. Len(columns)
      /\ Encoded(columns) \subseteq 1 .. Len(columns)
  BY KeyColumn
<1>3. values[PrimaryKeyIndex(columns)] \in Value
  BY <1>1, <1>2
<1>4. KeyOf(columns, values) \in Int
  BY <1>3 DEF KeyOf, Value
<1>5. DOMAIN Encode(columns, values) \subseteq Nat
  BY <1>2, FieldsAreApart DEF Encode
<1> QED
  BY <1>4, <1>5 DEF CellOf

-----------------------------------------------------------------------------
(* Facts about a state that satisfies the invariant. *)

LEMMA SlotsAreNaturals == Slot \subseteq Nat \ {0} /\ IsFiniteSet(Slot)
<1>1. MAX_CATALOG_TABLES \in Nat
  BY CatalogBoundsAssumption
<1> QED
  BY <1>1, FS_Interval DEF Slot

\* Pages: 0 is the catalog page, and a page handed out is beyond all others.
LEMMA PagesFacts ==
  ASSUME CatalogInv
  PROVE  /\ on_log \subseteq PageId /\ next_page_id \in Nat
         /\ next_page_id \notin on_log
         /\ next_page_id < MaxPages => next_page_id \in PageId
         /\ pc # "closed" => next_page_id # 0
<1>1. MaxPages \in Nat
  BY CatalogBoundsAssumption
<1> QED
  BY <1>1 DEF CatalogInv, CatalogTypeOK, PagesAreInTrees, PageId

\* An entry in use leads to a tree that is all in the log.
LEMMA EntryFacts ==
  ASSUME CatalogInv, NEW i \in InUse(cat)
  PROVE  /\ i \in Slot
         /\ cat.tables[i] \in Entry
         /\ cat.tables[i].table_name \in Names
         /\ cat.tables[i].columns \in Columns
         /\ ValidSchema(cat.tables[i].columns)
         /\ cat.tables[i].root_page_id \in on_log \ {0}
         /\ TreeOf(i) \in on_log \ {0}
         /\ TreeOf(i) \in PageId
         /\ tree_of[TreeOf(i)] = TreeOf(i)
         /\ \A j \in InUse(cat) : i # j =>
               /\ cat.tables[j].table_name # cat.tables[i].table_name
               /\ TreeOf(j) # TreeOf(i)
<1>1. i \in Slot /\ cat.tables[i].in_use /\ cat.tables[i] \in Entry
  BY DEF InUse, CatalogInv, CatalogTypeOK
<1>2. /\ cat.tables[i].table_name \in Names
      /\ cat.tables[i].columns \in Columns
      /\ ValidSchema(cat.tables[i].columns)
      /\ cat.tables[i].root_page_id \in on_log \ {0}
  BY DEF CatalogInv, EntriesAreSound
<1>3. cat.tables[i].root_page_id \in PageId
  BY <1>2, PagesFacts
<1>4. TreeOf(i) \in on_log \ {0} /\ tree_of[TreeOf(i)] = TreeOf(i)
  BY <1>2, <1>3 DEF CatalogInv, PagesAreInTrees, TreeOf
<1>5. TreeOf(i) \in PageId
  BY <1>4, PagesFacts
<1>6. ASSUME NEW j \in InUse(cat), i # j
      PROVE  /\ cat.tables[j].table_name # cat.tables[i].table_name
             /\ TreeOf(j) # TreeOf(i)
  BY <1>6 DEF CatalogInv, PagesAreInTrees, TablesAreDisjoint, TreeOf
<1> QED
  BY <1>1, <1>2, <1>4, <1>5, <1>6

\* FindTableIndex finds the entry with the name, and there is only one.
LEMMA FoundTable ==
  ASSUME CatalogInv, pc # "closed", NEW name
  PROVE  /\ TableExists(name) <=> \E i \in InUse(cat) : cat.tables[i].table_name = name
         /\ FindTableIndex(name) # 0 <=> TableExists(name)
         /\ TableExists(name) =>
               /\ FindTableIndex(name) \in InUse(cat)
               /\ cat.tables[FindTableIndex(name)].table_name = name
               /\ tables[FindTableIndex(name)].columns
                     = cat.tables[FindTableIndex(name)].columns
<1> DEFINE found == {i \in Slot : tables[i].in_use /\ tables[i].table_name = name}
<1>1. \A i \in Slot : /\ tables[i].in_use <=> i \in InUse(cat)
                      /\ tables[i].in_use => /\ tables[i].table_name = cat.tables[i].table_name
                                             /\ tables[i].columns = cat.tables[i].columns
  BY DEF CatalogInv, HandlesMatch, InUse
<1>2. found \in SUBSET Nat /\ 0 \notin found
  BY SlotsAreNaturals
<1>3. found # {} => Min(found) \in found
  <2> HIDE DEF found
  <2> QED
    BY <1>2, MinOfNaturals
<1>4. FindTableIndex(name) = IF found = {} THEN 0 ELSE Min(found)
  BY DEF FindTableIndex
<1>5. TableExists(name) <=> found # {}
  <2> HIDE DEF found
  <2> QED
    BY <1>2, <1>3, <1>4 DEF TableExists
<1>6. found # {} => FindTableIndex(name) \in found
  <2> HIDE DEF found
  <2> QED
    BY <1>3, <1>4
<1>7. \A i \in InUse(cat) : i \in Slot
  BY DEF InUse
<1> QED
  BY <1>1, <1>5, <1>6, <1>7 DEF TableExists

\* Between two calls the tree GetTable returns has the root of the entry.
LEMMA RootOfTable ==
  ASSUME CatalogInv, pc = "idle", NEW i \in InUse(cat)
  PROVE  TreeRoot(i) = cat.tables[i].root_page_id
<1>1. i \in Slot /\ cat.tables[i].in_use
  BY DEF InUse
<1>2. tables[i].tree \in {NoPage, cat.tables[i].root_page_id}
  BY <1>1 DEF CatalogInv, HandlesMatch
<1> QED
  BY <1>2 DEF TreeRoot

-----------------------------------------------------------------------------
(* Steps. *)

\* The tables a step leaves as they are, apart from their counts and from a
\* root that moves within its tree.
TablesKept ==
    /\ cat' = cat_logged'
    /\ cat'.num_tables = cat.num_tables
    /\ \A i \in Slot : cat'.tables[i].in_use = cat.tables[i].in_use
    /\ \A i \in InUse(cat) :
          /\ cat'.tables[i].table_name = cat.tables[i].table_name
          /\ cat'.tables[i].columns = cat.tables[i].columns
          /\ cat'.tables[i].root_page_id \in on_log' \ {0}
          /\ tree_of'[cat'.tables[i].root_page_id] = TreeOf(i)

LEMMA KeptTables ==
  ASSUME CatalogInv, TablesKept
  PROVE  /\ InUse(cat') = InUse(cat)
         /\ EntriesAreSound'
         /\ TablesAreDisjoint'
<1>1. InUse(cat') = InUse(cat)
  BY DEF TablesKept, InUse
<1>2. EntriesAreSound'
  BY <1>1 DEF TablesKept, CatalogInv, EntriesAreSound
<1>3. /\ InUse(cat_logged') = InUse(cat)
      /\ cat_logged'.num_tables = Cardinality(InUse(cat))
  BY <1>1 DEF TablesKept, CatalogInv, PagesAreInTrees, TablesAreDisjoint
<1>4. ASSUME NEW i \in InUse(cat), NEW j \in InUse(cat), i # j
      PROVE  /\ cat_logged'.tables[i].table_name # cat_logged'.tables[j].table_name
             /\ tree_of'[cat_logged'.tables[i].root_page_id]
                   # tree_of'[cat_logged'.tables[j].root_page_id]
  BY <1>4, EntryFacts DEF TablesKept
<1>5. TablesAreDisjoint'
  BY <1>3, <1>4 DEF TablesAreDisjoint
<1> QED
  BY <1>1, <1>2, <1>5

LEMMA KeptCells ==
  ASSUME CatalogInv, TablesKept, UNCHANGED rows, torn \subseteq torn',
         \A i \in InUse(cat) : cells'[TreeOf(i)] = cells[TreeOf(i)]
  PROVE  CellsAreRows'
<1>1. InUse(cat') = InUse(cat)
  BY KeptTables
<1>2. ASSUME NEW name \in Names,
             \A i \in InUse(cat') : cat'.tables[i].table_name # name
      PROVE  rows'[name] = {}
  BY <1>1, <1>2 DEF TablesKept, CatalogInv, CellsAreRows
<1>3. ASSUME NEW i \in InUse(cat)
      PROVE  /\ \A r \in rows'[cat'.tables[i].table_name] : ValidRow(cat'.tables[i].columns, r)
             /\ \/ tree_of'[cat'.tables[i].root_page_id] \in torn'
                \/ cells'[tree_of'[cat'.tables[i].root_page_id]]
                      = {CellOf(cat'.tables[i].columns, r) : r \in rows'[cat'.tables[i].table_name]}
  <2>1. /\ cat'.tables[i].table_name = cat.tables[i].table_name
        /\ cat'.tables[i].columns = cat.tables[i].columns
        /\ tree_of'[cat'.tables[i].root_page_id] = TreeOf(i)
    BY DEF TablesKept
  <2>2. /\ \A r \in rows[cat.tables[i].table_name] : ValidRow(cat.tables[i].columns, r)
        /\ \/ TreeOf(i) \in torn
           \/ cells[TreeOf(i)]
                 = {CellOf(cat.tables[i].columns, r) : r \in rows[cat.tables[i].table_name]}
    BY DEF CatalogInv, CellsAreRows
  <2> QED
    BY <2>1, <2>2
<1> QED
  BY <1>1, <1>2, <1>3 DEF CellsAreRows, TreeOf

\* A page added to a tree changes no table.
LEMMA PageAdded ==
  ASSUME CatalogInv, pc # "closed", NEW a, AddPage(a),
         \/ a = next_page_id
         \/ a \in on_log \ {0} /\ tree_of[a] = a,
         UNCHANGED <<cat, cat_logged>>
  PROVE  /\ next_page_id \in PageId \ {0} /\ next_page_id \in on_log'
         /\ on_log' \in SUBSET PageId /\ on_log \subseteq on_log'
         /\ next_page_id' \in 0 .. MaxPages
         /\ tree_of' \in [PageId -> PageId \cup {NoPage}]
         /\ tree_of'[next_page_id] = a
         /\ \A p \in on_log : tree_of'[p] = tree_of[p]
         /\ PagesAreInTrees'
         /\ TablesKept
<1>1. /\ on_log \subseteq PageId /\ next_page_id \in Nat \ {0}
      /\ next_page_id \notin on_log /\ next_page_id \in PageId
      /\ MaxPages \in Nat /\ next_page_id < MaxPages
      /\ tree_of \in [PageId -> PageId \cup {NoPage}]
  BY PagesFacts, CatalogBoundsAssumption DEF AddPage, CatalogInv, CatalogTypeOK
<1>2. /\ tree_of' = [tree_of EXCEPT ![next_page_id] = a]
      /\ on_log' = on_log \cup {next_page_id}
      /\ next_page_id' = next_page_id + 1
      /\ on_log = 0 .. next_page_id - 1
      /\ cat' = cat /\ cat_logged' = cat_logged /\ cat = cat_logged
  BY DEF AddPage, CatalogInv, PagesAreInTrees
<1>3. a \in PageId
  BY <1>1
<1>4. /\ tree_of' \in [PageId -> PageId \cup {NoPage}]
      /\ tree_of'[next_page_id] = a
      /\ \A p \in PageId : p # next_page_id => tree_of'[p] = tree_of[p]
  BY <1>1, <1>2, <1>3
<1>5. on_log' = 0 .. next_page_id' - 1 /\ next_page_id' > 0 /\ next_page_id' \in 0 .. MaxPages
  BY <1>1, <1>2
<1>6. \A p \in PageId :
          IF p \in on_log' \ {0}
          THEN tree_of'[p] \in on_log' \ {0} /\ tree_of'[tree_of'[p]] = tree_of'[p]
          ELSE tree_of'[p] = NoPage
  <2> TAKE p \in PageId
  <2>1. IF p \in on_log \ {0}
        THEN tree_of[p] \in on_log \ {0} /\ tree_of[tree_of[p]] = tree_of[p]
        ELSE tree_of[p] = NoPage
    BY DEF CatalogInv, PagesAreInTrees
  <2>2. CASE p = next_page_id
    BY <1>1, <1>2, <1>3, <1>4, <2>2
  <2>3. CASE p # next_page_id
    BY <1>1, <1>2, <1>4, <2>1, <2>3
  <2> QED
    BY <2>2, <2>3
<1>7. PagesAreInTrees'
  BY <1>2, <1>5, <1>6 DEF PagesAreInTrees
<1>8. TablesKept
  <2>1. ASSUME NEW i \in InUse(cat)
        PROVE  /\ cat.tables[i].root_page_id \in on_log' \ {0}
               /\ tree_of'[cat.tables[i].root_page_id] = TreeOf(i)
    <3>1. cat.tables[i].root_page_id \in on_log \ {0}
      BY EntryFacts
    <3> QED
      BY <1>1, <1>2, <1>4, <3>1 DEF TreeOf
  <2> QED
    BY <1>2, <2>1 DEF TablesKept
<1> QED
  BY <1>1, <1>2, <1>4, <1>5, <1>7, <1>8

\* What is left to cover does not shrink where the cells stay.
LEMMA KeptCounts ==
  ASSUME CatalogInv, CatalogTypeOK', TablesKept,
         \A i \in InUse(cat) : cells'[TreeOf(i)] = cells[TreeOf(i)],
         \A i \in InUse(cat) :
            cat.tables[i].row_count + missed[i] + Pending(i)
               <= cat'.tables[i].row_count + missed'[i] + Pending(i)'
  PROVE  CountsCoverCells'
<1>1. InUse(cat') = InUse(cat)
  BY KeptTables
<1>2. ASSUME NEW i \in InUse(cat)
      PROVE  /\ IsFiniteSet(cells'[tree_of'[cat'.tables[i].root_page_id]])
             /\ Cardinality(cells'[tree_of'[cat'.tables[i].root_page_id]])
                   <= cat'.tables[i].row_count + missed'[i] + Pending(i)'
  <2>1. tree_of'[cat'.tables[i].root_page_id] = TreeOf(i)
    BY DEF TablesKept
  <2>2. /\ IsFiniteSet(cells[TreeOf(i)])
        /\ Cardinality(cells[TreeOf(i)]) <= cat.tables[i].row_count + missed[i] + Pending(i)
    BY DEF CatalogInv, CountsCoverCells, EstimatedRowCount
  <2>3. Cardinality(cells[TreeOf(i)]) \in Nat
    BY <2>2, FS_CardinalityType
  <2>4. i \in Slot
    BY DEF InUse
  <2>5. /\ cat.tables[i].row_count \in Nat /\ missed[i] \in Nat /\ Pending(i) \in Nat
        /\ cat'.tables[i].row_count \in Nat /\ missed'[i] \in Nat /\ Pending(i)' \in Nat
    BY <2>4 DEF CatalogInv, CatalogTypeOK, Entry, Pending
  <2> QED
    BY <2>1, <2>2, <2>3, <2>5
<1> QED
  BY <1>1, <1>2 DEF CountsCoverCells, EstimatedRowCount, TreeOf

\* A step that leaves the page store and its entries alone.
LEMMA SameTables ==
  ASSUME CatalogInv, UNCHANGED <<cat, cat_logged, on_log, tree_of>>
  PROVE  TablesKept
<1>1. cat = cat_logged
  BY DEF CatalogInv, PagesAreInTrees
<1> QED
  BY <1>1, EntryFacts DEF TablesKept, TreeOf

LEMMA InitHolds == Init => CatalogInv
<1> SUFFICES ASSUME Init PROVE CatalogInv
  OBVIOUS
<1> USE CatalogBoundsAssumption DEF Init
<1>1. EmptyBody \in [num_tables : Nat, tables : [Slot -> Entry]]
  <2>1. 0 \in PageId
    BY DEF PageId
  <2> QED
    BY <2>1 DEF EmptyBody, EmptyEntry, Entry
<1>2. /\ EmptyHandle \in Handle
      /\ NoArg \in [name : Names \cup {BadName}, columns : Columns \cup {<< >>},
                     slot : Slot, page : PageId]
  BY DEF EmptyHandle, Handle, NoArg, Slot, PageId
<1>3. CatalogTypeOK
  BY <1>1, <1>2 DEF CatalogTypeOK
<1>4. InUse(EmptyBody) = {}
  BY DEF InUse, EmptyBody, EmptyEntry
<1>5. PagesAreInTrees
  BY DEF PagesAreInTrees, EmptyBody
<1>6. Cardinality(InUse(EmptyBody)) = 0
  BY <1>4, FS_EmptySet
<1>7. TablesAreDisjoint
  BY <1>4, <1>6 DEF TablesAreDisjoint, EmptyBody
<1>8. EntriesAreSound /\ CellsAreRows /\ CountsCoverCells
  BY <1>4 DEF EntriesAreSound, CellsAreRows, CountsCoverCells
<1>9. NewTableIsFresh /\ HandlesMatch
  BY DEF NewTableIsFresh, HandlesMatch, Inserting
<1> QED
  BY <1>3, <1>5, <1>7, <1>8, <1>9 DEF CatalogInv

\* The handles of a closed catalog are gone.
LEMMA HandleTypes ==
  /\ EmptyHandle \in Handle
  /\ NoArg \in [name : Names \cup {BadName}, columns : Columns \cup {<< >>},
                 slot : Slot, page : PageId]
BY CatalogBoundsAssumption DEF EmptyHandle, Handle, NoArg, Slot, PageId

\* A handle whose tree is set.
LEMMA TreeSet ==
  ASSUME CatalogTypeOK, NEW s \in Slot, NEW p \in PageId,
         tables' = [tables EXCEPT ![s].tree = p]
  PROVE  /\ tables' \in [Slot -> Handle]
         /\ tables'[s].tree = p
         /\ \A i \in Slot : /\ tables'[i].in_use = tables[i].in_use
                            /\ tables'[i].table_name = tables[i].table_name
                            /\ tables'[i].columns = tables[i].columns
                            /\ i # s => tables'[i].tree = tables[i].tree
<1>1. tables \in [Slot -> Handle]
  BY DEF CatalogTypeOK
<1>2. tables[s] \in Handle
  BY <1>1
<1>3. [tables[s] EXCEPT !.tree = p] \in Handle
  BY <1>2 DEF Handle
<1> QED
  BY <1>1, <1>2, <1>3 DEF Handle

\* GetTable leaves the handles in agreement with the entries.
LEMMA GetTableMatches ==
  ASSUME CatalogInv, pc = "idle", NEW s \in InUse(cat), GetTable(s), UNCHANGED cat
  PROVE  /\ tables' \in [Slot -> Handle]
         /\ \A i \in Slot :
               /\ tables'[i].in_use = cat'.tables[i].in_use
               /\ tables'[i].in_use => /\ tables'[i].table_name = cat'.tables[i].table_name
                                       /\ tables'[i].columns = cat'.tables[i].columns
                                       /\ tables'[i].tree \in {NoPage, cat'.tables[i].root_page_id}
<1>1. /\ s \in Slot /\ cat.tables[s].root_page_id \in PageId
      /\ tables' = [tables EXCEPT ![s].tree = cat.tables[s].root_page_id]
  BY RootOfTable, EntryFacts, PagesFacts DEF GetTable
<1>2. /\ tables' \in [Slot -> Handle]
      /\ tables'[s].tree = cat.tables[s].root_page_id
      /\ \A i \in Slot : /\ tables'[i].in_use = tables[i].in_use
                         /\ tables'[i].table_name = tables[i].table_name
                         /\ tables'[i].columns = tables[i].columns
                         /\ i # s => tables'[i].tree = tables[i].tree
  BY <1>1, TreeSet DEF CatalogInv
<1>3. \A i \in Slot :
         /\ tables[i].in_use = cat.tables[i].in_use
         /\ tables[i].in_use => /\ tables[i].table_name = cat.tables[i].table_name
                                /\ tables[i].columns = cat.tables[i].columns
                                /\ tables[i].tree \in {NoPage, cat.tables[i].root_page_id}
  BY DEF CatalogInv, HandlesMatch
<1>4. ASSUME NEW i \in Slot
      PROVE  /\ tables'[i].in_use = cat.tables[i].in_use
             /\ tables'[i].in_use => /\ tables'[i].table_name = cat.tables[i].table_name
                                     /\ tables'[i].columns = cat.tables[i].columns
                                     /\ tables'[i].tree \in {NoPage, cat.tables[i].root_page_id}
  <2>1. /\ tables[i].in_use = cat.tables[i].in_use
        /\ tables[i].in_use => /\ tables[i].table_name = cat.tables[i].table_name
                               /\ tables[i].columns = cat.tables[i].columns
                               /\ tables[i].tree \in {NoPage, cat.tables[i].root_page_id}
    BY <1>3
  <2>2. /\ tables'[i].in_use = tables[i].in_use
        /\ tables'[i].table_name = tables[i].table_name
        /\ tables'[i].columns = tables[i].columns
    BY <1>2
  <2>3. i # s => tables'[i].tree = tables[i].tree
    BY <1>2
  <2>4. i = s => tables'[i].tree = cat.tables[i].root_page_id
    BY <1>2
  <2>5. tables[i].in_use \in BOOLEAN /\ tables'[i].in_use \in BOOLEAN
    BY <1>2 DEF CatalogInv, CatalogTypeOK, Handle
  <2> QED
    BY <2>1, <2>2, <2>3, <2>4, <2>5
<1> QED
  BY <1>2, <1>4

LEMMA ScanTableStep ==
  ASSUME CatalogInv, NEW name \in Names, ScanTable(name)
  PROVE  CatalogInv'
<1> DEFINE s == FindTableIndex(name)
<1>1. /\ pc = "idle" /\ s \in InUse(cat) /\ s \in Slot
      /\ UNCHANGED <<cat, cat_logged, on_log, next_page_id, tree_of, cells, pc, arg,
                      calls, crashes, rows, torn, missed>>
  BY FoundTable DEF ScanTable, pages, ghosts, InUse
<1> HIDE DEF s
<1>2. /\ tables' \in [Slot -> Handle]
      /\ \A i \in Slot :
            /\ tables'[i].in_use = cat'.tables[i].in_use
            /\ tables'[i].in_use => /\ tables'[i].table_name = cat'.tables[i].table_name
                                    /\ tables'[i].columns = cat'.tables[i].columns
                                    /\ tables'[i].tree \in {NoPage, cat'.tables[i].root_page_id}
  BY <1>1, GetTableMatches DEF ScanTable, s
<1>3. CatalogTypeOK'
  BY <1>1, <1>2 DEF CatalogInv, CatalogTypeOK
<1>4. TablesKept
  BY <1>1, SameTables
<1>5. EntriesAreSound' /\ TablesAreDisjoint' /\ CellsAreRows'
  BY <1>1, <1>4, KeptTables, KeptCells
<1>6. PagesAreInTrees' /\ NewTableIsFresh'
  BY <1>1 DEF CatalogInv, PagesAreInTrees, NewTableIsFresh
<1>7. HandlesMatch'
  BY <1>1, <1>2 DEF HandlesMatch, Inserting
<1>8. CountsCoverCells'
  BY <1>1 DEF CatalogInv, CountsCoverCells, TreeOf, EstimatedRowCount, Pending, Inserting
<1> QED
  BY <1>3, <1>5, <1>6, <1>7, <1>8 DEF CatalogInv

\* The process ends: the pages stay as they were logged, the handles go.  An
\* insert under way has missed its count, and perhaps torn its tree.
LEMMA ForgetStep ==
  ASSUME CatalogInv, Forget,
         UNCHANGED <<cat_logged, on_log, next_page_id, tree_of, cells, calls, rows>>,
         crashes' \in 0 .. MaxCrashes,
         torn' \in {torn, torn \cup {arg.page}},
         missed' = IF Inserting THEN [missed EXCEPT ![arg.slot] = @ + 1] ELSE missed
  PROVE  CatalogInv'
<1>1. cat' = cat /\ pc' = "closed" /\ arg' = NoArg /\ tables' = [i \in Slot |-> EmptyHandle]
  BY DEF Forget, CatalogInv, PagesAreInTrees
<1>2. /\ arg.page \in PageId /\ arg.slot \in Slot /\ torn \in SUBSET PageId
      /\ missed \in [Slot -> Nat]
  BY DEF CatalogInv, CatalogTypeOK
<1>3. missed' \in [Slot -> Nat] /\ torn' \in SUBSET PageId
  BY <1>2
<1>4. CatalogTypeOK'
  BY <1>1, <1>3, HandleTypes DEF CatalogInv, CatalogTypeOK
<1>5. TablesKept
  BY <1>1, SameTables
<1>6. EntriesAreSound' /\ TablesAreDisjoint'
  BY <1>5, KeptTables
<1>7. CellsAreRows'
  BY <1>5, KeptCells
<1>8. CountsCoverCells'
  <2>1. ASSUME NEW i \in InUse(cat)
        PROVE  cat.tables[i].row_count + missed[i] + Pending(i)
                  <= cat'.tables[i].row_count + missed'[i] + Pending(i)'
    <3>1. i \in Slot /\ cat.tables[i].row_count \in Nat /\ missed[i] \in Nat
      BY DEF InUse, CatalogInv, CatalogTypeOK, Entry
    <3>2. Pending(i)' = 0
      BY <1>1 DEF Pending, Inserting
    <3>3. missed'[i] = missed[i] + Pending(i) /\ Pending(i) \in Nat
      BY <1>2, <3>1 DEF Pending
    <3> QED
      BY <1>1, <3>1, <3>2, <3>3
  <2> QED
    BY <1>4, <1>5, <2>1, KeptCounts
<1>9. PagesAreInTrees' /\ NewTableIsFresh' /\ HandlesMatch'
  BY <1>1 DEF CatalogInv, PagesAreInTrees, NewTableIsFresh, HandlesMatch, Inserting
<1> QED
  BY <1>4, <1>6, <1>7, <1>8, <1>9 DEF CatalogInv

LEMMA CloseStep == ASSUME CatalogInv, Close PROVE CatalogInv'
<1>1. crashes' \in 0 .. MaxCrashes /\ ~Inserting
  BY DEF Close, ghosts, CatalogInv, CatalogTypeOK, Inserting
<1> QED
  BY <1>1, ForgetStep DEF Close, ghosts

LEMMA CrashStep == ASSUME CatalogInv, Crash PROVE CatalogInv'
<1>1. crashes' \in 0 .. MaxCrashes
  BY CatalogBoundsAssumption DEF Crash, CatalogInv, CatalogTypeOK
<1>2. /\ Forget
      /\ UNCHANGED <<cat_logged, on_log, next_page_id, tree_of, cells, calls, rows>>
      /\ torn' \in {torn, torn \cup {arg.page}}
      /\ missed' = IF Inserting THEN [missed EXCEPT ![arg.slot] = @ + 1] ELSE missed
  BY DEF Crash, Inserting
<1> QED
  BY <1>1, <1>2, ForgetStep

\* The pages of the file are the pages that were handed out.
LEMMA PageCount == ASSUME CatalogInv PROVE DiskPageCount = next_page_id
<1>1. next_page_id \in Nat /\ on_log = 0 .. next_page_id - 1
  BY PagesFacts DEF CatalogInv, PagesAreInTrees
<1>2. CASE next_page_id = 0
  BY <1>1, <1>2 DEF DiskPageCount
<1>3. CASE next_page_id # 0
  <2>1. next_page_id - 1 \in Nat /\ on_log \in SUBSET (0 .. next_page_id - 1)
        /\ next_page_id - 1 \in on_log
    BY <1>1, <1>3
  <2>2. Max(on_log) \in on_log /\ \A y \in on_log : Max(on_log) >= y
    BY <2>1, MaxOfBounded
  <2>3. Max(on_log) = next_page_id - 1
    BY <1>1, <1>3, <2>1, <2>2
  <2> QED
    BY <1>1, <2>1, <2>3 DEF DiskPageCount
<1> QED
  BY <1>2, <1>3

LEMMA ReopenStep == ASSUME CatalogInv, Reopen PROVE CatalogInv'
<1>1. /\ pc = "closed" /\ pc' = "idle"
      /\ UNCHANGED <<cat, cat_logged, on_log, next_page_id, tree_of, cells, arg, calls,
                     crashes, rows, torn, missed>>
      /\ cat = cat_logged /\ next_page_id > 0
  BY PageCount DEF Reopen, ghosts, CatalogInv, PagesAreInTrees
<1>2. tables' = [i \in Slot |-> IF cat.tables[i].in_use
                                THEN HandleOf(cat.tables[i]) ELSE EmptyHandle]
  BY <1>1 DEF Reopen
<1>3. \A i \in Slot : HandleOf(cat.tables[i]) \in Handle
  BY DEF CatalogInv, CatalogTypeOK, Entry, HandleOf, Handle
<1>4. CatalogTypeOK'
  BY <1>1, <1>2, <1>3, HandleTypes DEF CatalogInv, CatalogTypeOK
<1>5. TablesKept
  BY <1>1, SameTables
<1>6. EntriesAreSound' /\ TablesAreDisjoint' /\ CellsAreRows'
  BY <1>1, <1>5, KeptTables, KeptCells
<1>7. CountsCoverCells'
  BY <1>1 DEF CatalogInv, CountsCoverCells, TreeOf, EstimatedRowCount, Pending, Inserting
<1>8. PagesAreInTrees' /\ NewTableIsFresh'
  BY <1>1 DEF CatalogInv, PagesAreInTrees, NewTableIsFresh
<1>9. HandlesMatch'
  <2>1. \A i \in Slot : cat.tables[i].in_use \in BOOLEAN
    BY DEF CatalogInv, CatalogTypeOK, Entry
  <2> QED
    BY <1>1, <1>2, <2>1 DEF HandlesMatch, Inserting, HandleOf, EmptyHandle
<1> QED
  BY <1>4, <1>6, <1>7, <1>8, <1>9 DEF CatalogInv

LEMMA OpenFreshStep == ASSUME CatalogInv, OpenFresh PROVE CatalogInv'
<1>1. /\ pc = "closed" /\ pc' = "idle" /\ cat' = EmptyBody /\ cat_logged' = EmptyBody
      /\ on_log' = {0} /\ next_page_id' = 1 /\ tables' = [i \in Slot |-> EmptyHandle]
      /\ UNCHANGED <<tree_of, cells, arg, calls, crashes, rows, torn, missed>>
  BY DEF OpenFresh, LogCatalog, ghosts
<1>2. next_page_id = 0 /\ on_log = {}
  BY PageCount DEF OpenFresh, CatalogInv, PagesAreInTrees
<1>3. InUse(cat) = {}
  BY <1>2, EntryFacts
<1>4. \A name \in Names : rows[name] = {}
  BY <1>3 DEF CatalogInv, CellsAreRows
<1>5. 0 \in PageId /\ on_log' = 0 .. next_page_id' - 1 /\ next_page_id' \in 0 .. MaxPages
  BY <1>1, CatalogBoundsAssumption DEF PageId
<1>6. EmptyBody \in [num_tables : Nat, tables : [Slot -> Entry]]
  BY <1>5 DEF EmptyBody, EmptyEntry, Entry
<1>7. CatalogTypeOK'
  BY <1>1, <1>5, <1>6, HandleTypes DEF CatalogInv, CatalogTypeOK
<1>8. InUse(cat') = {} /\ InUse(cat_logged') = {} /\ cat_logged'.num_tables = 0
  BY <1>1 DEF InUse, EmptyBody, EmptyEntry
<1>9. EntriesAreSound' /\ TablesAreDisjoint' /\ CellsAreRows' /\ CountsCoverCells'
  BY <1>1, <1>4, <1>8, FS_EmptySet
     DEF EntriesAreSound, TablesAreDisjoint, CellsAreRows, CountsCoverCells
<1>10. \A p \in PageId : tree_of[p] = NoPage
  BY <1>2 DEF CatalogInv, PagesAreInTrees
<1>11. PagesAreInTrees'
  BY <1>1, <1>5, <1>10 DEF PagesAreInTrees
<1>12. NewTableIsFresh' /\ HandlesMatch'
  BY <1>1 DEF NewTableIsFresh, HandlesMatch, Inserting, EmptyBody, EmptyEntry, EmptyHandle
<1> QED
  BY <1>7, <1>9, <1>11, <1>12 DEF CatalogInv

LEMMA CreateTableStep ==
  ASSUME CatalogInv, NEW name \in Names \cup {BadName}, NEW columns \in Columns,
         CreateTable(name, columns)
  PROVE  CatalogInv'
<1>1. /\ pc = "idle" /\ pc' = "entry" /\ AddPage(next_page_id) /\ calls < MaxCalls
      /\ name \in Names /\ ~TableExists(name) /\ ValidSchema(columns) /\ FreeSlots # {}
      /\ cells' = [cells EXCEPT ![next_page_id] = {}]
      /\ arg' = [name |-> name, columns |-> columns,
                 slot |-> FreeSlot, page |-> next_page_id]
      /\ calls' = calls + 1
      /\ UNCHANGED <<cat, cat_logged, tables, crashes, rows, torn, missed>>
  BY DEF CreateTable, CanCreate, ghosts
<1>2. /\ next_page_id \in PageId \ {0} /\ next_page_id \in on_log'
      /\ on_log' \in SUBSET PageId /\ on_log \subseteq on_log'
      /\ next_page_id' \in 0 .. MaxPages
      /\ tree_of' \in [PageId -> PageId \cup {NoPage}]
      /\ tree_of'[next_page_id] = next_page_id
      /\ PagesAreInTrees'
      /\ TablesKept
  BY <1>1, PageAdded
<1>3. FreeSlot \in FreeSlots
  <2>1. FreeSlots \in SUBSET Nat
    BY SlotsAreNaturals DEF FreeSlots
  <2> QED
    BY <1>1, <2>1, MinOfNaturals DEF FreeSlot
<1>4. FreeSlot \in Slot /\ FreeSlot \notin InUse(cat)
  BY <1>1, <1>3 DEF FreeSlots, InUse, CatalogInv, HandlesMatch
<1>5. CatalogTypeOK'
  <2>1. arg' \in [name : Names \cup {BadName}, columns : Columns \cup {<< >>},
                  slot : Slot, page : PageId]
    BY <1>1, <1>2, <1>4
  <2>2. /\ DOMAIN cells' = PageId
        /\ \A a \in PageId : \A c \in cells'[a] : c.key \in Int /\ DOMAIN c.blob \subseteq Nat
    BY <1>1 DEF CatalogInv, CatalogTypeOK
  <2>3. calls' \in 0 .. MaxCalls
    BY <1>1, CatalogBoundsAssumption DEF CatalogInv, CatalogTypeOK
  <2> QED
    BY <1>1, <1>2, <2>1, <2>2, <2>3 DEF CatalogInv, CatalogTypeOK
<1>6. EntriesAreSound' /\ TablesAreDisjoint' /\ InUse(cat') = InUse(cat)
  BY <1>2, KeptTables
<1>7. \A i \in InUse(cat) : cells'[TreeOf(i)] = cells[TreeOf(i)] /\ TreeOf(i) # next_page_id
  <2> TAKE i \in InUse(cat)
  <2>1. TreeOf(i) \in PageId /\ TreeOf(i) # next_page_id
    BY EntryFacts, PagesFacts
  <2> QED
    BY <1>1, <2>1 DEF CatalogInv, CatalogTypeOK
<1>8. CellsAreRows'
  BY <1>1, <1>2, <1>7, KeptCells
<1>9. CountsCoverCells'
  <2>1. ASSUME NEW i \in InUse(cat)
        PROVE  cat.tables[i].row_count + missed[i] + Pending(i)
                  <= cat'.tables[i].row_count + missed'[i] + Pending(i)'
    <3>1. cat.tables[i].row_count \in Nat /\ missed[i] \in Nat
      BY DEF InUse, CatalogInv, CatalogTypeOK, Entry
    <3>2. Pending(i) = 0 /\ Pending(i)' = 0
      BY <1>1 DEF Pending, Inserting
    <3> QED
      BY <1>1, <3>1, <3>2
  <2> QED
    BY <1>2, <1>5, <1>7, <2>1, KeptCounts
<1>10. NewTableIsFresh'
  <2>1. cells'[next_page_id] = {}
    BY <1>1, <1>2 DEF CatalogInv, CatalogTypeOK
  <2>2. \A i \in InUse(cat) : cat.tables[i].table_name # name
    BY <1>1, FoundTable
  <2>3. \A i \in InUse(cat) : tree_of'[cat'.tables[i].root_page_id] # next_page_id
    BY <1>2, <1>7 DEF TablesKept
  <2> QED
    BY <1>1, <1>2, <1>4, <1>6, <2>1, <2>2, <2>3 DEF NewTableIsFresh, TreeOf
<1>11. HandlesMatch'
  BY <1>1 DEF CatalogInv, HandlesMatch, Inserting
<1> QED
  BY <1>2, <1>5, <1>6, <1>8, <1>9, <1>10, <1>11 DEF CatalogInv

LEMMA CreateEntryStep == ASSUME CatalogInv, CreateEntry PROVE CatalogInv'
<1> DEFINE s == arg.slot
<1>1. /\ pc = "entry" /\ pc' = "idle" /\ cat' = cat_logged' /\ cat = cat_logged
      /\ cat' = [num_tables |-> cat.num_tables + 1,
                 tables |-> [cat.tables EXCEPT ![s] = NewEntry]]
      /\ tables' = [tables EXCEPT ![s] = HandleOf(NewEntry)]
      /\ UNCHANGED <<on_log, next_page_id, tree_of, cells, arg, calls, crashes, rows,
                     torn, missed>>
  BY DEF CreateEntry, LogCatalog, ghosts, CatalogInv, PagesAreInTrees
<1>2. /\ s \in Slot /\ s \notin InUse(cat) /\ arg.name \in Names
      /\ arg.columns \in Columns /\ ValidSchema(arg.columns)
      /\ arg.page \in on_log \ {0} /\ arg.page \in PageId /\ tree_of[arg.page] = arg.page
      /\ cells[arg.page] = {}
      /\ \A i \in InUse(cat) : cat.tables[i].table_name # arg.name /\ TreeOf(i) # arg.page
  BY <1>1, PagesFacts DEF CatalogInv, CatalogTypeOK, NewTableIsFresh
<1>3. /\ cat \in [num_tables : Nat, tables : [Slot -> Entry]]
      /\ tables \in [Slot -> Handle]
  BY DEF CatalogInv, CatalogTypeOK
<1>4. NewEntry \in Entry /\ HandleOf(NewEntry) \in Handle /\ NewEntry.in_use
      /\ NewEntry.table_name = arg.name /\ NewEntry.columns = arg.columns
      /\ NewEntry.root_page_id = arg.page /\ NewEntry.row_count = 0
  BY <1>2 DEF NewEntry, Entry, HandleOf, Handle
<1> HIDE DEF s
<1>5. /\ cat'.num_tables = cat.num_tables + 1
      /\ cat'.tables[s] = NewEntry
      /\ \A i \in Slot : i # s => cat'.tables[i] = cat.tables[i]
      /\ cat' \in [num_tables : Nat, tables : [Slot -> Entry]]
  BY <1>1, <1>2, <1>3, <1>4
<1>6. InUse(cat') = InUse(cat) \cup {s}
  BY <1>2, <1>4, <1>5 DEF InUse
<1>7. CatalogTypeOK'
  <2>1. tables' \in [Slot -> Handle]
    BY <1>1, <1>2, <1>3, <1>4
  <2>2. cat_logged' \in [num_tables : Nat, tables : [Slot -> Entry]]
    BY <1>1, <1>5
  <2> QED
    BY <1>1, <1>5, <2>1, <2>2 DEF CatalogInv, CatalogTypeOK
<1>8. \A i \in InUse(cat) : i \in Slot /\ i # s /\ cat'.tables[i] = cat.tables[i]
  BY <1>2, <1>5 DEF InUse
<1>9. PagesAreInTrees'
  BY <1>1 DEF CatalogInv, PagesAreInTrees
<1>10. EntriesAreSound'
  BY <1>1, <1>2, <1>4, <1>5, <1>6, <1>8 DEF CatalogInv, EntriesAreSound
<1>11. TablesAreDisjoint'
  <2>1. \A i \in InUse(cat) :
           /\ cat'.tables[i].table_name # cat'.tables[s].table_name
           /\ tree_of'[cat'.tables[i].root_page_id] # tree_of'[cat'.tables[s].root_page_id]
    BY <1>1, <1>2, <1>4, <1>5, <1>8 DEF TreeOf
  <2>2. \A i, j \in InUse(cat) : i # j =>
           /\ cat'.tables[i].table_name # cat'.tables[j].table_name
           /\ tree_of'[cat'.tables[i].root_page_id] # tree_of'[cat'.tables[j].root_page_id]
    BY <1>1, <1>8 DEF CatalogInv, TablesAreDisjoint
  <2>3. \A i, j \in InUse(cat') : i # j =>
           /\ cat'.tables[i].table_name # cat'.tables[j].table_name
           /\ tree_of'[cat'.tables[i].root_page_id] # tree_of'[cat'.tables[j].root_page_id]
    BY <1>6, <2>1, <2>2
  <2>4. cat'.num_tables = Cardinality(InUse(cat'))
    <3>1. IsFiniteSet(InUse(cat))
      <4>1. InUse(cat) \subseteq Slot
        BY DEF InUse
      <4> QED
        BY <4>1, SlotsAreNaturals, FS_Subset
    <3>2. Cardinality(InUse(cat')) = Cardinality(InUse(cat)) + 1
      BY <1>2, <1>6, <3>1, FS_AddElement, ZenonT(60)
    <3> QED
      BY <1>1, <1>5, <3>2 DEF CatalogInv, TablesAreDisjoint
  <2> QED
    BY <1>1, <2>3, <2>4 DEF TablesAreDisjoint
<1>12. NewTableIsFresh'
  BY <1>1 DEF NewTableIsFresh
<1>13. HandlesMatch'
  <2>1. \A i \in Slot : i # s => tables'[i] = tables[i]
    BY <1>1, <1>3
  <2>2. tables'[s] = HandleOf(NewEntry)
    BY <1>1, <1>2, <1>3
  <2>3. tables'[s].in_use /\ tables'[s].table_name = NewEntry.table_name
        /\ tables'[s].columns = NewEntry.columns /\ tables'[s].tree = NoPage
    BY <2>2 DEF HandleOf
  <2>4. tables'[s].in_use = NewEntry.in_use
    BY <2>2 DEF HandleOf, NewEntry
  <2> QED
    BY <1>1, <1>5, <2>1, <2>3, <2>4 DEF CatalogInv, HandlesMatch, Inserting
<1>14. CellsAreRows'
  <2>1. rows[arg.name] = {}
    BY <1>2 DEF CatalogInv, CellsAreRows
  <2>2. \A n \in Names : (\A i \in InUse(cat') : cat'.tables[i].table_name # n) => rows'[n] = {}
    BY <1>1, <1>6, <1>8 DEF CatalogInv, CellsAreRows
  <2>3. ASSUME NEW i \in InUse(cat)
        PROVE  /\ \A r \in rows'[cat'.tables[i].table_name] : ValidRow(cat'.tables[i].columns, r)
               /\ \/ tree_of'[cat'.tables[i].root_page_id] \in torn'
                  \/ cells'[tree_of'[cat'.tables[i].root_page_id]]
                        = {CellOf(cat'.tables[i].columns, r) : r \in rows'[cat'.tables[i].table_name]}
    BY <1>1, <1>8 DEF CatalogInv, CellsAreRows, TreeOf
  <2>4. /\ \A r \in rows'[cat'.tables[s].table_name] : ValidRow(cat'.tables[s].columns, r)
        /\ cells'[tree_of'[cat'.tables[s].root_page_id]]
              = {CellOf(cat'.tables[s].columns, r) : r \in rows'[cat'.tables[s].table_name]}
    BY <1>1, <1>2, <1>4, <1>5, <2>1
  <2> QED
    BY <1>6, <2>2, <2>3, <2>4 DEF CellsAreRows, TreeOf
<1>15. CountsCoverCells'
  <2>1. ASSUME NEW i \in InUse(cat)
        PROVE  /\ IsFiniteSet(cells'[tree_of'[cat'.tables[i].root_page_id]])
               /\ Cardinality(cells'[tree_of'[cat'.tables[i].root_page_id]])
                     <= cat'.tables[i].row_count + missed'[i] + Pending(i)'
    <3>1. Pending(i)' = 0 /\ Pending(i) = 0
      BY <1>1 DEF Pending, Inserting
    <3> QED
      BY <1>1, <1>8, <3>1 DEF CatalogInv, CountsCoverCells, TreeOf, EstimatedRowCount
  <2>2. ASSUME NEW i \in Slot, i = s
        PROVE  /\ IsFiniteSet(cells'[tree_of'[cat'.tables[i].root_page_id]])
               /\ Cardinality(cells'[tree_of'[cat'.tables[i].root_page_id]])
                     <= cat'.tables[i].row_count + missed'[i] + Pending(i)'
    <3>1. cells'[tree_of'[cat'.tables[i].root_page_id]] = {}
      BY <1>1, <1>2, <1>4, <1>5, <2>2
    <3>2. missed'[i] \in Nat /\ Pending(i)' \in Nat /\ cat'.tables[i].row_count = 0
      BY <1>1, <1>2, <1>4, <1>5, <2>2 DEF CatalogInv, CatalogTypeOK, Pending
    <3> QED
      BY <3>1, <3>2, FS_EmptySet
  <2> QED
    BY <1>2, <1>6, <2>1, <2>2 DEF CountsCoverCells, TreeOf, EstimatedRowCount
<1> QED
  BY <1>7, <1>9, <1>10, <1>11, <1>12, <1>13, <1>14, <1>15 DEF CatalogInv

\* A cell put into a set of cells, instead of those with its key.
LEMMA PutCellSize ==
  ASSUME NEW S, IsFiniteSet(S), NEW T \in SUBSET S, NEW cell
  PROVE  /\ IsFiniteSet(T \cup {cell})
         /\ Cardinality(T \cup {cell}) \in Nat
         /\ Cardinality(T \cup {cell}) <= Cardinality(S) + 1
<1>1. IsFiniteSet(T) /\ Cardinality(T) <= Cardinality(S) /\ Cardinality(T) \in Nat
      /\ Cardinality(S) \in Nat
  BY FS_Subset, FS_CardinalityType
<1>2. IsFiniteSet(T \cup {cell})
  BY <1>1, FS_AddElement
<1>3. CASE cell \in T
  <2>1. T \cup {cell} = T
    BY <1>3
  <2> QED
    BY <1>1, <2>1
<1>4. CASE cell \notin T
  BY <1>1, <1>2, <1>4, FS_AddElement
<1> QED
  BY <1>2, <1>3, <1>4

\* The cells of the rows, one of them put in place of those with its key,
\* are the cells with the new one put in place of those with its key.
LEMMA CellsOfRows ==
  ASSUME NEW columns \in Columns, ValidSchema(columns),
         NEW R \in SUBSET Rows, \A r \in R : ValidRow(columns, r),
         NEW values \in Rows, ValidRow(columns, values)
  PROVE  {c \in {CellOf(columns, r) : r \in R} : c.key # CellOf(columns, values).key}
               \cup {CellOf(columns, values)}
            = {CellOf(columns, r) :
                  r \in {r \in R : KeyOf(columns, r) # KeyOf(columns, values)} \cup {values}}
<1>1. \A r \in R : CellOf(columns, r).key = KeyOf(columns, r)
  BY CellOfType
<1>2. CellOf(columns, values).key = KeyOf(columns, values)
  BY CellOfType
<1> QED
  BY <1>1, <1>2

\* What InsertRow finds, and what writing the row does to it.
LEMMA RowIsWritten ==
  ASSUME CatalogInv, pc = "idle", TablesKept, UNCHANGED <<cat, torn>>,
         NEW name \in Names, NEW values \in Rows, TableExists(name),
         NEW slot, slot = FindTableIndex(name),
         NEW columns, columns = tables[slot].columns, ValidRow(columns, values),
         NEW a, a = tree_of[TreeRoot(slot)],
         NEW cell, cell = CellOf(columns, values),
         PutCell(a, cell), RowWritten(name, values, columns)
  PROVE  /\ CellsAreRows'
         /\ DOMAIN cells' = PageId
         /\ \A b \in PageId : \A c \in cells'[b] : c.key \in Int /\ DOMAIN c.blob \subseteq Nat
         /\ rows' \in [Names -> SUBSET Rows]
         /\ \A i \in InUse(cat) :
               /\ IsFiniteSet(cells'[TreeOf(i)])
               /\ Cardinality(cells'[TreeOf(i)]) \in Nat
               /\ Cardinality(cells'[TreeOf(i)])
                     <= Cardinality(cells[TreeOf(i)]) + (IF i = slot THEN 1 ELSE 0)
<1>1. /\ slot \in InUse(cat) /\ cat.tables[slot].table_name = name
      /\ columns = cat.tables[slot].columns
  BY FoundTable
<1>2. /\ slot \in Slot /\ columns \in Columns /\ ValidSchema(columns)
      /\ a = TreeOf(slot) /\ a \in PageId
      /\ \A i \in InUse(cat) : i # slot => /\ cat.tables[i].table_name # name
                                           /\ TreeOf(i) # a
  <2>1. TreeRoot(slot) = cat.tables[slot].root_page_id
    BY <1>1, RootOfTable
  <2> QED
    BY <1>1, <2>1, EntryFacts DEF TreeOf
<1>3. /\ DOMAIN cells = PageId /\ rows \in [Names -> SUBSET Rows]
      /\ \A b \in PageId : \A c \in cells[b] : c.key \in Int /\ DOMAIN c.blob \subseteq Nat
  BY DEF CatalogInv, CatalogTypeOK
<1>4. cell.key \in Int /\ DOMAIN cell.blob \subseteq Nat
  BY <1>2, CellOfType
<1>5. PICK T \in SUBSET cells[a] :
         /\ cells' = [cells EXCEPT ![a] = T \cup {cell}]
         /\ a \in torn \/ T = {c \in cells[a] : c.key # cell.key}
  BY DEF PutCell
<1>6. /\ DOMAIN cells' = PageId
      /\ cells'[a] = T \cup {cell}
      /\ \A b \in PageId : b # a => cells'[b] = cells[b]
  BY <1>2, <1>3, <1>5
<1>7. \A b \in PageId : \A c \in cells'[b] : c.key \in Int /\ DOMAIN c.blob \subseteq Nat
  BY <1>2, <1>3, <1>4, <1>5, <1>6
<1> DEFINE R == {r \in rows[name] : KeyOf(columns, r) # KeyOf(columns, values)} \cup {values}
<1>8. /\ rows' \in [Names -> SUBSET Rows] /\ rows'[name] = R
      /\ \A n \in Names : n # name => rows'[n] = rows[n]
  BY <1>3 DEF RowWritten
<1>9. \A r \in rows[name] : ValidRow(columns, r)
  BY <1>1 DEF CatalogInv, CellsAreRows
<1>10. a \in torn \/ cells[a] = {CellOf(columns, r) : r \in rows[name]}
  BY <1>1, <1>2 DEF CatalogInv, CellsAreRows
<1>11. a \in torn \/ cells'[a] = {CellOf(columns, r) : r \in R}
  <2>1. SUFFICES ASSUME a \notin torn PROVE cells'[a] = {CellOf(columns, r) : r \in R}
    OBVIOUS
  <2>2. rows[name] \in SUBSET Rows
    BY <1>3
  <2>3. cells'[a] = {c \in {CellOf(columns, r) : r \in rows[name]} :
                        c.key # CellOf(columns, values).key} \cup {CellOf(columns, values)}
    BY <1>5, <1>6, <1>10, <2>1
  <2> QED
    BY <1>2, <1>9, <2>2, <2>3, CellsOfRows
<1>12. CellsAreRows'
  <2>1. InUse(cat') = InUse(cat)
    BY KeptTables
  <2>2. ASSUME NEW n \in Names, \A i \in InUse(cat') : cat'.tables[i].table_name # n
        PROVE  rows'[n] = {}
    <3>1. n # name
      BY <1>1, <2>1, <2>2
    <3> QED
      BY <1>8, <2>1, <2>2, <3>1 DEF CatalogInv, CellsAreRows
  <2>3. ASSUME NEW i \in InUse(cat)
        PROVE  /\ \A r \in rows'[cat'.tables[i].table_name] : ValidRow(cat'.tables[i].columns, r)
               /\ \/ tree_of'[cat'.tables[i].root_page_id] \in torn'
                  \/ cells'[tree_of'[cat'.tables[i].root_page_id]]
                        = {CellOf(cat'.tables[i].columns, r) : r \in rows'[cat'.tables[i].table_name]}
    <3>1. tree_of'[cat'.tables[i].root_page_id] = TreeOf(i) /\ cat' = cat /\ torn' = torn
      BY DEF TablesKept
    <3>2. CASE i = slot
      BY <1>1, <1>2, <1>8, <1>9, <1>11, <3>1, <3>2
    <3>3. CASE i # slot
      <4>1. /\ rows'[cat.tables[i].table_name] = rows[cat.tables[i].table_name]
            /\ cells'[TreeOf(i)] = cells[TreeOf(i)]
        BY <1>2, <1>6, <1>8, <3>3, EntryFacts
      <4>2. /\ \A r \in rows[cat.tables[i].table_name] : ValidRow(cat.tables[i].columns, r)
            /\ \/ TreeOf(i) \in torn
               \/ cells[TreeOf(i)]
                     = {CellOf(cat.tables[i].columns, r) : r \in rows[cat.tables[i].table_name]}
        BY DEF CatalogInv, CellsAreRows
      <4> QED
        BY <3>1, <4>1, <4>2
    <3> QED
      BY <3>2, <3>3
  <2> QED
    BY <2>1, <2>2, <2>3 DEF CellsAreRows, TreeOf
<1>13. ASSUME NEW i \in InUse(cat)
       PROVE  /\ IsFiniteSet(cells'[TreeOf(i)])
              /\ Cardinality(cells'[TreeOf(i)]) \in Nat
              /\ Cardinality(cells'[TreeOf(i)])
                    <= Cardinality(cells[TreeOf(i)]) + (IF i = slot THEN 1 ELSE 0)
  <2>1. IsFiniteSet(cells[TreeOf(i)])
    BY DEF CatalogInv, CountsCoverCells
  <2>2. CASE i = slot
    <3>1. TreeOf(i) = a /\ cells'[TreeOf(i)] = T \cup {cell} /\ T \in SUBSET cells[a]
      BY <1>2, <1>6, <2>2
    <3>2. /\ IsFiniteSet(T \cup {cell})
          /\ Cardinality(T \cup {cell}) \in Nat
          /\ Cardinality(T \cup {cell}) <= Cardinality(cells[a]) + 1
      BY <2>1, <3>1, PutCellSize
    <3> QED
      BY <2>2, <3>1, <3>2
  <2>3. CASE i # slot
    <3>1. cells'[TreeOf(i)] = cells[TreeOf(i)]
      BY <1>2, <1>6, <2>3, EntryFacts
    <3>2. Cardinality(cells[TreeOf(i)]) \in Nat
      BY <2>1, FS_CardinalityType
    <3> QED
      BY <2>1, <2>3, <3>1, <3>2
  <2> QED
    BY <2>2, <2>3
<1> QED
  BY <1>6, <1>7, <1>8, <1>12, <1>13

LEMMA InsertRowStep ==
  ASSUME CatalogInv, NEW name \in Names, NEW values \in Rows, InsertRow(name, values)
  PROVE  CatalogInv'
<1> DEFINE s == FindTableIndex(name)
           columns == tables[s].columns
           a == tree_of[TreeRoot(s)]
           cell == CellOf(columns, values)
<1>1. /\ pc = "idle" /\ calls < MaxCalls /\ TableExists(name) /\ ValidRow(columns, values)
      /\ GetTable(s) /\ PutCell(a, cell) /\ RowWritten(name, values, columns)
      /\ \/ pc' = "bump" /\ UNCHANGED <<on_log, next_page_id, tree_of>>
         \/ AddPage(a) /\ pc' = "split"
      /\ arg' = [NoArg EXCEPT !.slot = s, !.page = a]
      /\ calls' = calls + 1
      /\ UNCHANGED <<cat, cat_logged, crashes, torn, missed>>
  BY DEF InsertRow
<1>2. /\ s \in InUse(cat) /\ s \in Slot
      /\ TreeRoot(s) = cat.tables[s].root_page_id /\ TreeRoot(s) \in PageId
      /\ a = TreeOf(s) /\ a \in on_log \ {0} /\ a \in PageId /\ tree_of[a] = a
  BY <1>1, FoundTable, RootOfTable, EntryFacts, PagesFacts DEF TreeOf
<1>3. /\ on_log' \in SUBSET PageId /\ next_page_id' \in 0 .. MaxPages
      /\ tree_of' \in [PageId -> PageId \cup {NoPage}]
      /\ PagesAreInTrees' /\ TablesKept
  <2>1. CASE pc' = "bump" /\ UNCHANGED <<on_log, next_page_id, tree_of>>
    BY <1>1, <2>1, SameTables DEF CatalogInv, CatalogTypeOK, PagesAreInTrees
  <2>2. CASE AddPage(a)
    BY <1>1, <1>2, <2>2, PageAdded
  <2> QED
    BY <1>1, <2>1, <2>2
<1>4. /\ CellsAreRows'
      /\ DOMAIN cells' = PageId
      /\ \A b \in PageId : \A c \in cells'[b] : c.key \in Int /\ DOMAIN c.blob \subseteq Nat
      /\ rows' \in [Names -> SUBSET Rows]
      /\ \A i \in InUse(cat) :
            /\ IsFiniteSet(cells'[TreeOf(i)])
            /\ Cardinality(cells'[TreeOf(i)]) \in Nat
            /\ Cardinality(cells'[TreeOf(i)])
                  <= Cardinality(cells[TreeOf(i)]) + (IF i = s THEN 1 ELSE 0)
  <2> HIDE DEF s, columns, a, cell
  <2> QED
    BY <1>1, <1>3, RowIsWritten DEF s, columns, a, cell
<1> HIDE DEF s, columns, a, cell
<1>5. arg'.slot = s /\ arg'.page = a
      /\ arg' \in [name : Names \cup {BadName}, columns : Columns \cup {<< >>},
                   slot : Slot, page : PageId]
  BY <1>1, <1>2, HandleTypes DEF NoArg
<1>6. /\ tables' \in [Slot -> Handle]
      /\ \A i \in Slot :
            /\ tables'[i].in_use = cat'.tables[i].in_use
            /\ tables'[i].in_use => /\ tables'[i].table_name = cat'.tables[i].table_name
                                    /\ tables'[i].columns = cat'.tables[i].columns
                                    /\ tables'[i].tree \in {NoPage, cat'.tables[i].root_page_id}
  BY <1>1, <1>2, GetTableMatches
<1>7. CatalogTypeOK'
  <2>1. calls' \in 0 .. MaxCalls
    BY <1>1, CatalogBoundsAssumption DEF CatalogInv, CatalogTypeOK
  <2> QED
    BY <1>1, <1>3, <1>4, <1>5, <1>6, <2>1 DEF CatalogInv, CatalogTypeOK
<1>8. EntriesAreSound' /\ TablesAreDisjoint' /\ InUse(cat') = InUse(cat)
  BY <1>3, KeptTables
<1>9. \A i \in InUse(cat) : tree_of'[cat'.tables[i].root_page_id] = TreeOf(i)
  BY <1>3 DEF TablesKept
<1>10. NewTableIsFresh'
  BY <1>1 DEF NewTableIsFresh
<1>11. HandlesMatch'
  <2>1. arg'.slot \in InUse(cat') /\ arg'.page = TreeOf(arg.slot)'
    BY <1>2, <1>5, <1>8, <1>9 DEF TreeOf
  <2> QED
    BY <1>1, <1>6, <2>1 DEF HandlesMatch
<1>12. CountsCoverCells'
  <2>1. ASSUME NEW i \in InUse(cat)
        PROVE  /\ IsFiniteSet(cells'[TreeOf(i)])
               /\ Cardinality(cells'[TreeOf(i)])
                     <= cat'.tables[i].row_count + missed'[i] + Pending(i)'
    <3>1. /\ Cardinality(cells[TreeOf(i)]) <= cat.tables[i].row_count + missed[i] + Pending(i)
          /\ Cardinality(cells[TreeOf(i)]) \in Nat
      BY FS_CardinalityType DEF CatalogInv, CountsCoverCells, EstimatedRowCount
    <3>2. Pending(i) = 0 /\ Pending(i)' = IF i = s THEN 1 ELSE 0
      BY <1>1, <1>5 DEF Pending, Inserting
    <3>3. cat.tables[i].row_count \in Nat /\ missed[i] \in Nat
      BY DEF InUse, CatalogInv, CatalogTypeOK, Entry
    <3> QED
      BY <1>1, <1>4, <3>1, <3>2, <3>3
  <2> QED
    BY <1>8, <1>9, <2>1 DEF CountsCoverCells, TreeOf, EstimatedRowCount
<1> QED
  BY <1>3, <1>4, <1>7, <1>8, <1>10, <1>11, <1>12 DEF CatalogInv

LEMMA InsertRowThrowsStep ==
  ASSUME CatalogInv, NEW name \in Names, NEW values \in Rows, InsertRowThrows(name, values)
  PROVE  CatalogInv'
<1> DEFINE s == FindTableIndex(name)
           columns == tables[s].columns
           a == tree_of[TreeRoot(s)]
           cell == CellOf(columns, values)
           Left == UNCHANGED <<cells, rows, missed>>
           Put == /\ PutCell(a, cell)
                  /\ RowWritten(name, values, columns)
                  /\ missed' = [missed EXCEPT ![s] = @ + 1]
<1>1. /\ pc = "idle" /\ calls < MaxCalls /\ TableExists(name) /\ ValidRow(columns, values)
      /\ GetTable(s) /\ (Left \/ Put)
      /\ calls' = calls + 1
      /\ UNCHANGED <<cat, cat_logged, on_log, next_page_id, tree_of, pc, arg, crashes, torn>>
  BY DEF InsertRowThrows
<1>2. /\ s \in InUse(cat) /\ s \in Slot
      /\ TreeRoot(s) = cat.tables[s].root_page_id /\ TreeRoot(s) \in PageId
  BY <1>1, FoundTable, RootOfTable, EntryFacts, PagesFacts
<1>3. TablesKept
  BY <1>1, SameTables
<1>4. Put => /\ CellsAreRows'
             /\ DOMAIN cells' = PageId
             /\ \A b \in PageId : \A c \in cells'[b] : c.key \in Int /\ DOMAIN c.blob \subseteq Nat
             /\ rows' \in [Names -> SUBSET Rows]
             /\ \A i \in InUse(cat) :
                   /\ IsFiniteSet(cells'[TreeOf(i)])
                   /\ Cardinality(cells'[TreeOf(i)]) \in Nat
                   /\ Cardinality(cells'[TreeOf(i)])
                         <= Cardinality(cells[TreeOf(i)]) + (IF i = s THEN 1 ELSE 0)
  <2>1. SUFFICES ASSUME Put PROVE /\ PutCell(a, cell) /\ RowWritten(name, values, columns)
    <3> HIDE DEF s, columns, a, cell
    <3> QED
      BY <1>1, <1>3, RowIsWritten DEF s, columns, a, cell
  <2> QED
    BY <2>1
<1> HIDE DEF s, columns, a, cell
<1>5. /\ tables' \in [Slot -> Handle]
      /\ \A i \in Slot :
            /\ tables'[i].in_use = cat'.tables[i].in_use
            /\ tables'[i].in_use => /\ tables'[i].table_name = cat'.tables[i].table_name
                                    /\ tables'[i].columns = cat'.tables[i].columns
                                    /\ tables'[i].tree \in {NoPage, cat'.tables[i].root_page_id}
  BY <1>1, <1>2, GetTableMatches
<1>6. /\ missed' \in [Slot -> Nat]
      /\ \A i \in Slot : missed'[i] >= missed[i]
      /\ Put => missed'[s] = missed[s] + 1
  <2>1. missed \in [Slot -> Nat]
    BY DEF CatalogInv, CatalogTypeOK
  <2>2. CASE Put
    BY <1>2, <2>1, <2>2
  <2>3. CASE ~Put
    BY <1>1, <2>1, <2>3
  <2> QED
    BY <2>2, <2>3
<1>7. CatalogTypeOK'
  <2>1. calls' \in 0 .. MaxCalls
    BY <1>1, CatalogBoundsAssumption DEF CatalogInv, CatalogTypeOK
  <2>2. /\ DOMAIN cells' = PageId
        /\ \A b \in PageId : \A c \in cells'[b] : c.key \in Int /\ DOMAIN c.blob \subseteq Nat
        /\ rows' \in [Names -> SUBSET Rows]
    <3>1. CASE Left
      BY <3>1 DEF CatalogInv, CatalogTypeOK
    <3>2. CASE Put
      BY <1>4, <3>2
    <3> QED
      BY <1>1, <3>1, <3>2
  <2> QED
    BY <1>1, <1>5, <1>6, <2>1, <2>2 DEF CatalogInv, CatalogTypeOK
<1>8. EntriesAreSound' /\ TablesAreDisjoint'
  BY <1>3, KeptTables
<1>9. CellsAreRows'
  BY <1>1, <1>3, <1>4, KeptCells
<1>10. PagesAreInTrees' /\ NewTableIsFresh'
  BY <1>1 DEF CatalogInv, PagesAreInTrees, NewTableIsFresh
<1>11. HandlesMatch'
  BY <1>1, <1>5 DEF HandlesMatch, Inserting
<1>12. CountsCoverCells'
  <2>1. ASSUME NEW i \in InUse(cat)
        PROVE  /\ IsFiniteSet(cells'[TreeOf(i)])
               /\ Cardinality(cells'[TreeOf(i)]) <= cat.tables[i].row_count + missed'[i]
    <3>1. /\ IsFiniteSet(cells[TreeOf(i)])
          /\ Cardinality(cells[TreeOf(i)]) <= cat.tables[i].row_count + missed[i] + Pending(i)
          /\ Cardinality(cells[TreeOf(i)]) \in Nat
      BY FS_CardinalityType DEF CatalogInv, CountsCoverCells, EstimatedRowCount
    <3>2. Pending(i) = 0
      BY <1>1 DEF Pending, Inserting
    <3>3. i \in Slot /\ cat.tables[i].row_count \in Nat /\ missed[i] \in Nat /\ missed'[i] \in Nat
      BY <1>6 DEF InUse, CatalogInv, CatalogTypeOK, Entry
    <3>4. CASE Left
      BY <3>1, <3>2, <3>3, <3>4
    <3>5. CASE Put
      BY <1>4, <1>6, <3>1, <3>2, <3>3, <3>5
    <3> QED
      BY <1>1, <3>4, <3>5
  <2>2. \A i : Pending(i)' = 0
    BY <1>1 DEF Pending, Inserting
  <2>3. \A i \in InUse(cat) : cat.tables[i].row_count + missed'[i] + 0
                                 = cat.tables[i].row_count + missed'[i]
    BY <1>6 DEF InUse, CatalogInv, CatalogTypeOK, Entry
  <2> QED
    BY <1>1, <2>1, <2>2, <2>3 DEF CountsCoverCells, TreeOf, EstimatedRowCount, InUse
<1> QED
  BY <1>7, <1>8, <1>9, <1>10, <1>11, <1>12 DEF CatalogInv

\* The tree an insert under way works on.
LEMMA InsertFacts ==
  ASSUME CatalogInv, Inserting
  PROVE  /\ arg.slot \in InUse(cat) /\ arg.slot \in Slot
         /\ arg.page = TreeOf(arg.slot)
         /\ arg.page \in on_log \ {0} /\ arg.page \in PageId /\ tree_of[arg.page] = arg.page
         /\ pc # "closed"
<1>1. arg.slot \in InUse(cat) /\ arg.page = TreeOf(arg.slot)
  BY DEF CatalogInv, HandlesMatch
<1> QED
  BY <1>1, EntryFacts DEF Inserting

LEMMA SplitClimbsStep == ASSUME CatalogInv, SplitClimbs PROVE CatalogInv'
<1>1. /\ pc = "split" /\ pc' \in {"bump", "split"}
      /\ \/ UNCHANGED <<on_log, next_page_id, tree_of>>
         \/ AddPage(arg.page)
      /\ UNCHANGED <<cat, cat_logged, cells, tables, arg, calls, crashes, rows, torn, missed>>
  BY DEF SplitClimbs, ghosts
<1>2. Inserting /\ Inserting'
  BY <1>1 DEF Inserting
<1>3. /\ on_log' \in SUBSET PageId /\ next_page_id' \in 0 .. MaxPages
      /\ tree_of' \in [PageId -> PageId \cup {NoPage}]
      /\ PagesAreInTrees' /\ TablesKept
  <2>1. CASE UNCHANGED <<on_log, next_page_id, tree_of>>
    BY <1>1, <2>1, SameTables DEF CatalogInv, CatalogTypeOK, PagesAreInTrees
  <2>2. CASE AddPage(arg.page)
    <3>1. arg.page \in on_log \ {0} /\ tree_of[arg.page] = arg.page /\ pc # "closed"
      BY <1>2, InsertFacts
    <3> QED
      BY <1>1, <2>2, <3>1, PageAdded
  <2> QED
    BY <1>1, <2>1, <2>2
<1>4. CatalogTypeOK'
  BY <1>1, <1>3 DEF CatalogInv, CatalogTypeOK
<1>5. EntriesAreSound' /\ TablesAreDisjoint' /\ InUse(cat') = InUse(cat)
  BY <1>3, KeptTables
<1>6. CellsAreRows'
  BY <1>1, <1>3, KeptCells
<1>7. CountsCoverCells'
  <2>1. \A i \in InUse(cat) :
           cat.tables[i].row_count + missed[i] + Pending(i)
              <= cat'.tables[i].row_count + missed'[i] + Pending(i)'
    BY <1>1, <1>2 DEF InUse, CatalogInv, CatalogTypeOK, Entry, Pending
  <2> QED
    BY <1>1, <1>3, <1>4, <2>1, KeptCounts
<1>8. NewTableIsFresh'
  BY <1>1 DEF NewTableIsFresh
<1>9. HandlesMatch'
  <2>1. arg'.slot \in InUse(cat') /\ arg'.page = tree_of'[cat'.tables[arg'.slot].root_page_id]
    BY <1>1, <1>2, <1>3, <1>5, InsertFacts DEF TablesKept
  <2>2. \A i \in Slot :
           /\ tables[i].in_use = cat.tables[i].in_use
           /\ tables[i].in_use => /\ tables[i].table_name = cat.tables[i].table_name
                                  /\ tables[i].columns = cat.tables[i].columns
                                  /\ tables[i].tree \in {NoPage, cat.tables[i].root_page_id}
    BY <1>1 DEF CatalogInv, HandlesMatch
  <2> QED
    BY <1>1, <2>1, <2>2 DEF HandlesMatch, TreeOf
<1> QED
  BY <1>3, <1>4, <1>5, <1>6, <1>7, <1>8, <1>9 DEF CatalogInv

LEMMA NewRootStep == ASSUME CatalogInv, NewRoot PROVE CatalogInv'
<1> DEFINE s == arg.slot
           root == next_page_id
<1>1. /\ pc = "split" /\ pc' = "root" /\ AddPage(arg.page)
      /\ tables' = [tables EXCEPT ![s].tree = root]
      /\ UNCHANGED <<cat, cat_logged, cells, arg, calls, crashes, rows, torn, missed>>
  BY DEF NewRoot, ghosts
<1>2. Inserting /\ Inserting'
  BY <1>1 DEF Inserting
<1>3. /\ root \in PageId \ {0} /\ root \in on_log'
      /\ on_log' \in SUBSET PageId /\ next_page_id' \in 0 .. MaxPages
      /\ tree_of' \in [PageId -> PageId \cup {NoPage}]
      /\ tree_of'[root] = arg.page
      /\ PagesAreInTrees' /\ TablesKept
  <2>1. arg.page \in on_log \ {0} /\ tree_of[arg.page] = arg.page /\ pc # "closed"
    BY <1>2, InsertFacts
  <2> QED
    BY <1>1, <2>1, PageAdded
<1>4. /\ s \in Slot /\ s \in InUse(cat) /\ arg.page = TreeOf(s)
  BY <1>2, InsertFacts
<1> HIDE DEF s, root
<1>5. /\ tables' \in [Slot -> Handle]
      /\ tables'[s].tree = root
      /\ \A i \in Slot : /\ tables'[i].in_use = tables[i].in_use
                         /\ tables'[i].table_name = tables[i].table_name
                         /\ tables'[i].columns = tables[i].columns
                         /\ i # s => tables'[i].tree = tables[i].tree
  BY <1>1, <1>3, <1>4, TreeSet DEF CatalogInv
<1>6. CatalogTypeOK'
  BY <1>1, <1>3, <1>5 DEF CatalogInv, CatalogTypeOK
<1>7. EntriesAreSound' /\ TablesAreDisjoint' /\ InUse(cat') = InUse(cat)
  BY <1>3, KeptTables
<1>8. CellsAreRows'
  BY <1>1, <1>3, KeptCells
<1>9. CountsCoverCells'
  <2>1. \A i \in InUse(cat) :
           cat.tables[i].row_count + missed[i] + Pending(i)
              <= cat'.tables[i].row_count + missed'[i] + Pending(i)'
    BY <1>1, <1>2, SMTT(30) DEF InUse, CatalogInv, CatalogTypeOK, Entry, Pending
  <2> QED
    BY <1>1, <1>3, <1>6, <2>1, KeptCounts
<1>10. NewTableIsFresh'
  BY <1>1 DEF NewTableIsFresh
<1>11. HandlesMatch'
  <2>1. arg'.slot \in InUse(cat') /\ arg'.page = tree_of'[cat'.tables[arg'.slot].root_page_id]
    BY <1>1, <1>3, <1>4, <1>7 DEF TablesKept, s
  <2>2. ASSUME NEW i \in Slot
        PROVE  /\ tables'[i].in_use = cat.tables[i].in_use
               /\ tables'[i].in_use => /\ tables'[i].table_name = cat.tables[i].table_name
                                       /\ tables'[i].columns = cat.tables[i].columns
                                       /\ \/ tables'[i].tree \in {NoPage, cat.tables[i].root_page_id}
                                          \/ i = s
    <3>1. /\ tables[i].in_use = cat.tables[i].in_use
          /\ tables[i].in_use => /\ tables[i].table_name = cat.tables[i].table_name
                                 /\ tables[i].columns = cat.tables[i].columns
                                 /\ tables[i].tree \in {NoPage, cat.tables[i].root_page_id}
      BY <1>1 DEF CatalogInv, HandlesMatch
    <3>2. /\ tables'[i].in_use = tables[i].in_use
          /\ tables'[i].table_name = tables[i].table_name
          /\ tables'[i].columns = tables[i].columns
          /\ i # s => tables'[i].tree = tables[i].tree
      BY <1>5
    <3>3. tables[i].in_use \in BOOLEAN /\ tables'[i].in_use \in BOOLEAN
      BY <1>5 DEF CatalogInv, CatalogTypeOK, Handle
    <3> QED
      BY <3>1, <3>2, <3>3
  <2>3. tables'[arg'.slot].tree \in on_log' \ {0}
        /\ tree_of'[tables'[arg'.slot].tree] = arg'.page
    BY <1>1, <1>3, <1>5 DEF s
  <2> QED
    BY <1>1, <2>1, <2>2, <2>3 DEF HandlesMatch, TreeOf, s
<1> QED
  BY <1>3, <1>6, <1>7, <1>8, <1>9, <1>10, <1>11 DEF CatalogInv

\* The catalog page with one entry in use replaced by one of the same table.
LEMMA EntryChanged ==
  ASSUME CatalogInv, pc \in {"root", "bump"}, pc' \in {"bump", "idle"},
         NEW s, s = arg.slot, NEW e \in Entry,
         LogCatalog([cat EXCEPT !.tables[s] = e]),
         e.in_use, e.table_name = cat.tables[s].table_name, e.columns = cat.tables[s].columns,
         e.root_page_id = TreeRoot(s), TreeRoot(s) \in on_log \ {0},
         tree_of[TreeRoot(s)] = TreeOf(s),
         cat.tables[s].row_count + 1 <= e.row_count + Pending(s)',
         UNCHANGED <<on_log, next_page_id, tree_of, cells, tables, arg, calls, crashes,
                     rows, torn, missed>>
  PROVE  CatalogInv'
<1>1. /\ s \in Slot /\ s \in InUse(cat) /\ arg.page = TreeOf(s) /\ Inserting
  BY InsertFacts DEF Inserting
<1>2. cat \in [num_tables : Nat, tables : [Slot -> Entry]]
  BY DEF CatalogInv, CatalogTypeOK
<1>3. /\ cat' \in [num_tables : Nat, tables : [Slot -> Entry]]
      /\ cat_logged' = cat' /\ cat'.num_tables = cat.num_tables
      /\ cat'.tables[s] = e
      /\ \A i \in Slot : i # s => cat'.tables[i] = cat.tables[i]
  BY <1>1, <1>2 DEF LogCatalog
<1>4. CatalogTypeOK'
  BY <1>3 DEF CatalogInv, CatalogTypeOK
<1>5. TablesKept
  <2>1. \A i \in Slot : cat'.tables[i].in_use = cat.tables[i].in_use
    <3>1. cat.tables[s].in_use \in BOOLEAN /\ e.in_use \in BOOLEAN /\ cat.tables[s].in_use
      BY <1>1, <1>2 DEF Entry, InUse
    <3> QED
      BY <1>3, <3>1
  <2>2. ASSUME NEW i \in InUse(cat)
        PROVE  /\ cat'.tables[i].table_name = cat.tables[i].table_name
               /\ cat'.tables[i].columns = cat.tables[i].columns
               /\ cat'.tables[i].root_page_id \in on_log' \ {0}
               /\ tree_of'[cat'.tables[i].root_page_id] = TreeOf(i)
    <3>1. CASE i = s
      BY <1>3, <3>1
    <3>2. CASE i # s
      BY <1>3, <3>2, EntryFacts DEF TreeOf
    <3> QED
      BY <3>1, <3>2
  <2> QED
    BY <1>3, <2>1, <2>2 DEF TablesKept
<1>6. EntriesAreSound' /\ TablesAreDisjoint' /\ InUse(cat') = InUse(cat)
  BY <1>5, KeptTables
<1>7. CellsAreRows'
  BY <1>5, KeptCells
<1>8. CountsCoverCells'
  <2>1. ASSUME NEW i \in InUse(cat)
        PROVE  cat.tables[i].row_count + missed[i] + Pending(i)
                  <= cat'.tables[i].row_count + missed'[i] + Pending(i)'
    <3>1. /\ i \in Slot /\ cat.tables[i].row_count \in Nat /\ missed[i] \in Nat
          /\ e.row_count \in Nat
      BY DEF InUse, CatalogInv, CatalogTypeOK, Entry
    <3>2. Pending(i)' \in Nat /\ Pending(s)' \in Nat
      BY DEF Pending
    <3>3. CASE i = s
      <4>1. Pending(i) = 1
        BY <1>1, <3>3 DEF Pending
      <4> QED
        BY <1>3, <3>1, <3>2, <3>3, <4>1
    <3>4. CASE i # s
      <4>1. Pending(i) = 0
        BY <3>4 DEF Pending
      <4> QED
        BY <1>3, <3>1, <3>2, <3>4, <4>1
    <3> QED
      BY <3>3, <3>4
  <2> QED
    BY <1>4, <1>5, <2>1, KeptCounts
<1>9. PagesAreInTrees' /\ NewTableIsFresh'
  BY <1>3 DEF CatalogInv, PagesAreInTrees, NewTableIsFresh
<1>10. HandlesMatch'
  <2>1. arg'.slot \in InUse(cat') /\ arg'.page = tree_of'[cat'.tables[arg'.slot].root_page_id]
    BY <1>1, <1>5, <1>6 DEF TablesKept
  <2>2. ASSUME NEW i \in Slot
        PROVE  /\ tables[i].in_use = cat'.tables[i].in_use
               /\ tables[i].in_use => /\ tables[i].table_name = cat'.tables[i].table_name
                                      /\ tables[i].columns = cat'.tables[i].columns
                                      /\ tables[i].tree \in {NoPage, cat'.tables[i].root_page_id}
    <3>1. /\ tables[i].in_use = cat.tables[i].in_use
          /\ tables[i].in_use => /\ tables[i].table_name = cat.tables[i].table_name
                                 /\ tables[i].columns = cat.tables[i].columns
                                 /\ \/ tables[i].tree \in {NoPage, cat.tables[i].root_page_id}
                                    \/ i = s
      BY DEF CatalogInv, HandlesMatch
    <3>2. cat'.tables[i].in_use = cat.tables[i].in_use
      BY <1>5 DEF TablesKept
    <3>3. CASE i # s
      BY <1>3, <3>1, <3>3
    <3>4. CASE i = s
      <4>1. tables[i].tree \in {NoPage, e.root_page_id}
        BY <3>4 DEF TreeRoot
      <4>2. cat'.tables[i] = e /\ cat.tables[i].table_name = e.table_name
            /\ cat.tables[i].columns = e.columns
        BY <1>3, <3>4
      <4>3. cat.tables[i].in_use
        BY <1>1, <3>4 DEF InUse
      <4>4. tables[i].in_use \in BOOLEAN /\ cat.tables[i].in_use \in BOOLEAN
        BY <1>2 DEF CatalogInv, CatalogTypeOK, Handle, Entry
      <4> QED
        BY <3>1, <3>2, <4>1, <4>2, <4>3, <4>4
    <3> QED
      BY <3>3, <3>4
  <2> QED
    BY <2>1, <2>2 DEF HandlesMatch, TreeOf
<1> QED
  BY <1>4, <1>6, <1>7, <1>8, <1>9, <1>10 DEF CatalogInv

LEMMA WriteRootPageIdStep == ASSUME CatalogInv, WriteRootPageId PROVE CatalogInv'
<1>1. PICK s : s = arg.slot
  OBVIOUS
<1> DEFINE e == [cat.tables[s] EXCEPT !.root_page_id = tables[s].tree]
<1>2. /\ pc = "root" /\ pc' = "bump"
      /\ LogCatalog([cat EXCEPT !.tables[s].root_page_id = tables[s].tree])
      /\ UNCHANGED <<on_log, next_page_id, tree_of, cells, tables, arg, calls, crashes,
                     rows, torn, missed>>
  BY <1>1 DEF WriteRootPageId, ghosts
<1>3. s \in Slot /\ s \in InUse(cat) /\ arg.page = TreeOf(s)
  BY <1>1, <1>2, InsertFacts DEF Inserting
<1>4. /\ tables[s].tree \in on_log \ {0} /\ tree_of[tables[s].tree] = TreeOf(s)
      /\ tables[s].tree \in PageId
  BY <1>1, <1>2, <1>3, PagesFacts DEF CatalogInv, HandlesMatch
<1>5. cat \in [num_tables : Nat, tables : [Slot -> Entry]] /\ cat.tables[s] \in Entry
  BY <1>3 DEF CatalogInv, CatalogTypeOK
<1>6. /\ e \in Entry /\ e.in_use /\ e.table_name = cat.tables[s].table_name
      /\ e.columns = cat.tables[s].columns /\ e.root_page_id = tables[s].tree
      /\ e.row_count = cat.tables[s].row_count /\ e.row_count \in Nat
  BY <1>3, <1>4, <1>5 DEF Entry, InUse
<1>7. TreeRoot(s) = tables[s].tree
  BY <1>4, CatalogNoPageAssumption DEF TreeRoot
<1>8. [cat EXCEPT !.tables[s].root_page_id = tables[s].tree] = [cat EXCEPT !.tables[s] = e]
  BY <1>3, <1>5
<1>9. Pending(s)' = 1
  BY <1>1, <1>2 DEF Pending, Inserting
<1> HIDE DEF e
<1>10. /\ LogCatalog([cat EXCEPT !.tables[s] = e])
       /\ e.root_page_id = TreeRoot(s) /\ TreeRoot(s) \in on_log \ {0}
       /\ tree_of[TreeRoot(s)] = TreeOf(s)
       /\ cat.tables[s].row_count + 1 <= e.row_count + Pending(s)'
  BY <1>2, <1>4, <1>6, <1>7, <1>8, <1>9
<1> QED
  BY <1>1, <1>2, <1>6, <1>10, EntryChanged

LEMMA BumpRowCountStep == ASSUME CatalogInv, BumpRowCount PROVE CatalogInv'
<1>1. PICK s : s = arg.slot
  OBVIOUS
<1> DEFINE e == [cat.tables[s] EXCEPT !.row_count = @ + 1]
<1>2. /\ pc = "bump" /\ pc' = "idle"
      /\ LogCatalog([cat EXCEPT !.tables[s].row_count = @ + 1])
      /\ UNCHANGED <<on_log, next_page_id, tree_of, cells, tables, arg, calls, crashes,
                     rows, torn, missed>>
  BY <1>1 DEF BumpRowCount, ghosts
<1>3. s \in Slot /\ s \in InUse(cat) /\ arg.page = TreeOf(s)
  BY <1>1, <1>2, InsertFacts DEF Inserting
<1>4. TreeRoot(s) = cat.tables[s].root_page_id /\ TreeRoot(s) \in on_log \ {0}
  <2>1. cat.tables[s].in_use /\ cat.tables[s].root_page_id \in on_log \ {0}
    BY <1>3, EntryFacts DEF InUse
  <2>2. tables[s].tree \in {NoPage, cat.tables[s].root_page_id}
    BY <1>2, <1>3, <2>1 DEF CatalogInv, HandlesMatch
  <2> QED
    BY <2>1, <2>2 DEF TreeRoot
<1>5. cat \in [num_tables : Nat, tables : [Slot -> Entry]] /\ cat.tables[s] \in Entry
  BY <1>3 DEF CatalogInv, CatalogTypeOK
<1>6. /\ e \in Entry /\ e.in_use /\ e.table_name = cat.tables[s].table_name
      /\ e.columns = cat.tables[s].columns /\ e.root_page_id = cat.tables[s].root_page_id
      /\ e.row_count = cat.tables[s].row_count + 1 /\ e.row_count \in Nat
  BY <1>3, <1>5 DEF Entry, InUse
<1>7. [cat EXCEPT !.tables[s].row_count = @ + 1] = [cat EXCEPT !.tables[s] = e]
  BY <1>3, <1>5
<1>8. Pending(s)' = 0
  BY <1>2 DEF Pending, Inserting
<1> HIDE DEF e
<1>9. /\ LogCatalog([cat EXCEPT !.tables[s] = e])
      /\ e.root_page_id = TreeRoot(s) /\ TreeRoot(s) \in on_log \ {0}
      /\ tree_of[TreeRoot(s)] = TreeOf(s)
      /\ cat.tables[s].row_count + 1 <= e.row_count + Pending(s)'
  BY <1>2, <1>4, <1>6, <1>7, <1>8 DEF TreeOf
<1> QED
  BY <1>1, <1>2, <1>6, <1>9, EntryChanged

LEMMA QuietStep == ASSUME CatalogInv, UNCHANGED vars PROVE CatalogInv'
<1> USE DEF CatalogInv, vars, pages, ghosts
<1>1. CatalogTypeOK' /\ PagesAreInTrees' /\ EntriesAreSound' /\ TablesAreDisjoint'
  BY DEF CatalogTypeOK, PagesAreInTrees, EntriesAreSound, TablesAreDisjoint
<1>2. NewTableIsFresh' /\ HandlesMatch'
  BY DEF NewTableIsFresh, HandlesMatch, Inserting, TreeOf
<1>3. CellsAreRows' /\ CountsCoverCells'
  BY SMTT(60) DEF CellsAreRows, CountsCoverCells, TreeOf, EstimatedRowCount, Pending, Inserting
<1> QED
  BY <1>1, <1>2, <1>3

\* The catalog, its pages and the handles stay consistent through every call,
\* at every log record and over every crash and reopening.
THEOREM CatalogCorrect == Spec => []CatalogInv
<1>1. Init => CatalogInv
  BY InitHolds
<1>2. CatalogInv /\ [Next]_vars => CatalogInv'
  <2> SUFFICES ASSUME CatalogInv, [Next]_vars PROVE CatalogInv'
    OBVIOUS
  <2>1. CASE OpenFresh \/ Reopen \/ Close \/ Crash
    BY <2>1, OpenFreshStep, ReopenStep, CloseStep, CrashStep
  <2>2. ASSUME NEW name \in Names \cup {BadName}, NEW columns \in Columns,
               CreateTable(name, columns) \/ CreateTableRejected(name, columns)
        PROVE  CatalogInv'
    BY <2>2, CreateTableStep, QuietStep DEF CreateTableRejected
  <2>3. ASSUME NEW name \in Names, NEW values \in Rows,
               \/ InsertRow(name, values)
               \/ InsertRowThrows(name, values)
               \/ InsertRowRejected(name, values)
        PROVE  CatalogInv'
    BY <2>3, InsertRowStep, InsertRowThrowsStep, QuietStep DEF InsertRowRejected
  <2>4. CASE CreateEntry \/ SplitClimbs \/ NewRoot
    BY <2>4, CreateEntryStep, SplitClimbsStep, NewRootStep
  <2>5. CASE WriteRootPageId \/ BumpRowCount
    BY <2>5, WriteRootPageIdStep, BumpRowCountStep
  <2>6. ASSUME NEW name \in Names, ScanTable(name) PROVE CatalogInv'
    BY <2>6, ScanTableStep
  <2>7. CASE UNCHANGED vars
    BY <2>7, QuietStep
  <2> QED
    BY <2>1, <2>2, <2>3, <2>4, <2>5, <2>6, <2>7 DEF Next
<1> QED
  BY <1>1, <1>2, PTL DEF Spec

\* What the calls of the catalog may rely on is well typed: entries, handles,
\* cells and the arguments of the call under way.
THEOREM CatalogTypes == Spec => []CatalogTypeOK
<1>1. CatalogInv => CatalogTypeOK
  BY DEF CatalogInv
<1> QED
  BY <1>1, CatalogCorrect, PTL

\* Whenever a crash strikes, every root page the logged catalog refers to is
\* in the log: CreateTable and the root split log the page before the entry.
THEOREM LoggedRoots == Spec => []RootsAreLogged
<1>1. CatalogInv => RootsAreLogged
  <2> SUFFICES ASSUME CatalogInv PROVE RootsAreLogged
    OBVIOUS
  <2>1. cat = cat_logged
    BY DEF CatalogInv, PagesAreInTrees
  <2> QED
    BY <2>1, EntryFacts DEF RootsAreLogged
<1> QED
  BY <1>1, CatalogCorrect, PTL

\* Two tables never share a name or a page, whatever pages a crash orphaned,
\* and num_tables is their number.
THEOREM DisjointTables == Spec => []TablesAreDisjoint
<1>1. CatalogInv => TablesAreDisjoint
  BY DEF CatalogInv
<1> QED
  BY <1>1, CatalogCorrect, PTL

\* Between two calls the handles and their cached roots are those of the
\* catalog page.
THEOREM CurrentHandles == Spec => []HandlesAreCurrent
<1>1. CatalogInv => HandlesAreCurrent
  BY DEF CatalogInv, HandlesMatch, HandlesAreCurrent
<1> QED
  BY <1>1, CatalogCorrect, PTL

\* ScanTable returns, decoded, exactly the rows that were inserted.
THEOREM ExactScans == Spec => []ScanIsExact
<1>1. CatalogInv => ScanIsExact
  <2> SUFFICES ASSUME CatalogInv, pc = "idle", NEW name \in Names
               PROVE  IF FindTableIndex(name) = 0 THEN rows[name] = {}
                      ELSE \/ tree_of[TreeRoot(FindTableIndex(name))] \in torn
                           \/ ScannedRows(FindTableIndex(name)) = rows[name]
    BY DEF ScanIsExact
  <2>1. CASE ~TableExists(name)
    <3>1. FindTableIndex(name) = 0 /\ \A i \in InUse(cat) : cat.tables[i].table_name # name
      BY <2>1, FoundTable
    <3>2. rows[name] = {}
      BY <3>1 DEF CatalogInv, CellsAreRows
    <3> QED
      BY <3>1, <3>2
  <2>2. CASE TableExists(name)
    <3>1. PICK s : s = FindTableIndex(name)
      OBVIOUS
    <3> DEFINE columns == cat.tables[s].columns
    <3>2. s # 0 /\ s \in InUse(cat) /\ cat.tables[s].table_name = name
          /\ tables[s].columns = columns
      BY <2>2, <3>1, FoundTable
    <3>3. columns \in Columns /\ ValidSchema(columns)
          /\ tree_of[TreeRoot(s)] = TreeOf(s)
      BY <3>2, EntryFacts, RootOfTable DEF TreeOf
    <3>4. /\ \A r \in rows[name] : r \in Rows /\ ValidRow(columns, r)
          /\ TreeOf(s) \in torn \/ cells[TreeOf(s)] = {CellOf(columns, r) : r \in rows[name]}
      BY <3>2 DEF CatalogInv, CatalogTypeOK, CellsAreRows
    <3>5. \A r \in rows[name] :
             Decode(columns, CellOf(columns, r).key, CellOf(columns, r).blob) = r
      BY <3>3, <3>4, DecodeEncode DEF CellOf
    <3>6. TreeOf(s) \in torn \/ ScannedRows(s) = rows[name]
      <4>1. SUFFICES ASSUME TreeOf(s) \notin torn PROVE ScannedRows(s) = rows[name]
        OBVIOUS
      <4>2. ScannedRows(s) = {Decode(columns, c.key, c.blob) : c \in cells[TreeOf(s)]}
        BY <3>2, <3>3 DEF ScannedRows
      <4>3. cells[TreeOf(s)] = {CellOf(columns, r) : r \in rows[name]}
        BY <3>4, <4>1
      <4> HIDE DEF columns
      <4> QED
        BY <3>5, <4>2, <4>3
    <3> QED
      BY <3>1, <3>2, <3>3, <3>6
  <2> QED
    BY <2>1, <2>2
<1> QED
  BY <1>1, CatalogCorrect, PTL

\* EstimatedRowCount falls short of a table's cells by no more than the
\* inserts a crash or an exception cut off before the count.
THEOREM RowCounts == Spec => []RowCountBound
<1>1. CatalogInv => RowCountBound
  <2> SUFFICES ASSUME CatalogInv, pc = "idle", NEW i \in InUse(cat)
               PROVE  Cardinality(cells[tree_of[TreeRoot(i)]]) <= EstimatedRowCount(i) + missed[i]
    BY DEF RowCountBound
  <2>1. tree_of[TreeRoot(i)] = TreeOf(i)
    BY RootOfTable DEF TreeOf
  <2>2. Cardinality(cells[TreeOf(i)]) <= EstimatedRowCount(i) + missed[i] + Pending(i)
    BY DEF CatalogInv, CountsCoverCells
  <2>3. Pending(i) = 0
    BY DEF Pending, Inserting
  <2>4. EstimatedRowCount(i) \in Nat /\ missed[i] \in Nat
    BY DEF InUse, CatalogInv, CatalogTypeOK, Entry, EstimatedRowCount
  <2> QED
    BY <2>1, <2>2, <2>3, <2>4
<1> QED
  BY <1>1, CatalogCorrect, PTL
=============================================================================
