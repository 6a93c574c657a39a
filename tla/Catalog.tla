------------------------------ MODULE Catalog ------------------------------
(***************************************************************************)
(* The catalog of tables (catalog.cpp, catalog_page.h) and the in-memory   *)
(* handles on them, over the page store of module PageStore.               *)
(*                                                                         *)
(* Creating a table and inserting a row each log several pages one after   *)
(* the other; an action ends at one such point and the process may die     *)
(* between any two.                                                        *)
(*                                                                         *)
(* A table's B+ tree, the subject of module BTree, is seen here from       *)
(* outside.  Splits give pages away to the right only, so the page a tree  *)
(* was created with stays its leftmost leaf, where every scan starts:      *)
(* tree_of[p] is that page for the tree p is a page of, and cells[a] is    *)
(* what a scan from leaf a meets.  Whether an insert splits, and whether   *)
(* the root, is left open.                                                 *)
(***************************************************************************)
EXTENDS RowCodec, FiniteSets

CONSTANTS
    Names,                  \* table names
    BadName,                \* a name that is empty or too long
    Columns,                \* the column lists CREATE TABLE is tried with
    Rows,                   \* the value lists INSERT is tried with
    MAX_CATALOG_TABLES,
    MAX_CATALOG_COLUMNS,
    VALUE_SIZE,
    NoPage,                 \* INVALID_PAGE_ID
    MaxPages,               \* bound on the number of pages
    MaxCalls,               \* bound on the number of calls that change something
    MaxCrashes              \* bound on the number of crashes

ASSUME CatalogBoundsAssumption ==
    /\ MAX_CATALOG_TABLES \in Nat \ {0}
    /\ MAX_CATALOG_COLUMNS \in Nat \ {0}
    /\ VALUE_SIZE \in Nat
    /\ MaxPages \in Nat \ {0}
    /\ MaxCalls \in Nat
    /\ MaxCrashes \in Nat

ASSUME BadNameAssumption == BadName \notin Names

\* A column list has columns with a type and a flag, a value list has values.
ASSUME ColumnsAssumption ==
    \A columns \in Columns :
        /\ Len(columns) \in Nat
        /\ DOMAIN columns = 1 .. Len(columns)
        /\ \A i \in 1 .. Len(columns) : /\ columns[i].type \in {"INTEGER", "TEXT"}
                                         /\ columns[i].is_primary_key \in BOOLEAN
ASSUME RowsAssumption == Rows \subseteq Seq(Value)

PageId == 0 .. MaxPages - 1

ASSUME CatalogNoPageAssumption == NoPage \notin PageId

Slot == 1 .. MAX_CATALOG_TABLES

\* CatalogTableEntry; an unused slot is zeroed.
Entry == [in_use : BOOLEAN, table_name : Names \cup {BadName}, columns : Columns \cup {<< >>},
          root_page_id : PageId, row_count : Nat]
EmptyEntry == [in_use |-> FALSE, table_name |-> BadName, columns |-> << >>,
               root_page_id |-> 0, row_count |-> 0]
EmptyBody == [num_tables |-> 0, tables |-> [i \in Slot |-> EmptyEntry]]

\* TableHandle; tree is the root_page_id_ of its BTree, NoPage while there
\* is none.
Handle == [in_use : BOOLEAN, table_name : Names \cup {BadName}, columns : Columns \cup {<< >>},
           tree : PageId \cup {NoPage}]
EmptyHandle == [in_use |-> FALSE, table_name |-> BadName, columns |-> << >>, tree |-> NoPage]

VARIABLES
    cat,            \* CatalogBody as the buffer pool shows page 0
    cat_logged,     \* CatalogBody as recovery would restore it
    on_log,         \* the pages that have a record in the log
    next_page_id,   \* DiskManager's allocation counter
    tree_of,        \* the tree a page belongs to; NoPage for none
    cells,          \* what a scan of a tree meets, as logged
    tables,         \* tables_
    pc,             \* where the one thread is
    arg,            \* slot and page of the call under way
    calls, crashes, \* bounded counters
    rows,           \* for each table, the rows that were inserted
    torn,           \* trees in which a crash hit a split half-way
    missed          \* for each slot, the inserts that ended before the count

pages == <<cat, cat_logged, on_log, next_page_id, tree_of, cells>>
ghosts == <<rows, torn, missed>>
vars == <<pages, tables, pc, arg, calls, crashes, ghosts>>

\* The types of the catalog page, its logged form and the table handles; a
\* slot handed out by CreateTable is a slot of the catalog page.
CatalogTypeOK ==
    /\ cat \in [num_tables : Nat, tables : [Slot -> Entry]]
    /\ cat_logged \in [num_tables : Nat, tables : [Slot -> Entry]]
    /\ on_log \in SUBSET PageId
    /\ next_page_id \in 0 .. MaxPages
    /\ tree_of \in [PageId -> PageId \cup {NoPage}]
    /\ DOMAIN cells = PageId
    /\ \A a \in PageId : \A c \in cells[a] : c.key \in Int /\ DOMAIN c.blob \subseteq Nat
    /\ tables \in [Slot -> Handle]
    /\ pc \in {"closed", "idle", "entry", "split", "root", "bump"}
    /\ arg \in [name : Names \cup {BadName}, columns : Columns \cup {<< >>},
                slot : Slot, page : PageId]
    /\ calls \in 0 .. MaxCalls
    /\ crashes \in 0 .. MaxCrashes
    /\ rows \in [Names -> SUBSET Rows]
    /\ torn \in SUBSET PageId
    /\ missed \in [Slot -> Nat]

NoArg == [name |-> BadName, columns |-> << >>, slot |-> 1, page |-> 0]

Init ==
    /\ cat = EmptyBody
    /\ cat_logged = EmptyBody
    /\ on_log = {}
    /\ next_page_id = 0
    /\ tree_of = [p \in PageId |-> NoPage]
    /\ cells = [p \in PageId |-> {}]
    /\ tables = [i \in Slot |-> EmptyHandle]
    /\ pc = "closed"
    /\ arg = NoArg
    /\ calls = 0
    /\ crashes = 0
    /\ rows = [n \in Names |-> {}]
    /\ torn = {}
    /\ missed = [i \in Slot |-> 0]

-----------------------------------------------------------------------------
(* Opening. *)

\* The page count after recovery: every logged page has been written.
DiskPageCount == IF on_log = {} THEN 0 ELSE 1 + Max(on_log)

\* A guard on the catalog page is released: page 0 is logged as it now is.
LogCatalog(body) ==
    /\ cat' = body
    /\ cat_logged' = body

\* Catalog's constructor on a database without pages: an empty catalog page.
OpenFresh ==
    /\ pc = "closed"
    /\ DiskPageCount = 0
    /\ LogCatalog(EmptyBody)
    /\ on_log' = {0}
    /\ next_page_id' = 1
    /\ tables' = [i \in Slot |-> EmptyHandle]
    /\ pc' = "idle"
    /\ UNCHANGED <<tree_of, cells, arg, calls, crashes, ghosts>>

\* The handle of a table found in the catalog; its tree is constructed later.
HandleOf(entry) ==
    [in_use |-> TRUE, table_name |-> entry.table_name,
     columns |-> entry.columns, tree |-> NoPage]

\* The constructor on a database that has pages.
Reopen ==
    /\ pc = "closed"
    /\ DiskPageCount > 0
    /\ cat' = cat_logged
    /\ next_page_id' = DiskPageCount
    /\ tables' = [i \in Slot |-> IF cat_logged.tables[i].in_use
                                 THEN HandleOf(cat_logged.tables[i]) ELSE EmptyHandle]
    /\ pc' = "idle"
    /\ UNCHANGED <<cat_logged, on_log, tree_of, cells, arg, calls, crashes, ghosts>>

-----------------------------------------------------------------------------
(* CreateTable. *)

\* FindTableIndex; 0 for "no such table".
FindTableIndex(name) ==
    LET found == {i \in Slot : tables[i].in_use /\ tables[i].table_name = name}
    IN  IF found = {} THEN 0 ELSE Min(found)

TableExists(name) == FindTableIndex(name) # 0

\* CreateTable's checks of the declaration, in their order.
ValidSchema(columns) ==
    LET keys == {i \in 1 .. Len(columns) : columns[i].is_primary_key}
    IN  /\ Len(columns) \in 1 .. MAX_CATALOG_COLUMNS
        /\ \A i \in 1 .. Len(columns) : columns[i].name # BadName
        /\ Cardinality(keys) = 1
        /\ \A i \in keys : columns[i].type = "INTEGER"
        /\ EncodedSize(columns) <= VALUE_SIZE

FreeSlots == {i \in Slot : ~tables[i].in_use}

\* Seeded fault: the slot is computed from the number of tables, off by one.
FreeSlotByCount == Cardinality(Slot \ FreeSlots) + 2

FreeSlot == Min(FreeSlots)

\* Seeded fault: a table may be created twice under one name.
CanCreateTwice(name, columns) ==
    name # BadName /\ ValidSchema(columns) /\ FreeSlots # {}

CanCreate(name, columns) ==
    /\ name # BadName
    /\ ~TableExists(name)
    /\ ValidSchema(columns)
    /\ FreeSlots # {}

\* CatalogError: nothing happens.
CreateTableRejected(name, columns) ==
    /\ pc = "idle"
    /\ ~CanCreate(name, columns)
    /\ UNCHANGED vars

\* The next page of the file goes to the tree of leaf a and is logged.
AddPage(a) ==
    /\ next_page_id < MaxPages
    /\ tree_of' = [tree_of EXCEPT ![next_page_id] = a]
    /\ on_log' = on_log \cup {next_page_id}
    /\ next_page_id' = next_page_id + 1

\* Seeded fault: the root page's guard is not marked dirty.
CreateTableUnlogged(name, columns) ==
    /\ pc = "idle"
    /\ calls < MaxCalls
    /\ CanCreate(name, columns)
    /\ next_page_id < MaxPages
    /\ tree_of' = [tree_of EXCEPT ![next_page_id] = next_page_id]
    /\ next_page_id' = next_page_id + 1
    /\ arg' = [name |-> name, columns |-> columns,
               slot |-> FreeSlot, page |-> next_page_id]
    /\ calls' = calls + 1
    /\ pc' = "entry"
    /\ UNCHANGED <<cat, cat_logged, on_log, cells, tables, crashes, ghosts>>

\* The table's root page is allocated and logged first ...
CreateTable(name, columns) ==
    /\ pc = "idle"
    /\ calls < MaxCalls
    /\ CanCreate(name, columns)
    /\ AddPage(next_page_id)
    /\ cells' = [cells EXCEPT ![next_page_id] = {}]
    /\ arg' = [name |-> name, columns |-> columns,
               slot |-> FreeSlot, page |-> next_page_id]
    /\ calls' = calls + 1
    /\ pc' = "entry"
    /\ UNCHANGED <<cat, cat_logged, tables, crashes, ghosts>>

NewEntry == [in_use |-> TRUE, table_name |-> arg.name, columns |-> arg.columns,
             root_page_id |-> arg.page, row_count |-> 0]

\* ... then the catalog page that refers to it; the handle comes last.
CreateEntry ==
    /\ pc = "entry"
    /\ LogCatalog([num_tables |-> cat.num_tables + 1,
                   tables |-> [cat.tables EXCEPT ![arg.slot] = NewEntry]])
    /\ tables' = [tables EXCEPT ![arg.slot] = HandleOf(NewEntry)]
    /\ pc' = "idle"
    /\ UNCHANGED <<on_log, next_page_id, tree_of, cells, arg, calls, crashes, ghosts>>

-----------------------------------------------------------------------------
(* Rows. *)

\* GetTable constructs the tree from the catalog page on first use.
TreeRoot(slot) ==
    IF tables[slot].tree = NoPage THEN cat.tables[slot].root_page_id
    ELSE tables[slot].tree

GetTable(slot) == tables' = [tables EXCEPT ![slot].tree = TreeRoot(slot)]

KeyOf(columns, values) == values[PrimaryKeyIndex(columns)].data

\* InsertRow's and Encode's checks of the values, in their order.
ValidRow(columns, values) ==
    /\ Len(values) = Len(columns)
    /\ values[PrimaryKeyIndex(columns)].kind = "INTEGER"
    /\ Encodable(columns, values)

\* The B+ tree cell of a row.
CellOf(columns, values) ==
    [key |-> KeyOf(columns, values), blob |-> Encode(columns, values)]

\* CatalogError or RowEncodingError: nothing happens.
InsertRowRejected(name, values) ==
    /\ pc = "idle"
    /\ TableExists(name) => ~ValidRow(tables[FindTableIndex(name)].columns, values)
    /\ UNCHANGED vars

\* BTree::Insert puts the cell of a row into the tree of leaf a: it replaces
\* the cell that has the key.  In a tree with a half-finished split the
\* search may end in another leaf than that cell's and add a second one.
PutCell(a, cell) ==
    \/ cells' = [cells EXCEPT ![a] = {c \in @ : c.key # cell.key} \cup {cell}]
    \/ a \in torn /\ cells' = [cells EXCEPT ![a] = @ \cup {cell}]

IsNew(a, cell) == a \in torn \/ \A c \in cells[a] : c.key # cell.key

\* The row is in the log, in the table of the given name.
RowWritten(name, values, columns) ==
    rows' = [rows EXCEPT ![name] =
        {r \in @ : KeyOf(columns, r) # KeyOf(columns, values)} \cup {values}]

\* InsertRow up to the moment the leaf that has the new cell is logged, the
\* right half of a split, if there is one, before it.  (A crash between these
\* two records leaves an unreferenced page: module BTree has that case.)
InsertRow(name, values) ==
    LET slot    == FindTableIndex(name)
        columns == tables[slot].columns
        a       == tree_of[TreeRoot(slot)]
        cell    == CellOf(columns, values)
    IN  /\ pc = "idle"
        /\ calls < MaxCalls
        /\ TableExists(name) /\ ValidRow(columns, values)
        /\ GetTable(slot)
        /\ PutCell(a, cell)
        /\ RowWritten(name, values, columns)
        /\ \/ /\ pc' = "bump"
              /\ UNCHANGED <<on_log, next_page_id, tree_of>>
           \/ /\ IsNew(a, cell)
              /\ AddPage(a)
              /\ pc' = "split"
        /\ arg' = [NoArg EXCEPT !.slot = slot, !.page = a]
        /\ calls' = calls + 1
        /\ UNCHANGED <<cat, cat_logged, crashes, torn, missed>>

\* The pool runs out of frames inside BTree::Insert: on the way down, or,
\* with the cell already in its leaf, at a split.
InsertRowThrows(name, values) ==
    LET slot    == FindTableIndex(name)
        columns == tables[slot].columns
        a       == tree_of[TreeRoot(slot)]
        cell    == CellOf(columns, values)
    IN  /\ pc = "idle"
        /\ calls < MaxCalls
        /\ TableExists(name) /\ ValidRow(columns, values)
        /\ GetTable(slot)
        /\ \/ UNCHANGED <<cells, rows, missed>>
           \/ /\ IsNew(a, cell)
              /\ PutCell(a, cell)
              /\ RowWritten(name, values, columns)
              /\ missed' = [missed EXCEPT ![slot] = @ + 1]
        /\ calls' = calls + 1
        /\ UNCHANGED <<cat, cat_logged, on_log, next_page_id, tree_of, pc, arg,
                       crashes, torn>>

\* A parent takes the separator, and has room for it or splits in turn.
SplitClimbs ==
    /\ pc = "split"
    /\ \/ pc' = "bump" /\ UNCHANGED <<on_log, next_page_id, tree_of>>
       \/ AddPage(arg.page) /\ UNCHANGED pc
    /\ UNCHANGED <<cat, cat_logged, cells, tables, arg, calls, crashes, ghosts>>

\* The root was split: a new root is logged and root_page_id_ set.
NewRoot ==
    /\ pc = "split"
    /\ AddPage(arg.page)
    /\ tables' = [tables EXCEPT ![arg.slot].tree = next_page_id]
    /\ pc' = "root"
    /\ UNCHANGED <<cat, cat_logged, cells, arg, calls, crashes, ghosts>>

\* Seeded fault: the callback has captured the slot of another table.
WriteRootPageIdFirstSlot ==
    /\ pc = "root"
    /\ LogCatalog([cat EXCEPT !.tables[1].root_page_id = tables[arg.slot].tree])
    /\ pc' = "bump"
    /\ UNCHANGED <<on_log, next_page_id, tree_of, cells, tables, arg, calls,
                   crashes, ghosts>>

\* The on_root_changed callback.
WriteRootPageId ==
    /\ pc = "root"
    /\ LogCatalog([cat EXCEPT !.tables[arg.slot].root_page_id = tables[arg.slot].tree])
    /\ pc' = "bump"
    /\ UNCHANGED <<on_log, next_page_id, tree_of, cells, tables, arg, calls,
                   crashes, ghosts>>

\* Seeded fault: the catalog page's guard is not marked dirty.
BumpRowCountUnlogged ==
    /\ pc = "bump"
    /\ cat' = [cat EXCEPT !.tables[arg.slot].row_count = @ + 1]
    /\ pc' = "idle"
    /\ UNCHANGED <<cat_logged, on_log, next_page_id, tree_of, cells, tables, arg,
                   calls, crashes, ghosts>>

\* The end of InsertRow.
BumpRowCount ==
    /\ pc = "bump"
    /\ LogCatalog([cat EXCEPT !.tables[arg.slot].row_count = @ + 1])
    /\ pc' = "idle"
    /\ UNCHANGED <<on_log, next_page_id, tree_of, cells, tables, arg, calls,
                   crashes, ghosts>>

\* The rows ScanTable returns.
ScannedRows(slot) ==
    {Decode(tables[slot].columns, c.key, c.blob) : c \in cells[tree_of[TreeRoot(slot)]]}

\* ScanTable changes nothing but the handle of the tree.
ScanTable(name) ==
    /\ pc = "idle"
    /\ TableExists(name)
    /\ GetTable(FindTableIndex(name))
    /\ UNCHANGED <<pages, pc, arg, calls, crashes, ghosts>>

EstimatedRowCount(slot) == cat.tables[slot].row_count

-----------------------------------------------------------------------------

\* The end of the process takes the catalog object with it.
Forget ==
    /\ cat' = cat_logged
    /\ tables' = [i \in Slot |-> EmptyHandle]
    /\ arg' = NoArg
    /\ pc' = "closed"

Close ==
    /\ pc = "idle"
    /\ Forget
    /\ UNCHANGED <<cat_logged, on_log, next_page_id, tree_of, cells, calls,
                   crashes, ghosts>>

Crash ==
    /\ pc # "closed"
    /\ crashes < MaxCrashes
    /\ crashes' = crashes + 1
    /\ Forget
    /\ torn' = IF pc \in {"split", "root"} THEN torn \cup {arg.page} ELSE torn
    /\ missed' = IF pc \in {"split", "root", "bump"}
                 THEN [missed EXCEPT ![arg.slot] = @ + 1] ELSE missed
    /\ UNCHANGED <<cat_logged, on_log, next_page_id, tree_of, cells, calls, rows>>

Next ==
    \/ OpenFresh
    \/ Reopen
    \/ \E name \in Names \cup {BadName}, columns \in Columns :
          CreateTable(name, columns) \/ CreateTableRejected(name, columns)
    \/ CreateEntry
    \/ \E name \in Names, values \in Rows :
          \/ InsertRow(name, values)
          \/ InsertRowThrows(name, values)
          \/ InsertRowRejected(name, values)
    \/ SplitClimbs
    \/ NewRoot
    \/ WriteRootPageId
    \/ BumpRowCount
    \/ \E name \in Names : ScanTable(name)
    \/ Close
    \/ Crash

Spec == Init /\ [][Next]_vars

-----------------------------------------------------------------------------
(* Properties. *)

InUse(body) == {i \in Slot : body.tables[i].in_use}

\* At every moment a crash may strike, the catalog in the log refers only to
\* root pages that are in the log (CreateTable's and Insert's logging order).
RootsAreLogged ==
    \A i \in InUse(cat_logged) : cat_logged.tables[i].root_page_id \in on_log

\* No two tables have a name or a page in common, also after crashes that
\* left allocated pages without an entry (the allocation counter starts
\* again from the file), and num_tables counts the tables.
TablesAreDisjoint ==
    /\ \A i, j \in InUse(cat_logged) : i # j =>
          LET e == cat_logged.tables[i]
              f == cat_logged.tables[j]
          IN  /\ e.table_name # f.table_name
              /\ tree_of[e.root_page_id] # tree_of[f.root_page_id]
    /\ cat_logged.num_tables = Cardinality(InUse(cat_logged))

\* Between two calls the handles say what the catalog page says, the cached
\* root of a constructed tree included (the on_root_changed callback).
HandlesAreCurrent ==
    pc = "idle" =>
        \A i \in Slot :
            LET h == tables[i]
                e == cat.tables[i]
            IN  /\ h.in_use = e.in_use
                /\ h.in_use => /\ h.table_name = e.table_name
                               /\ h.columns = e.columns
                               /\ h.tree \in {NoPage, e.root_page_id}

\* ScanTable returns the rows that were inserted into that table, each with
\* the values it was last given, whatever crash or reopening came between;
\* a table whose tree a crash tore is module BTree's concern.
ScanIsExact ==
    pc = "idle" =>
        \A name \in Names :
            LET slot == FindTableIndex(name)
            IN  IF slot = 0 THEN rows[name] = {}
                ELSE tree_of[TreeRoot(slot)] \in torn \/ ScannedRows(slot) = rows[name]

\* The count of a table falls short of its rows by at most the inserts that
\* a crash or an exception ended between the row and the count.
RowCountBound ==
    pc = "idle" =>
        \A i \in InUse(cat) :
            Cardinality(cells[tree_of[TreeRoot(i)]]) <= EstimatedRowCount(i) + missed[i]

-----------------------------------------------------------------------------
(* The inductive invariant the properties are proved from. *)

\* The tree an entry of the catalog page leads to.
TreeOf(i) == tree_of[cat.tables[i].root_page_id]

\* Every page handed out is in the log; all but the catalog page belong to a
\* tree, whose first leaf belongs to itself.
PagesAreInTrees ==
    /\ cat = cat_logged
    /\ on_log = 0 .. next_page_id - 1
    /\ pc # "closed" => next_page_id > 0
    /\ \A p \in PageId :
          IF p \in on_log \ {0}
          THEN tree_of[p] \in on_log \ {0} /\ tree_of[tree_of[p]] = tree_of[p]
          ELSE tree_of[p] = NoPage

\* The entries have tables as CreateTable accepts them, each with a tree.
EntriesAreSound ==
    \A i \in InUse(cat) :
        LET e == cat.tables[i]
        IN  /\ e.table_name \in Names
            /\ e.columns \in Columns /\ ValidSchema(e.columns)
            /\ e.root_page_id \in on_log \ {0}

\* The table CreateTable is about to enter is a new one, and empty.
NewTableIsFresh ==
    pc = "entry" =>
        /\ arg.slot \notin InUse(cat)
        /\ arg.name \in Names
        /\ arg.columns \in Columns /\ ValidSchema(arg.columns)
        /\ arg.page \in on_log \ {0} /\ tree_of[arg.page] = arg.page
        /\ cells[arg.page] = {}
        /\ \A i \in InUse(cat) : /\ cat.tables[i].table_name # arg.name
                                 /\ TreeOf(i) # arg.page

Inserting == pc \in {"split", "root", "bump"}

\* The handles say what the entries say; a root that on_root_changed has not
\* announced yet is a page of the same tree.
HandlesMatch ==
    /\ pc # "closed" =>
          \A i \in Slot :
              LET h == tables[i]
                  e == cat.tables[i]
              IN  /\ h.in_use = e.in_use
                  /\ h.in_use => /\ h.table_name = e.table_name
                                 /\ h.columns = e.columns
                                 /\ \/ h.tree \in {NoPage, e.root_page_id}
                                    \/ pc = "root" /\ i = arg.slot
    /\ Inserting => arg.slot \in InUse(cat) /\ arg.page = TreeOf(arg.slot)
    /\ pc = "root" => LET root == tables[arg.slot].tree
                      IN  root \in on_log \ {0} /\ tree_of[root] = arg.page

\* The cells of a tree no crash tore are those of the rows of its table.
CellsAreRows ==
    /\ \A name \in Names :
          (\A i \in InUse(cat) : cat.tables[i].table_name # name) => rows[name] = {}
    /\ \A i \in InUse(cat) :
          LET e == cat.tables[i]
          IN  /\ \A r \in rows[e.table_name] : ValidRow(e.columns, r)
              /\ \/ TreeOf(i) \in torn
                 \/ cells[TreeOf(i)] = {CellOf(e.columns, r) : r \in rows[e.table_name]}

\* The insert under way that the count of table i has not seen.
Pending(i) == IF Inserting /\ arg.slot = i THEN 1 ELSE 0

\* The count of a table, the missed inserts and the one under way make up
\* for its cells.
CountsCoverCells ==
    \A i \in InUse(cat) :
        /\ IsFiniteSet(cells[TreeOf(i)])
        /\ Cardinality(cells[TreeOf(i)]) <=
              EstimatedRowCount(i) + missed[i] + Pending(i)

\* What the catalog page, the log, the trees and the handles have to do with
\* each other at every point where a crash may strike.
CatalogInv ==
    /\ CatalogTypeOK
    /\ PagesAreInTrees
    /\ EntriesAreSound
    /\ TablesAreDisjoint
    /\ NewTableIsFresh
    /\ HandlesMatch
    /\ CellsAreRows
    /\ CountsCoverCells
=============================================================================
