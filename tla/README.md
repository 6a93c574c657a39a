# A TLA+ model of the toy relational database engine

The repository is a small SQL database in C++: a page file, a write-ahead log, a buffer pool,
B+ trees, a catalog of tables, and above them a lexer, parser, semantic analysis, planner and
executor. It has one thread (`wal.h`: "There's no concurrency yet"). What is hard in it is
not threads but *crashes*: an operation changes several pages, each is logged on its own when its
guard is destructed, and the process or the machine may die between any two of these records.
The project is therefore built from the storage engine upwards. Above storage the hard part is that
one query has many plans, chosen by statistics that may be wrong, and every plan must give the same answer.

## The system and its parts

| Part | State | Operations | What makes it correct |
|---|---|---|---|
| `DiskManager` | data file, allocation counter | `ReadPage`, `WritePage` (no fsync), `AllocatePage`, `Flush`, `RefreshNextPageIdAfterRecovery` | never returns torn bytes; never hands out a live page id |
| `WALManager` | log file, `next_lsn_`, `next_offset_`, `valid_records_` | constructor (scan, truncate), `AppendRecord` (fsync) | no valid record is lost; numbers grow across restarts |
| `BufferPool`, `PageGuard` | frames, page table, free list, LRU list, pins | `FetchPage`, `NewPage`, `UnpinPage`, `FlushPage`, `FlushAll`, `MarkDirty`, `Release` | pinned frames stay; what is written to the file was logged; released means durable |
| `RunRecovery`, `Database` | - | reduce the log to one record per page, write, fsync, refresh the counter; then construct the pool | the file becomes what the log says, however often recovery is interrupted |
| `BTree` | pages of nodes, `root_page_id_` | `Insert` (recursive, splits), `Delete`, `Get`, `RangeScan`, two constructors | behaves as a map; a crash never leaves a dangling pointer |
| `Catalog` | catalog page, handles with lazily built trees | `CreateTable`, `GetTable`, `InsertRow`, `ScanTable`, `EstimatedRowCount` | entries refer to logged roots, handles agree with the page, scans return what was inserted |
| `RowCodec` | - | `Encode`, `Decode` | decoding gives back what was encoded |
| `Lexer` | position, line, column | `Tokenize` | tokens are the text, as long as they can be, with the right places |
| `Parser` | position, call stack | `ParseStatement` | the tree says what the text says; an error names the first token with which the text stops being the beginning of a statement |
| semantic analysis | - | `ValidateStatement` | what it accepts executes |
| planner | tables joined so far | `BuildLogicalPlan`, `BuildPhysicalPlan` | a condition is evaluated where its tables are; cost decides order and algorithm, never the answer |
| executor | iterators | `Open`, `Next`, `Close` of scans, filters, joins, projections | every plan returns the rows of the query and ends |
| `Engine` | catalog | `ExecuteSQL` | the answer is that of the rows inserted, whatever the statistics say |

Calls go downwards only: `Engine` -> `Catalog` -> `BTree` -> `BufferPool` -> `WALManager` and
`DiskManager`. A SELECT pulls rows down the chain of iterators. The one call upwards is `on_root_changed`, by which a tree tells the catalog that
its root has moved. The shared state is the set of pages; the order in which pages reach the
log is the order in which C++ destructs guards.

## Modules

| Module | Models | Role |
|---|---|---|
| `DiskManager` | `disk_manager.cpp`, `page.h` | page slots, what a power loss may leave of them, allocation |
| `WALManager` | `wal.cpp`, the reduction of `recovery.cpp` | the log as a sequence of records with at most a torn last one |
| `BufferPool` | `buffer_pool.cpp` | frames, lists, page table and guards; every public operation |
| `Storage` | `recovery.cpp`, `database.cpp` | composes the three: open, replay, run, close, kill, power loss; the properties |
| `PageStore` | the contract of `buffer_pool.h` | abstract specification: a page store without cache, log, file or recovery |
| `CollectionLemmas`, `StorageLemmas`, `StorageProofs` | - | lemmas on sequences and finite sets, on the operators of the model, and the theorems, among them that `Storage` implements `PageStore` |
| `BTree` | `btree.cpp`, `btree_node.h` | one tree over the page store, one action per log record |
| `BTreeLemmas`, `BTreeProofs` | - | lemmas on nodes, search trees and descents, and the theorems |
| `RowCodec` | `row_codec.cpp`, `value.h` | the encoding of rows, as operators |
| `Catalog` | `catalog.cpp`, `catalog_page.h` | tables over the page store, one action per log record |
| `CatalogProofs` | - | lemmas on rows, cells and the catalog page, and the theorems |
| `Ast` | `ast.h` | constructors of expressions and statements |
| `Lexer` | `lexer.cpp`, `token.h` | text to tokens, one action per character run |
| `LexerProofs` | - | lemmas on places in the text and on what a loop has read, and the theorems |
| `Parser` | `parser.cpp` | tokens to a statement, one action per method or round of its loop; extends `Lexer` (`ParseSQL`) |
| `ExprEval` | `expr_eval.cpp`, `exec_row.cpp` | values, comparisons, AND and OR, column lookup, as operators |
| `Semantic` | `semantic.cpp` | which statements are let through, as predicates |
| `Planner`, `PlannerProofs` | `physical_plan.cpp` (`BuildPhysicalPlan`) | join order and algorithm, one action per join; the theorem about it |
| `Executor` | `physical_plan.cpp` (the iterators) | `Open` and `Next` of scans and joins as steps of a call chain |
| `Engine` | `engine.cpp`, `logical_plan.cpp` | composes `Semantic`, `Planner`, `Executor` and `RowCodec`: statements on a database; what a query means |
| `MCStorage`, `MCBTree`, `MCCatalog`, `MCEngine`, `MCSql` | - | instances for TLC: symmetry sets, column lists, rows, statements, texts |

Variables keep the names of the members they model (`next_page_id_` is `next_page_id`, `lru_list_`
is `lru_list`). `Storage` composes by EXTENDS: an operation of the pool conjoins the disk and log
operations it calls, so that a step is a whole call with everything it does, in one latch section.
`BTree` and `Catalog` do not repeat the pool. They stand on `PageStore`, which `Storage` is shown
to implement: a page is what readers see (`mem`, `cat`) and what recovery would restore (`logged`,
`cat_logged`, `on_log`), and releasing a guard makes the first the second. `Catalog` in turn sees a tree from
outside: the leaf it began with, where every scan starts, and the cells a scan meets. `Engine` sees the
catalog as `Catalog` leaves it between calls: columns, a row for each key (`ScanIsExact`), and a
count that an overwriting or an interrupted INSERT makes wrong (`RowCountBound`).

In `Executor` a left-deep plan is a chain of levels. `at` is the level whose method runs and
`signal` is what it was called for (`open`, `next`) or what the level below returned (`opened`, a
row or the end). Each action is the code between two calls: `JoinOpen`, `AccumulatedOpened`,
`BuildRow` and `BuildDone` are the parts of a join's `Open`, `TakeRow`, `NestedLoopNext` and
`HashJoinNext` those of its `Next`. `Parser` flattens the recursion of expressions in the same way:
`calls` is the stack of `ParseExpr` activations, each with its OR operand and its AND operand so far.

`ErrorIsFirstBadToken` compares the parser with a grammar of its own, `Phrases`: a graph whose edges are runs of tokens, and of which all
paths are followed (`Readings`), with parentheses counted apart (`ParenthesesMatch`). The parser decides by the next token and never goes back; "a single
token of lookahead (Peek()) is always enough", says `parser.h:29-32`. The property is what that means: only statements are accepted, and at an error the
tokens before the named one begin a statement and those up to it do not. The grammar was written from the `Parse...` methods, since the
`docs/milestone-3.md` they refer to is not in the repository; `KnownAssumption` ties it to statements given as trees.

Definitions whose comment begins with "Seeded fault" are variants of the definition that follows
them, each with a bug the code might have had. No specification uses them. They show that each
property can fail: replacing the definition by its variant makes TLC report the property.

### What the data is abstracted to

* A page's bytes are its log sequence number and one number, `body`, that grows with every mutation.
  `PageHeader::lsn` is 32 bits wide, the log's own counter 64; nothing reads the header's.
* A slot of the file that `ReadPage` refuses (torn, a hole, past the end) is `Corrupt`. A checksum
  is taken to detect every torn page and record.
* `durable[p]` is the set of contents slot `p` may turn out to have after a power loss: `WritePage`
  adds to it, `Flush` collapses it. `AppendRecord` fsyncs, so a record in `wal` is persistent; the
  torn record of an interrupted append, or of one that failed (an exception in `~PageGuard`
  terminates the process), is `Torn`. The truncation of a torn tail is taken to be persistent,
  which the fsync of the next append makes true before it matters.
* A guard is an element of `Guards`. Moving one is a renaming and no action. The mode without
  a log (`wal_manager_ == nullptr`) is used by unit tests only and is not modelled.
* A tree's keys are a few integers, its values model values, its fanout a constant. In a table's
  rows, and in queries, a text is its length (texts of one length compare equal, a longer one is greater).
  Names are model values, with one that stands for a name that is too long.
* A source text is a sequence of strings that no step of the lexer splits: a run of letters, one digit, a
  sign. Columns count their characters. The contents of a string literal are the list of the runs pushed to it, until the
  token spells them out (`Spelled`). `INT64_MAX` and `Word`, the range of `uint64_t` in which costs
  wrap around, are constants.
* The order of equal keys in the hash table is that of insertion; no property depends on it. An exception is its type.
* Blanks are those of `std::isspace` but `\v`, which a TLA+ string cannot spell; it would behave as `\f` does.
* I/O errors (a failing `open`, `fstat`, `pread`) end the process and are covered as crashes.

## Runs

`tlc -config X.cfg M`; all but the last five pass.

| Run | Checks | Bounds |
|---|---|---|
| `storage_safety` | `StorageInv`, the inductive invariant of the proof, and the properties it implies: durability (`AckedSurvives`), the write-ahead rule, agreement of cache, log and file (`CacheIsCurrent`), pins, frame bookkeeping, fresh page ids | 3 pages, 2 frames, 2 guards, 4 records, 2 crashes: evictions of dirty and clean frames, two guards on one page, crashes inside recovery |
| `storage_refinement` | `Storage` implements `PageStore`; the log only grows; recovery ends | 2 pages, 1 frame, so that every second page evicts; 2 crashes |
| `btree_ops` | `TreesAreSound`, the inductive invariant of the proof with its homes and levels computed, for memory and for the log between any two records; nodes fit, `Get` and `RangeScan` against the definition of a map | 5 keys, 2 values, 7 calls, fanout 2: three levels, splits of internal nodes |
| `btree_crash` | no dangling pointer in any prefix of the log, the recovered tree is walkable, sorted, balanced, and routes every cell home; `Get` is right unless a crash tore a split; every `Insert` returns | 2 crashes between any two records, 6 calls; pools of 2 frames, in which descents and splits run out of frames, and of 4, in which none does |
| `catalog` | `CatalogInv`, the inductive invariant of the proof, and the properties it implies: entries refer to logged roots, tables share nothing, handles agree with the page, scans are exact, counts fall short of the rows by no more than the interrupted inserts (overwriting inserts make them larger) | 3 names for 2 slots, 4 calls, 1 crash between any two records, declarations and rows for every check |
| `engine` | the answer of every SELECT against the filtered product of the inserted rows; joins only after the tables their conditions name; every SELECT returns | tables of 2 and 3 columns with the key in either place, 5 INSERTs of which 1 may be cut short, 3-way and self joins: both algorithms, both build sides, both orders, empty and one-row tables, `Word` = 8 so that costs wrap |
| `sql` | token places, maximal tokens and nothing skipped, trees against the text, grouping against the positions of the operators, acceptance and the place of errors against a grammar that is read without lookahead, an end for every text | 7 statements of all kinds with each token dropped, doubled or replaced by five others; three comparisons under AND and OR with up to two parentheses on each side, matching or not; all texts of up to 4 characters out of 9 |
| `storage_flush_pinned`, `btree_first_open`, `btree_torn_split`, `engine_wrong_column`, `engine_resolution` | one documented claim each, which the code does not keep | the smallest instance that shows it |

The bounds are the smallest at which each branch of each action happens; the fanout of 2 replaces
the code's 4 so that three levels take five keys. `MaxRecords` leaves room for every held guard, so
that it never prevents a release. Deadlock is checked everywhere but in `sql`: `Close`, `Open`, `Reopen`
and refused statements are always there, while `ParseSQL` is one call and ends (`ParseSQLReturns` excludes that it gets stuck).

Fairness is weak fairness of a process that is already executing: recovery's own steps in
`Storage`, the steps of an `Insert` under way in `BTree`, those of a SELECT in `Engine` and of
`ParseSQL` in `Parser`. Nothing obliges a caller to make a call,
the process not to be killed, or the machine not to fail.

### What the violated claims show

* `btree_first_open`: the first open logs page 1 before page 0. After a crash between them the file
  has two pages and a hole at 0, and no later open succeeds.
* `btree_torn_split`: a split logs the right half, the left half and then the parent. After a crash
  before the last, `Get` does not find acknowledged keys of the right half; `RangeScan`, which the
  recovery test uses, does, through the sibling pointer.
* `storage_flush_pinned`: a flush between a mutation and the release of its guard clears the dirty
  flag by which the release decides to log. Inside the engine nobody flushes; the constant
  `FlushWhilePinned` says whether callers may do so with a guard in hand.
* `engine_wrong_column`: the planner counts the qualified names of an ON condition only. A table
  whose condition has an unqualified name can be joined before the table of that name, and
  the name is then found in another table that has such a column. The query validates and answers wrongly.
* `engine_resolution`: `ON r.id = r.x`, with both columns in the new table, is taken for an equi-join.
  With fewer than two rows on either side the nested loop runs and answers; with more, the hash join
  looks `r.x` up in the other side's rows and throws `ColumnResolutionError`.

`AnswerIsRight` is stated for queries that avoid these two (`SaysWhatItMeans`), that compare values of one type
(`WellTyped`: otherwise a nested loop throws `EvalError` and a hash join finds nothing, depending on
the counts) and for tables without duplicate column names, which `CREATE TABLE` accepts.

Smaller divergences the models show, which no run is about: a frame whose `ReadPage` throws is in no
list any more (`FetchThrows`), so the pool can be exhausted with nothing pinned; a split refused for
lack of a frame leaves its cell in the leaf, and the next insert adds another, past the "one past
the split threshold" of the comment (`LeafSplitThrows`); inserting an existing key counts it
again, though `row_count` is called exact; a number past 64 bits is a `std::out_of_range` and no
`LexError`; a hash join estimates the sum of its inputs, which is no upper bound, and the order of the columns of
`SELECT *` is that of the plan.

Two comments differ from the code without consequence: `AllocatePage` does not extend the file
(`disk_manager.h`), and the child of a separator holds keys greater than *or equal to* it
(`btree_node.h`); `KeysRouteHome` states the rule the code follows.

## What is proved

`tlapm StorageProofs.tla` proves, for any number of pages, frames, guards, log records, mutations and crashes:

* `StorageInvariance`: `Spec => []StorageInv`;
* `Durability`: `[]AckedSurvives`; `WriteAheadRule`: `[]WriteAhead`; `CacheCoherence`:
  `[]CacheIsCurrent`; `PinsHold`: `[]GuardsArePins`;
  `FramesHold`: `[]FramesAreAccountedFor`; `PageIdsAreFresh`: `[]NextPageIdIsFresh`, all from the invariant;
* `LogIsAppendOnly`: the action property `LogOnlyGrows`.

They assume `FlushWhilePinned = FALSE`: that nobody flushes while a guard is held. The run
`storage_flush_pinned` shows that they are false without it. The other assumptions are the
named ASSUMEs on the constants (the special values are not ordinary ones, the pool has a frame,
the guards are finitely many).

*The argument.* `AckedSurvives` compares what a caller sees with what it was once told, with
evictions, crashes and recoveries between; it is far from inductive. What carries it through is
that the log, not the cache or the file, is the database. `DoneIsLogged` says that the last
acknowledged content of a page is its latest log record. `CacheIsCurrent` says how cache and
file relate to that record: an uncached page is in the file as last logged, a clean frame equals
both, an unpinned frame equals the record though the file may lag, and a pinned dirty one may only be ahead.
Eviction preserves this because an unpinned frame needs no logging (`GuardsArePins` makes "pin
count 0" mean "no guard"), and needs no write unless it is dirty. A crash preserves it because
`WriteAhead` and `FileSizeCovers` say that the file holds nothing unlogged, and `ReplayedIsCurrent`
follows recovery page by page. `LsnIsPosition` and `LogShape` make "highest sequence number" the
same as "last record" across restarts and torn tails. `NextPageIdIsFresh` is needed for `NewPage`
to be an insertion, and `FramesAreAccountedFor` for an eviction to concern one page only.
`StorageProofs` has one lemma per action, each with one step per conjunct that the action disturbs.

`StorageProofs` ends with `StorageImplementsPageStore`, `Spec => ImplementsPageStore`, under the same
assumption `FlushWhilePinned = FALSE`: under the mapping that forgets cache, log, file and recovery, every step is a step of `PageStore` or a
stutter. `StorageInv` is what makes it so: a fetch is a read of the abstract page because `CacheIsCurrent` says the
frame or the file has it, an eviction is a stutter because it moves what is logged already, a release is the moment
at which the abstract page becomes durable, and a crash with the recovery after it takes back what was not released
and nothing else (`DoneIsLogged`, `ReplayedIsCurrent`). This is what `BTree` and `Catalog` stand on.

`tlapm PlannerProofs.tla` proves `PlansAreClosed`, `PlannerSpec => []JoinsAreClosed`, for any number of tables, any
row counts and any word size. `PlannerSpec` is the planner alone, given any list of tables that satisfies `NodesOK`, which is
what `ValidateSelect` guarantees (different aliases; a condition names tables up to its own). The invariant adds `PlanOK`: the
plan lists places in the query. The heart is `SomeTableIsConnected`: the first table that is not joined yet is always connected, because
what its condition names comes before it; so the fallback to textual order never decides.

`tlapm BTreeProofs.tla` proves, for any set of integer keys, any fanout, pool sizes, number of pages, calls and crashes:

* `TreeCorrect`: `Spec => []BTreeInv`;
* `NoDanglingPointers`: `[]NoDangling`; `OrderedNodes`: `[]NodesAreSorted`; `SearchesEnd`: `[]Walkable`; `CellsAreReached`:
  `[]KeysRouteHome`; `LeavesAreLevel`: `[]Balanced`; `GetsAreRight`: `[]GetIsRight`; `ScansAreRight`: `[]ScanIsRight`; `TreeTypes`: `[]BTreeTypeOK`, all from it;
* `NodesFitUnlessRefused`: `[]NodesFit` for every behaviour in which `LeafSplitThrows` does not happen, and `NodesFitInDeepPools`: `[]NodesFit` if
  pools of n frames are used for files of fewer than 2^n pages.

*The argument.* The properties speak of searches, and a search says nothing inductive about the page it passes. `BTreeInv`
says that two functions exist, for memory and again for the log: `home[p]`, the keys whose search passes page
`p`, and `level[p]`, its height. `SearchTree` ties them to the nodes: a page's keys lie in its home, the separators part the
home among the children, one level down each, homes of one level are disjoint, and the root's home is every key. Then a descent loses
a level with every turn and stays at pages whose home has the key; it ends in the one leaf that may hold it. Between the
first record of a split and the record of the parent nobody points at the right half; `Cover` lends its keys to the left half, and
`Parted` says at which key they part, so that the parent's new separator, which is that key, makes the tree whole again (`WithSeparator`,
and in turn the parent's own split, and the new root). `PathLeadsDown` keeps the activations of `InsertRecursive` on one path of the tree
meanwhile. If a crash comes first, the right half is lost to searches for good. `HalfLost` is the lemma on this:
what is left is a search tree, in which the searches for the lost keys go where the greatest key of the left half goes. So torn splits, however many, leave
trees walkable, sorted and level, and what is lost is `GetIsRight` alone, which is stated for trees without a torn split. For it, `HoldsValues` says that
the leaf whose home has a key has what the last call left, or, in a split, what the call under way brings (`MayHold`). `PagesAreSound` covers
the pages outside the tree, which a recovery still restores, and `FreshPages` makes `NewPage` an insertion.

`RangeScan` leaves the tree after its first leaf and follows sibling pointers, of which a search tree says nothing. `Chained` adds that the next leaf of a
leaf in the tree is in the tree and has the keys that come next: all of them greater, none between (`FollowedBy`). It holds for the same trees as `GetIsRight`: a torn split leaves
its right half in the chain and out of the tree. A split puts the right half between its left half and the old next leaf (`SplitChain`) before the parent
knows of it. By induction on the turns of the loop, what a scan has taken after each turn is what lies in the range in the homes passed, sorted, and what is left lies
in the homes ahead (`ScanStep`); every turn moves to greater keys, so that no page is met twice and the loop ends within `MaxPages` turns.

`NodesFit` is false where a split is refused, see above; `NodesFitUnlessRefused` says that nothing else makes a node too large. A leaf is split when it has one cell too many, which only
an insertion into a leaf that fitted gives it, and then both halves fit and neither separator node is empty, because the fanout of separator nodes is at least 2. `NodesFitInDeepPools` says
how many frames keep splits from being refused. A descent holds one guard per level (`PathLeadsDown`), and a page with n levels of the tree below it is the top of at least 2^(n + 1) - 1 pages:
its first two children are one level lower and share no key, so no page is below both (`BelowChildren`, `TreeIsLarge`). With the metadata page that makes 2^(n + 1) pages in the file (`FileIsLarge`). A pool of n frames
refuses the split of a leaf only n - 1 levels below the root or deeper, and then the file has 2^n pages at least. 32 frames are enough for any file that 32-bit page ids allow, and the 8 frames of the smallest pool that a test opens a tree with (`crash_worker.cpp:22`) for 255 pages. In
`btree_crash` 2 frames meet 9 pages, and splits are refused; 4 frames are enough, there and in `btree_ops`. `Power` stands for the powers of two, of which the provers know nothing, and is any function that starts at 1 and doubles.

`tlapm CatalogProofs.tla` proves, for any number of tables, slots, columns, pages, rows, calls and crashes:

* `CatalogCorrect`: `Spec => []CatalogInv`;
* `LoggedRoots`: `[]RootsAreLogged`; `DisjointTables`: `[]TablesAreDisjoint`; `CurrentHandles`: `[]HandlesAreCurrent`; `ExactScans`:
  `[]ScanIsExact`; `RowCounts`: `[]RowCountBound`; `CatalogTypes`: `[]CatalogTypeOK`, all from it.

*The argument.* An entry, a handle and a tree are three records of one table, changed by different records of the log. `PagesAreInTrees` says that every page but the catalog's belongs to
one tree, `EntriesAreSound` that an entry leads into the log and to columns that passed the checks, `NewTableIsFresh` that the root `CreateTable` has logged
and not entered yet belongs to nobody, and `HandlesMatch` which parts of a handle may lag until the callback of a root split has run. `CellsAreRows` says that the
cells of a tree are the encodings of the rows inserted. `ScanIsExact` then needs that the codec loses nothing, for every column list: what `Encode` writes lies at the running
totals of the widths before it (`Offsets`), which no two columns share, and decoding reads it there. `CountsCoverCells` adds to the bound of the counts the one insert that is
between its row and its count (`Pending`).

`tlapm LexerProofs.tla` proves, for any set of source texts over any runs of letters, and any `INT64_MAX`:

* `LexerCorrect`: `LexerSpec => []LexerInv`;
* `PositionsAreAlwaysRight`: `[]PositionsAreRight`; `TokensAlwaysSpellTheSource`: `[]TokensSpellTheSource`, both from it.

`LexerSpec` is `Tokenize` alone. The parser's actions leave the lexer's variables as they are, so the two properties, which the run `sql` checks of lexer and parser
together, are about the same states. The assumptions are that a letter is no sign, digit or blank (`LettersAssumption`), that a text is a sequence of strings with a length (`SourcesAssumption`), and the
lengths of the signs (`SignsAssumption`), which a prover does not know of strings and TLC computes.

*The argument.* The properties count newlines and characters from the beginning of the text; the code counts as it goes, resets the column, and for signs counts back. `Located` says that the two
agree wherever the lexer stands, `Begun` that they agreed where the lexeme began. `BlankUpTo` says that from the last token (`Free`) to where the lexer stands between lexemes there are blanks only, so that nothing is
lost and no character is read twice; `ReadAs` that a loop has read only characters of its class. For literals, `Unescaped` says that the quotes inside stand in pairs so far and that what was pushed is
the inside without the second of each pair (`Holds`). That a literal ends at the first quote without a partner, and not at the second of a pair, is what makes this inductive.

*Only model-checked:* what is computed by recursion over a tree of operators, and liveness. `AnswerIsRight` of `Engine`, and `NothingIsLost` and `GroupingIsRight`
of `Parser`, are defined with recursive operators on expressions (`EvalBool`, `Meaning`, `SpellExpr`), about which the prover cannot make the induction
they need; `ErrorIsFirstBadToken` stands in the same module. Liveness under fairness (`RecoveryCompletes`, `InsertReturns`, `SelectReturns`, `ParseSQLReturns`) and `ENABLED` are beyond it too.
`TreesAreSound` is `BTreeInv` in a form that TLC can evaluate, with the homes and levels computed instead of chosen.
Where the recursion is over a number (the turns of a descent or a scan, the columns of a row) the lemmas go by the least counterexample instead.

## Not modelled

The checksum's arithmetic; error texts, `TokenTypeName` and the other names for messages; the accessors of the
plan classes that tests use; the buffer pool without a log, and the B+ tree in the catalog's callback mode (whose
difference, where the root's number is written, is `Catalog`'s `WriteRootPageId`). `Engine` starts from the parsed
statement and `Parser` ends with it: the two runs share the trees of `Ast`.

## Plan

Done: all components, and a theorem for each safety property of storage, the B+ tree, the catalog, the planner and the lexer that a passing run checks. What is left is
not for this prover: the answers of `Engine` and the trees of `Parser` need structural induction over expressions, and the liveness properties a proof system for fairness. Should the code
gain a second thread, the place to begin is `PageStore`: `BTree` and `Catalog` rely on a user who is alone.
