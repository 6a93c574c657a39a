------------------------------- MODULE BTree -------------------------------
(***************************************************************************)
(* The B+ tree (btree.cpp, btree_node.h) over the page store of module     *)
(* PageStore: mem[p] is the content of page p a reader sees, logged[p] the *)
(* content its last released guard has put into the log.  A crash leaves   *)
(* only logged.                                                            *)
(*                                                                         *)
(* Insert writes several pages and nothing makes them one write: each      *)
(* page is logged when its guard is destructed, in an order C++ scoping    *)
(* fixes, and the process may die between any two of them.  One action     *)
(* below ends at one such point.  What happens in memory between two of    *)
(* them is part of the action that follows, for no one else can see it:    *)
(* the tree has one user.                                                  *)
(*                                                                         *)
(* InsertRecursive's activations are the stack path, one entry per         *)
(* internal node passed on the way down, each holding its guard and the    *)
(* index it descended through.                                             *)
(***************************************************************************)
EXTENDS Integers, FiniteSets, SequencesExt

CONSTANTS
    Key,                \* a set of integers
    Value,              \* cell values
    Absent,             \* "no cell with this key"
    NoPage,             \* INVALID_PAGE_ID
    NoNode,             \* a page nothing was ever logged for
    LEAF_MAX_KEYS,
    INTERNAL_MAX_KEYS,
    PoolSizes,          \* the pool sizes a database is opened with
    MaxPages,           \* bound on the number of pages
    MaxOps,             \* bound on the number of Insert and Delete calls
    MaxCrashes          \* bound on the number of crashes

ASSUME KeyAssumption == Key \subseteq Int /\ Key # {}
ASSUME ValueAssumption == Absent \notin Value /\ Value # {}
ASSUME FanoutAssumption ==
    /\ LEAF_MAX_KEYS \in Nat \ {0}
    /\ INTERNAL_MAX_KEYS \in Nat \ {0, 1}
ASSUME BTreeBoundsAssumption ==
    /\ PoolSizes \subseteq Nat \ {0, 1}
    /\ MaxPages \in Nat \ {0, 1}
    /\ MaxOps \in Nat
    /\ MaxCrashes \in Nat

PageId == 0 .. MaxPages - 1

ASSUME NoPageAssumption == NoPage \notin PageId

LeafCell == [key : Key, value : Value]
InternalCell == [key : Key, child : PageId]

LeafNode == [type : {"LEAF"}, cells : Seq(LeafCell), next_leaf : PageId \cup {NoPage}]
InternalNode == [type : {"INTERNAL"}, cells : Seq(InternalCell), leftmost_child : PageId]
MetaNode == [type : {"METADATA"}, root_page_id : PageId]

Node == LeafNode \cup InternalNode \cup MetaNode

ASSUME NoNodeAssumption == NoNode \notin Node

VARIABLES
    mem,            \* page contents as the buffer pool shows them
    logged,         \* page contents as recovery would restore them
    next_page_id,   \* DiskManager's allocation counter
    root_page_id,   \* root_page_id_
    pool_size,      \* frames of the buffer pool: guards held at one time
    pc,             \* where the one thread is
    arg,            \* key and value of the Insert under way
    cur,            \* the node of the current activation
    path,           \* the activations above it: page, and index descended
    split,          \* the SplitResult on its way up
    ops, crashes,   \* bounded counters
    allowed,        \* for each key, the values a correct Get may return
    torn_split      \* did a crash ever hit a split half-way?

pages == <<mem, logged, next_page_id, root_page_id>>
call == <<arg, cur, path, split>>
ghosts == <<ops, crashes, allowed, torn_split>>
vars == <<pages, pool_size, pc, call, ghosts>>

\* Pages hold metadata, leaves or separator nodes whose pointers are page
\* ids; in particular a split never leaves a node without a leftmost child.
BTreeTypeOK ==
    /\ mem \in [PageId -> Node \cup {NoNode}]
    /\ logged \in [PageId -> Node \cup {NoNode}]
    /\ next_page_id \in 0 .. MaxPages
    /\ root_page_id \in PageId
    /\ pool_size \in PoolSizes
    /\ pc \in {"closed", "failed", "creating", "idle", "descend",
               "log_left", "parent", "log_meta"}
    /\ arg \in [key : Key, value : Value]
    /\ cur \in PageId
    /\ path \in Seq([page : PageId, idx : Nat])
    /\ split \in [key : Key, right : PageId]
    /\ ops \in 0 .. MaxOps
    /\ crashes \in 0 .. MaxCrashes
    /\ allowed \in [Key -> SUBSET (Value \cup {Absent})]
    /\ torn_split \in BOOLEAN

Init ==
    /\ mem = [p \in PageId |-> NoNode]
    /\ logged = [p \in PageId |-> NoNode]
    /\ next_page_id = 0
    /\ root_page_id = 0
    /\ pool_size \in PoolSizes
    /\ pc = "closed"
    /\ arg = [key |-> CHOOSE k \in Key : TRUE, value |-> CHOOSE v \in Value : TRUE]
    /\ cur = 0
    /\ path = << >>
    /\ split = [key |-> arg.key, right |-> 0]
    /\ ops = 0
    /\ crashes = 0
    /\ allowed = [k \in Key |-> {Absent}]
    /\ torn_split = FALSE

-----------------------------------------------------------------------------
(* The pages of a node and the loops that search one. *)

\* The first position of cells whose key satisfies Stop, as the search loops
\* find it; one past the end if there is none.
FirstPos(cells, Stop(_)) ==
    CHOOSE i \in 1 .. Len(cells) + 1 :
        /\ \A j \in 1 .. i - 1 : ~Stop(cells[j].key)
        /\ i <= Len(cells) => Stop(cells[i].key)

LeafPos(cells, key) == FirstPos(cells, LAMBDA k : k >= key)

PosAbove(cells, high) == FirstPos(cells, LAMBDA k : k > high)

\* Seeded fault: a key equal to a separator goes to the left.
ChildIdxLeftOnEqual(node, key) == FirstPos(node.cells, LAMBDA k : key <= k) - 1

\* The number of separators passed: idx in InsertRecursive and FindLeafPageId.
ChildIdx(node, key) == FirstPos(node.cells, LAMBDA k : key < k) - 1

ChildAt(node, idx) ==
    IF idx = 0 THEN node.leftmost_child ELSE node.cells[idx].child

HasKey(node, key) == \E i \in 1 .. Len(node.cells) : node.cells[i].key = key

Leaf(cells, next) == [type |-> "LEAF", cells |-> cells, next_leaf |-> next]

Internal(cells, leftmost) ==
    [type |-> "INTERNAL", cells |-> cells, leftmost_child |-> leftmost]

\* Leaf insertion before any split: a new cell, or a new value in the cell
\* that has the key.
WithCell(node, key, value) ==
    LET pos  == LeafPos(node.cells, key)
        cell == [key |-> key, value |-> value]
    IN  [node EXCEPT !.cells = IF HasKey(node, key)
                               THEN [@ EXCEPT ![pos] = cell]
                               ELSE InsertAt(@, pos, cell)]

\* Seeded fault: the separator goes to the end of the parent.
WithSeparatorAtEnd(node, idx, key, child) ==
    [node EXCEPT !.cells = Append(@, [key |-> key, child |-> child])]

\* The separator of a split child goes in where the descent went through.
WithSeparator(node, idx, key, child) ==
    [node EXCEPT !.cells = InsertAt(@, idx + 1, [key |-> key, child |-> child])]

WithoutCell(node, key) ==
    [node EXCEPT !.cells = RemoveAt(@, LeafPos(@, key))]

SplitPoint(node) == Len(node.cells) \div 2

\* Seeded fault: the left half keeps the old sibling pointer.
SplitLeafLeftUnlinked(node, right) ==
    Leaf(SubSeq(node.cells, 1, SplitPoint(node)), node.next_leaf)

\* SplitLeafIfNeeded: the upper half moves to page right, which takes over
\* the sibling pointer; its first key is promoted.
SplitLeafLeft(node, right) ==
    Leaf(SubSeq(node.cells, 1, SplitPoint(node)), right)
SplitLeafRight(node) ==
    Leaf(SubSeq(node.cells, SplitPoint(node) + 1, Len(node.cells)), node.next_leaf)

\* Seeded fault: the right node's leftmost child is never set.
SplitInternalRightChildless(node) ==
    Internal(SubSeq(node.cells, SplitPoint(node) + 2, Len(node.cells)), NoPage)

\* SplitInternalIfNeeded: the middle cell moves up, its child becomes the
\* leftmost child of the right node.
MiddleCell(node) == node.cells[SplitPoint(node) + 1]
SplitInternalLeft(node) ==
    Internal(SubSeq(node.cells, 1, SplitPoint(node)), node.leftmost_child)
SplitInternalRight(node) ==
    Internal(SubSeq(node.cells, SplitPoint(node) + 2, Len(node.cells)),
             MiddleCell(node).child)

-----------------------------------------------------------------------------
(* Lookups: functions of the pages, which they do not change. *)

\* The page has a node of the given type.
IsA(p, type) == p \in PageId /\ mem[p] # NoNode /\ mem[p].type = type

\* One turn of FindLeafPageId's loop: the page it is at, and how many
\* separator nodes it has passed.
Turn(at, key) ==
    IF IsA(at.page, "INTERNAL")
    THEN [page |-> ChildAt(mem[at.page], ChildIdx(mem[at.page], key)),
          passed |-> at.passed + 1]
    ELSE at

\* Where the loop is after n turns.
Descent(key) ==
    LET loop[n \in 0 .. MaxPages] ==
            IF n = 0 THEN [page |-> root_page_id, passed |-> 0]
            ELSE Turn(loop[n - 1], key)
    IN  loop

\* The leaf the loop ends in; NoPage if it ends in none.
FindLeafPageId(key) ==
    LET end == Descent(key)[MaxPages].page
    IN  IF IsA(end, "LEAF") THEN end ELSE NoPage

\* What a leaf has for the key.
Lookup(leaf, key) ==
    IF HasKey(leaf, key)
    THEN leaf.cells[FirstPos(leaf.cells, LAMBDA k : k = key)].value
    ELSE Absent

Get(key) == Lookup(mem[FindLeafPageId(key)], key)

\* One turn of RangeScan's loop over the leaves: what it takes of the leaf it
\* is at, whose cells are sorted (NodesAreSorted), starts at the first key not
\* below low; the first key above high ends the scan.
ScanTurn(at, low, high) ==
    LET leaf  == mem[at.page]
        start == LeafPos(leaf.cells, low)
        stop  == PosAbove(leaf.cells, high)
    IN  IF at.page = NoPage THEN at
        ELSE [page    |-> IF stop <= Len(leaf.cells) THEN NoPage ELSE leaf.next_leaf,
              results |-> at.results \o SubSeq(leaf.cells, start, stop - 1)]

\* Where the loop is after n turns.
Scan(low, high) ==
    LET loop[n \in 0 .. MaxPages] ==
            IF n = 0 THEN [page |-> FindLeafPageId(low), results |-> << >>]
            ELSE ScanTurn(loop[n - 1], low, high)
    IN  loop

RangeScan(low, high) ==
    IF low > high THEN << >> ELSE Scan(low, high)[MaxPages].results

-----------------------------------------------------------------------------
(* Opening the tree. *)

\* The page count DiskManager derives from the recovered file: recovery has
\* written every logged page.
PagesOnDisk ==
    IF \A p \in PageId : logged[p] = NoNode THEN 0
    ELSE 1 + CHOOSE p \in PageId :
                 logged[p] # NoNode /\ \A q \in PageId : logged[q] # NoNode => q <= p

\* Both guards of the constructor are destructed at its end, the root's
\* first: page 1 is logged while page 0 is not yet.
CreateRoot ==
    /\ pc = "closed" /\ PagesOnDisk = 0
    /\ mem' = [logged EXCEPT ![0] = [type |-> "METADATA", root_page_id |-> 1],
                             ![1] = Leaf(<< >>, NoPage)]
    /\ logged' = [logged EXCEPT ![1] = Leaf(<< >>, NoPage)]
    /\ next_page_id' = 2
    /\ root_page_id' = 1
    /\ pc' = "creating"
    /\ pool_size' \in PoolSizes
    /\ UNCHANGED <<call, ghosts>>

CreateMeta ==
    /\ pc = "creating"
    /\ logged' = [logged EXCEPT ![0] = mem[0]]
    /\ pc' = "idle"
    /\ UNCHANGED <<mem, next_page_id, root_page_id, call, ghosts, pool_size>>

\* The constructor on a database that has pages: page 0 is the metadata
\* page, and a hole there makes FetchPage throw.
Reopen ==
    /\ pc \in {"closed", "failed"} /\ PagesOnDisk > 0
    /\ mem' = logged
    /\ next_page_id' = PagesOnDisk
    /\ \/ /\ logged[0] = NoNode
          /\ pc' = "failed"
          /\ UNCHANGED root_page_id
       \/ /\ logged[0] # NoNode
          /\ pc' = "idle"
          /\ root_page_id' = logged[0].root_page_id
    /\ pool_size' \in PoolSizes
    /\ UNCHANGED <<logged, call, ghosts>>

-----------------------------------------------------------------------------
(* Insert. *)

\* The call returns: from now on only the new value is right.
Acknowledge ==
    /\ allowed' = [allowed EXCEPT ![arg.key] = {arg.value}]
    /\ pc' = "idle"
    /\ UNCHANGED <<ops, crashes, torn_split>>

\* The call ends with an exception, after the cell may have been logged.
Fail(written) ==
    /\ allowed' = IF written THEN [allowed EXCEPT ![arg.key] = @ \cup {arg.value}]
                  ELSE allowed
    /\ pc' = "idle"
    /\ UNCHANGED <<ops, crashes, torn_split>>

Insert(key, value) ==
    /\ pc = "idle"
    /\ ops < MaxOps
    /\ ops' = ops + 1
    /\ arg' = [key |-> key, value |-> value]
    /\ cur' = root_page_id
    /\ path' = << >>
    /\ pc' = "descend"
    /\ UNCHANGED <<pages, split, crashes, allowed, torn_split, pool_size>>

\* InsertRecursive fetches cur on top of the guards of path.
CanPin == Len(path) < pool_size

\* "buffer pool exhausted": nothing was changed yet.
PinFails ==
    /\ pc = "descend"
    /\ ~CanPin
    /\ Fail(FALSE)
    /\ UNCHANGED <<pages, call, pool_size>>

\* Seeded fault: the search never leaves the node.
DescendNowhere ==
    /\ pc = "descend"
    /\ CanPin
    /\ mem[cur].type = "INTERNAL"
    /\ UNCHANGED vars

Descend ==
    LET node == mem[cur]
        idx  == ChildIdx(node, arg.key)
    IN  /\ pc = "descend"
        /\ CanPin
        /\ node.type = "INTERNAL"
        /\ path' = Append(path, [page |-> cur, idx |-> idx])
        /\ cur' = ChildAt(node, idx)
        /\ UNCHANGED <<pages, pc, arg, split, ghosts, pool_size>>

\* Log a page in its new form p := node.
Log(p, node) ==
    /\ mem' = [mem EXCEPT ![p] = node]
    /\ logged' = [logged EXCEPT ![p] = node]

\* Seeded fault: the guard is not marked dirty, so the leaf is not logged.
LeafInsertUnlogged ==
    LET node == WithCell(mem[cur], arg.key, arg.value)
    IN  /\ pc = "descend"
        /\ CanPin
        /\ mem[cur].type = "LEAF"
        /\ HasKey(mem[cur], arg.key) \/ Len(node.cells) <= LEAF_MAX_KEYS
        /\ mem' = [mem EXCEPT ![cur] = node]
        /\ Acknowledge
        /\ UNCHANGED <<logged, next_page_id, root_page_id, call, pool_size>>

\* Seeded fault: the threshold is one too high.
LeafInsertLate ==
    LET node == WithCell(mem[cur], arg.key, arg.value)
    IN  /\ pc = "descend"
        /\ CanPin
        /\ mem[cur].type = "LEAF"
        /\ HasKey(mem[cur], arg.key) \/ Len(node.cells) <= LEAF_MAX_KEYS + 1
        /\ Log(cur, node)
        /\ Acknowledge
        /\ UNCHANGED <<next_page_id, root_page_id, call, pool_size>>

\* The new cell fits, or an old one was updated: the leaf's guard goes and
\* the activations above return without touching their nodes.
LeafInsert ==
    LET node == WithCell(mem[cur], arg.key, arg.value)
    IN  /\ pc = "descend"
        /\ CanPin
        /\ mem[cur].type = "LEAF"
        /\ HasKey(mem[cur], arg.key) \/ Len(node.cells) <= LEAF_MAX_KEYS
        /\ Log(cur, node)
        /\ Acknowledge
        /\ UNCHANGED <<next_page_id, root_page_id, call, pool_size>>

\* Seeded fault: the left half is logged first.
SplitToLeftFirst(p, left, right, promoted) ==
    /\ next_page_id < MaxPages
    /\ mem' = [mem EXCEPT ![p] = left, ![next_page_id] = right]
    /\ logged' = [logged EXCEPT ![p] = left]
    /\ split' = [key |-> promoted, right |-> next_page_id]
    /\ next_page_id' = next_page_id + 1
    /\ cur' = p
    /\ pc' = "log_left"

\* Split page p into left and a new page right: right's guard is destructed,
\* and so logged, inside the split function.
SplitTo(p, left, right, promoted) ==
    /\ next_page_id < MaxPages
    /\ mem' = [mem EXCEPT ![p] = left, ![next_page_id] = right]
    /\ logged' = [logged EXCEPT ![next_page_id] = right]
    /\ split' = [key |-> promoted, right |-> next_page_id]
    /\ next_page_id' = next_page_id + 1
    /\ cur' = p
    /\ pc' = "log_left"

\* Seeded fault: the last key of the left half is promoted.
LeafSplitPromotingLast ==
    LET node == WithCell(mem[cur], arg.key, arg.value)
    IN  /\ pc = "descend"
        /\ CanPin
        /\ mem[cur].type = "LEAF"
        /\ ~HasKey(mem[cur], arg.key) /\ Len(node.cells) > LEAF_MAX_KEYS
        /\ Len(path) + 1 < pool_size
        /\ SplitTo(cur, SplitLeafLeft(node, next_page_id), SplitLeafRight(node),
                   node.cells[SplitPoint(node)].key)
        /\ UNCHANGED <<root_page_id, arg, path, ghosts, pool_size>>

LeafSplit ==
    LET node == WithCell(mem[cur], arg.key, arg.value)
    IN  /\ pc = "descend"
        /\ CanPin
        /\ mem[cur].type = "LEAF"
        /\ ~HasKey(mem[cur], arg.key) /\ Len(node.cells) > LEAF_MAX_KEYS
        /\ Len(path) + 1 < pool_size
        /\ SplitTo(cur, SplitLeafLeft(node, next_page_id), SplitLeafRight(node),
                   SplitLeafRight(node).cells[1].key)
        /\ UNCHANGED <<root_page_id, arg, path, ghosts, pool_size>>

\* No frame for the right sibling: the exception leaves the leaf with one
\* cell too many, and unwinding logs it.
LeafSplitThrows ==
    LET node == WithCell(mem[cur], arg.key, arg.value)
    IN  /\ pc = "descend"
        /\ CanPin
        /\ mem[cur].type = "LEAF"
        /\ ~HasKey(mem[cur], arg.key) /\ Len(node.cells) > LEAF_MAX_KEYS
        /\ Len(path) + 1 >= pool_size
        /\ Log(cur, node)
        /\ Fail(TRUE)
        /\ UNCHANGED <<next_page_id, root_page_id, call, pool_size>>

\* The activation that split cur returns; its guard logs the left half.
LogLeft ==
    /\ pc = "log_left"
    /\ logged' = [logged EXCEPT ![cur] = mem[cur]]
    /\ pc' = "parent"
    /\ UNCHANGED <<mem, next_page_id, root_page_id, call, ghosts, pool_size>>

\* The parent takes the separator and has room for it.
ParentInsert ==
    LET top  == Last(path)
        node == WithSeparator(mem[top.page], top.idx, split.key, split.right)
    IN  /\ pc = "parent"
        /\ path # << >>
        /\ Len(node.cells) <= INTERNAL_MAX_KEYS
        /\ Log(top.page, node)
        /\ Acknowledge
        /\ UNCHANGED <<next_page_id, root_page_id, call, pool_size>>

\* The parent takes the separator and splits in turn.
ParentSplit ==
    LET top  == Last(path)
        node == WithSeparator(mem[top.page], top.idx, split.key, split.right)
    IN  /\ pc = "parent"
        /\ path # << >>
        /\ Len(node.cells) > INTERNAL_MAX_KEYS
        /\ SplitTo(top.page, SplitInternalLeft(node), SplitInternalRight(node),
                   MiddleCell(node).key)
        /\ path' = Front(path)
        /\ UNCHANGED <<root_page_id, arg, ghosts, pool_size>>

\* Seeded fault: the metadata page is logged before the new root.
NewRootMetaFirst ==
    LET root == next_page_id
        meta == [type |-> "METADATA", root_page_id |-> root]
    IN  /\ pc = "parent"
        /\ path = << >>
        /\ next_page_id < MaxPages
        /\ mem' = [mem EXCEPT ![0] = meta, ![root] =
              Internal(<<[key |-> split.key, child |-> split.right]>>, root_page_id)]
        /\ logged' = [logged EXCEPT ![0] = meta]
        /\ root_page_id' = root
        /\ next_page_id' = next_page_id + 1
        /\ pc' = "log_meta"
        /\ UNCHANGED <<call, ghosts, pool_size>>

\* Seeded fault: the root is wrapped whichever node was split.
NewRootAlways ==
    /\ pc = "parent"
    /\ next_page_id < MaxPages
    /\ Log(next_page_id,
           Internal(<<[key |-> split.key, child |-> split.right]>>, root_page_id))
    /\ root_page_id' = next_page_id
    /\ next_page_id' = next_page_id + 1
    /\ pc' = "log_meta"
    /\ UNCHANGED <<call, ghosts, pool_size>>

\* The root was split: a new root is logged before anything points at it.
NewRoot ==
    /\ pc = "parent"
    /\ path = << >>
    /\ next_page_id < MaxPages
    /\ Log(next_page_id,
           Internal(<<[key |-> split.key, child |-> split.right]>>, root_page_id))
    /\ root_page_id' = next_page_id
    /\ next_page_id' = next_page_id + 1
    /\ pc' = "log_meta"
    /\ UNCHANGED <<call, ghosts, pool_size>>

\* The metadata page starts pointing at the new root, and Insert returns.
LogMeta ==
    /\ pc = "log_meta"
    /\ Log(0, [type |-> "METADATA", root_page_id |-> root_page_id])
    /\ Acknowledge
    /\ UNCHANGED <<next_page_id, root_page_id, call, pool_size>>

-----------------------------------------------------------------------------

\* Delete removes the cell from its leaf; nodes are never merged.
Delete(key) ==
    LET leaf == FindLeafPageId(key)
    IN  /\ pc = "idle"
        /\ ops < MaxOps
        /\ ops' = ops + 1
        /\ \/ /\ HasKey(mem[leaf], key)
              /\ Log(leaf, WithoutCell(mem[leaf], key))
           \/ /\ ~HasKey(mem[leaf], key)
              /\ UNCHANGED <<mem, logged>>
        /\ allowed' = [allowed EXCEPT ![key] = {Absent}]
        /\ UNCHANGED <<next_page_id, root_page_id, pc, call, crashes, torn_split, pool_size>>

\* A normal exit, between two calls.
Close ==
    /\ pc = "idle"
    /\ pc' = "closed"
    /\ UNCHANGED <<pages, call, ghosts, pool_size>>

\* The process dies.  An Insert under way may or may not have put its cell
\* into the log; a split is half-way from the moment its left half is
\* logged until something logged points at the right half.
Crash ==
    /\ pc \notin {"closed", "failed"}
    /\ crashes < MaxCrashes
    /\ crashes' = crashes + 1
    /\ mem' = logged
    /\ pc' = "closed"
    /\ allowed' = IF pc \in {"log_left", "parent", "log_meta"}
                  THEN [allowed EXCEPT ![arg.key] = @ \cup {arg.value}]
                  ELSE allowed
    /\ torn_split' = \/ torn_split
                     \/ pc \in {"parent", "log_meta"}
                     \/ pc = "log_left" /\ mem[cur].type = "INTERNAL"
    /\ UNCHANGED <<logged, next_page_id, root_page_id, call, ops, pool_size>>

Next ==
    \/ CreateRoot
    \/ CreateMeta
    \/ Reopen
    \/ \E key \in Key, value \in Value : Insert(key, value)
    \/ PinFails
    \/ Descend
    \/ LeafInsert
    \/ LeafSplit
    \/ LeafSplitThrows
    \/ LogLeft
    \/ ParentInsert
    \/ ParentSplit
    \/ NewRoot
    \/ LogMeta
    \/ \E key \in Key : Delete(key)
    \/ Close
    \/ Crash

Spec == Init /\ [][Next]_vars

\* A call that was made keeps executing until it returns or is killed.
InsertStep ==
    \/ PinFails \/ Descend \/ LeafInsert \/ LeafSplit \/ LeafSplitThrows
    \/ LogLeft \/ ParentInsert \/ ParentSplit \/ NewRoot \/ LogMeta

FairSpec == Spec /\ WF_vars(InsertStep)

-----------------------------------------------------------------------------
(* Properties. *)

\* The pages a page points at: children, the next leaf, the root.
Refs(node) ==
    CASE node.type = "LEAF" -> {node.next_leaf} \ {NoPage}
      [] node.type = "INTERNAL" ->
            {node.leftmost_child} \cup
                {node.cells[i].child : i \in 1 .. Len(node.cells)}
      [] node.type = "METADATA" -> {node.root_page_id}

\* The log is downward closed at every moment (the logging order of
\* Insert's and the constructor's guards): a page in the log points only at
\* pages in the log, so no crash leaves a dangling pointer behind.
NoDangling ==
    \A p \in PageId : logged[p] # NoNode =>
        \A q \in Refs(logged[p]) : q \in PageId /\ logged[q] # NoNode

\* Between two calls, from the root every search ends in a leaf
\* (FindLeafPageId terminates), however many splits a crash cut in half.
Walkable ==
    pc = "idle" => \A key \in Key : FindLeafPageId(key) # NoPage

\* A cell that is in a leaf of the tree is in the leaf a search for its key
\* leads to (ChildIdx sends a key equal to a separator to the right, and
\* the promoted key is the first of the right half).
KeysRouteHome ==
    pc = "idle" =>
        \A key \in Key :
            LET p == FindLeafPageId(key)
            IN  \A i \in 1 .. Len(mem[p].cells) : FindLeafPageId(mem[p].cells[i].key) = p

\* The cells of a node are strictly ordered by key in whatever state a crash
\* may find the log: shifting, splitting and deleting keep the order.
NodesAreSorted ==
    \A p \in PageId : logged[p] # NoNode /\ logged[p].type # "METADATA" =>
        \A i, j \in 1 .. Len(logged[p].cells) :
            i < j => logged[p].cells[i].key < logged[p].cells[j].key

\* Get returns what the last Insert or Delete of the key has left, or, for a
\* call a crash cut short, what was there before it; a crash loses nothing
\* except when it hits a split between the logging of its left half and of
\* the pointer to its right half.
GetIsRight ==
    pc = "idle" /\ ~torn_split => \A key \in Key : Get(key) \in allowed[key]

Sorted(cells) ==
    \A i, j \in 1 .. Len(cells) : i < j => cells[i].key < cells[j].key

\* RangeScan returns exactly the cells Get finds in the range, in order and
\* none twice.
ScanIsRight ==
    pc = "idle" /\ ~torn_split =>
        \A low, high \in Key :
            LET scan  == RangeScan(low, high)
                found == {k \in Key : low <= k /\ k <= high /\ Get(k) # Absent}
            IN  /\ Sorted(scan)
                /\ Range(scan) = {[key |-> k, value |-> Get(k)] : k \in found}

\* The number of separator nodes a search for key passes.
Depth(key) == Descent(key)[MaxPages].passed

\* All leaves are equally deep (a split root is wrapped in a new one), even
\* in a tree that lost the pointer to half of a node.
Balanced ==
    pc = "idle" =>
        \E depth \in {Depth(k) : k \in Key} : \A k \in Key : Depth(k) = depth

Fits(node) ==
    /\ node.type = "LEAF" => Len(node.cells) <= LEAF_MAX_KEYS
    /\ node.type = "INTERNAL" => Len(node.cells) \in 1 .. INTERNAL_MAX_KEYS

\* No logged node has more cells than the fanout, and no separator node is
\* without a separator, if no split was refused for lack of a frame.
NodesFit == \A p \in PageId : logged[p] # NoNode => Fits(logged[p])

\* Insert returns, in whatever tree recovery has left: the descent does not
\* go in circles and a split does not climb for ever.
InsertReturns ==
    pc = "descend" ~> pc \in {"idle", "closed"}

\* The recovery test's claim that "the recovered tree is always structurally
\* walkable", for a crash at any point: opening the database succeeds.
OpenSucceeds == pc # "failed"

\* The recovery test's claim of recovery "to a valid state, never
\* partially-applied, never corrupted": Get finds every key.
GetSurvivesCrash ==
    pc = "idle" => \A key \in Key : Get(key) \in allowed[key]

-----------------------------------------------------------------------------
(* The inductive invariant the properties are proved from.  It speaks of a  *)
(* search tree in the given contents of the pages: home[p] is the set of    *)
(* keys whose search passes page p, empty for a page outside the tree, and  *)
(* level[p] the number of levels below p.  If left is a page, it was split  *)
(* and no node points at its right half yet; if left is NoPage there is no  *)
(* such split.                                                              *)

\* The key belongs after separator i and before the next one.
Between(cells, i, key) ==
    /\ \A j \in 1 .. i : cells[j].key <= key
    /\ \A j \in i + 1 .. Len(cells) : key < cells[j].key

\* The keys the pointer to page p stands for.
Cover(home, left, right, p) ==
    IF p = left THEN home[p] \cup home[right] ELSE home[p]

\* A page of the tree is sorted and has keys of its own; the children of a
\* separator node are one level below it and share its keys as the
\* separators say.
NodeIsRouted(node, p, home, level, left, right) ==
    /\ node \in LeafNode \cup InternalNode
    /\ Sorted(node.cells)
    /\ \A i \in 1 .. Len(node.cells) : node.cells[i].key \in home[p]
    /\ level[p] \in 0 .. p
    /\ node.type = "LEAF" <=> level[p] = 0
    /\ node.type = "INTERNAL" =>
          \A i \in 0 .. Len(node.cells) :
              LET c == ChildAt(node, i)
              IN  /\ home[c] # {}
                  /\ level[c] = level[p] - 1
                  /\ Cover(home, left, right, c) = {k \in home[p] : Between(node.cells, i, k)}

\* Pages that have a key in common are on different levels, and the upper
\* one has all keys of the lower one.
Nested(home, level, left, right) ==
    \A p, q \in PageId :
        /\ level[p] = level[q] /\ home[p] \cap home[q] # {} => p = q
        /\ level[p] < level[q] /\ Cover(home, left, right, p) \cap home[q] # {} =>
              Cover(home, left, right, p) \subseteq home[q]

SearchTree(content, root, home, level, left, right) ==
    /\ \A p \in PageId : home[p] # {} =>
          NodeIsRouted(content[p], p, home, level, left, right) /\ level[p] <= level[root]
    /\ Nested(home, level, left, right)
    /\ home[root] # {} /\ Cover(home, left, right, root) = Key

\* Pages left and right have what were one page's keys, below m and from m
\* on.
Parted(home, level, left, right, m) ==
    /\ home[left] # {} /\ level[right] = level[left]
    /\ m \in home[right]
    /\ \A k \in home[left] : k < m
    /\ \A k \in home[right] : m <= k

\* The leaf of a key has for it what may be there.
HoldsValues(content, home, may) ==
    \A p \in PageId : home[p] # {} /\ content[p].type = "LEAF" =>
        \A k \in home[p] : Lookup(content[p], k) \in may[k]

\* The keys of others come after those of mine, with no key in between; all
\* keys from mine on are in mine if there are no others.
FollowedBy(mine, others) ==
    /\ \A k \in mine, l \in others : k < l
    /\ \A k \in mine, l \in Key : k <= l => l \in mine \/ \E o \in others : o <= l

\* The next leaf has the keys that follow a leaf's own.
Chained(content, home) ==
    \A p \in PageId : home[p] # {} /\ content[p].type = "LEAF" =>
        LET next == content[p].next_leaf
        IN  IF next = NoPage THEN FollowedBy(home[p], {})
            ELSE /\ next \in PageId /\ home[next] # {} /\ content[next].type = "LEAF"
                 /\ FollowedBy(home[p], home[next])

\* A tree no split of which was torn: the leaves are right one by one and in
\* a row.
IsIndex(content, home, may) == HoldsValues(content, home, may) /\ Chained(content, home)

Splitting == pc \in {"log_left", "parent"}

\* The page whose right half is still missing from the tree.
LeftHalf == IF Splitting THEN cur ELSE NoPage

\* What Get may find in memory: the cell of an Insert under way is there
\* once a split has begun.
MayHold ==
    [k \in Key |-> IF pc \in {"log_left", "parent", "log_meta"} /\ k = arg.key
                   THEN {arg.value} ELSE allowed[k]]

\* Where activation i of InsertRecursive has descended to; page 0 of the
\* path, so to speak, is where the descent began.
Visited(i) == IF i = Len(path) THEN cur ELSE path[i + 1].page

\* The activations lead from the root to cur, one level down each.
PathLeadsDown(home, level) ==
    /\ home[cur] # {}
    /\ Visited(0) = root_page_id
    /\ \A i \in 1 .. Len(path) :
          LET p == path[i].page
          IN  /\ home[p] # {}
              /\ level[p] = level[cur] + 1 + Len(path) - i
              /\ mem[p].type = "INTERNAL"
              /\ path[i].idx \in 0 .. Len(mem[p].cells)
              /\ ChildAt(mem[p], path[i].idx) = Visited(i)

\* The tree in memory, the Insert under way included.
MemoryIsTree(home, level) ==
    /\ SearchTree(mem, root_page_id, home, level, LeftHalf, split.right)
    /\ ~torn_split => IsIndex(mem, home, MayHold)
    /\ pc = "descend" => arg.key \in home[cur]
    /\ pc = "descend" \/ Splitting => PathLeadsDown(home, level)
    /\ Splitting => Parted(home, level, cur, split.right, split.key)

\* The moments at which a crash tears no split.
WholeLog ==
    \/ pc \in {"closed", "creating", "idle", "descend"}
    \/ pc = "log_left" /\ mem[cur].type = "LEAF"

\* The tree recovery would restore.
LogIsTree(home, level) ==
    /\ SearchTree(logged, logged[0].root_page_id, home, level, NoPage, NoPage)
    /\ ~torn_split /\ WholeLog => IsIndex(logged, home, allowed)

\* How memory and log differ; the metadata page is the last of a new root.
LogFollowsMemory ==
    /\ pc \notin {"creating", "log_left"} => mem = logged
    /\ pc = "creating" => mem = [logged EXCEPT ![0] = mem[0]]
    /\ pc = "log_left" => mem = [logged EXCEPT ![cur] = mem[cur]]
    /\ pc \in {"creating", "idle", "descend", "log_left", "parent"} =>
          mem[0] = [type |-> "METADATA", root_page_id |-> root_page_id]
    /\ logged[0] # NoNode => logged[0] \in MetaNode
    /\ IF logged[0] = NoNode
       THEN /\ pc \in {"closed", "creating", "failed"}
            /\ \A k \in Key : allowed[k] = {Absent}
       ELSE pc \notin {"creating", "failed"}

\* Pages not handed out are empty.
FreshPages ==
    \A p \in PageId : p >= next_page_id => mem[p] = NoNode /\ logged[p] = NoNode

\* Sorted nodes and pointers into the log, also outside the tree.
NodeIsSound(node, log) ==
    /\ node.type # "METADATA" => Sorted(node.cells)
    /\ \A q \in Refs(node) : q \in PageId /\ log[q] # NoNode

PagesAreSound(content, log) ==
    \A p \in PageId : /\ content[p] # NoNode => NodeIsSound(content[p], log)
                      /\ log[p] # NoNode => NodeIsSound(log[p], log)

BTreeInv ==
    /\ BTreeTypeOK /\ LogFollowsMemory /\ FreshPages /\ PagesAreSound(mem, logged)
    /\ pc \notin {"closed", "failed"} =>
          \E home \in [PageId -> SUBSET Key], level \in [PageId -> Nat] : MemoryIsTree(home, level)
    /\ logged[0] # NoNode =>
          \E home \in [PageId -> SUBSET Key], level \in [PageId -> Nat] : LogIsTree(home, level)
=============================================================================
