---------------------------- MODULE BTreeProofs ----------------------------
(***************************************************************************)
(* The B+ tree keeps a search tree in memory and one in the log, through   *)
(* every split and whatever a crash leaves of one.  The invariant BTreeInv *)
(* says that there are homes and levels that show it; each step below      *)
(* gives those of the next state.  The last section is about the sizes of  *)
(* nodes.                                                                  *)
(***************************************************************************)
EXTENDS BTreeLemmas

LEMMA BTreeInitially == Init => BTreeInv
<1> SUFFICES ASSUME Init PROVE BTreeInv
  OBVIOUS
<1> USE DEF Init
<1>1. 0 \in PageId
  BY BTreeBoundsAssumption DEF PageId
<1>2. arg \in [key : Key, value : Value]
  <2>1. (CHOOSE k \in Key : TRUE) \in Key /\ (CHOOSE v \in Value : TRUE) \in Value
    BY KeyAssumption, ValueAssumption
  <2> QED
    BY <2>1
<1>3. BTreeTypeOK
  <2>1. split \in [key : Key, right : PageId]
    BY <1>1, <1>2
  <2>2. next_page_id \in 0 .. MaxPages /\ ops \in 0 .. MaxOps /\ crashes \in 0 .. MaxCrashes
    BY BTreeBoundsAssumption
  <2>3. allowed \in [Key -> SUBSET (Value \cup {Absent})]
    OBVIOUS
  <2>4. path \in Seq([page : PageId, idx : Nat])
    OBVIOUS
  <2> QED
    BY <1>1, <1>2, <2>1, <2>2, <2>3, <2>4 DEF BTreeTypeOK
<1>4. LogFollowsMemory
  BY <1>1 DEF LogFollowsMemory
<1>5. FreshPages /\ PagesAreSound(mem, logged)
  BY DEF FreshPages, PagesAreSound
<1> QED
  BY <1>1, <1>3, <1>4, <1>5 DEF BTreeInv

\* The pages after the last one in the log.
LEMMA DiskPages ==
  ASSUME logged \in [PageId -> Node \cup {NoNode}]
  PROVE  /\ PagesOnDisk \in 0 .. MaxPages
         /\ \A p \in PageId : p >= PagesOnDisk => logged[p] = NoNode
<1> DEFINE S == {p \in PageId : logged[p] # NoNode}
<1>1. CASE S = {}
  BY <1>1, BTreeBoundsAssumption DEF PagesOnDisk
<1>2. CASE S # {}
  <2>1. MaxPages - 1 \in Nat /\ S \in SUBSET (0 .. MaxPages - 1)
    BY BTreeBoundsAssumption DEF PageId
  <2>2. Max(S) \in S /\ \A y \in S : Max(S) >= y
    <3> HIDE DEF S
    <3> QED
      BY <1>2, <2>1, MaxOfBounded
  <2>3. Max(S) \in PageId /\ logged[Max(S)] # NoNode
        /\ \A q \in PageId : logged[q] # NoNode => q <= Max(S)
    <3>1. \A y \in S : y <= Max(S)
      BY <2>2 DEF PageId
    <3> QED
      BY <2>2, <3>1
  <2>4. PICK last \in PageId : /\ PagesOnDisk = 1 + last
                               /\ \A q \in PageId : logged[q] # NoNode => q <= last
    BY <1>2, <2>3 DEF PagesOnDisk
  <2> QED
    BY <2>4, BTreeBoundsAssumption DEF PageId
<1> QED
  BY <1>1, <1>2

\* Unless a split is under way one tree shows what is in memory and in the
\* log.
LEMMA WholeTrees ==
  ASSUME pc' \in {"idle", "descend"}, mem' = logged', root_page_id' \in PageId,
         logged'[0] = [type |-> "METADATA", root_page_id |-> root_page_id'],
         NEW home \in Homes, NEW level \in Levels, NEW r,
         SearchTree(mem', root_page_id', home, level, NoPage, r),
         ~torn_split' => IsIndex(mem', home, allowed'),
         pc' = "descend" => arg'.key \in home[cur'] /\ PathLeadsDown(home, level)'
  PROVE  MemoryIsTree(home, level)' /\ LogIsTree(home, level)'
<1>1. LeftHalf' = NoPage /\ ~Splitting' /\ WholeLog' /\ MayHold' = [k \in Key |-> allowed'[k]]
  BY DEF LeftHalf, Splitting, WholeLog, MayHold
<1>2. SearchTree(mem', root_page_id', home, level, LeftHalf', split'.right)
  BY <1>1, NoSplitTree
<1>3. SearchTree(logged', root_page_id', home, level, NoPage, NoPage)
  BY NoSplitTree
<1>4. logged'[0].root_page_id = root_page_id'
  OBVIOUS
<1>5. ~torn_split' => IsIndex(mem', home, MayHold')
  <2>1. \A p \in PageId : \A k \in home[p] : allowed'[k] \subseteq MayHold'[k]
    BY <1>1 DEF Homes
  <2> QED
    BY <2>1, SameValues
<1>6. MemoryIsTree(home, level)'
  BY <1>1, <1>2, <1>5 DEF MemoryIsTree
<1>7. LogIsTree(home, level)'
  BY <1>3, <1>4 DEF LogIsTree
<1> QED
  BY <1>6, <1>7

LEMMA MetaOf ==
  ASSUME NEW root \in PageId, NEW meta, meta = [type |-> "METADATA", root_page_id |-> root]
  PROVE  meta \in MetaNode /\ meta \in Node /\ meta # NoNode /\ meta.root_page_id = root
         /\ meta.type = "METADATA"
<1>1. meta \in MetaNode /\ meta.root_page_id = root /\ meta.type = "METADATA"
  BY DEF MetaNode
<1> QED
  BY <1>1, NoNodeAssumption DEF Node

LEMMA WholeStep ==
  ASSUME BTreeTypeOK', FreshPages', PagesAreSound(mem', logged'),
         pc' \in {"idle", "descend"}, mem' = logged',
         logged'[0] = [type |-> "METADATA", root_page_id |-> root_page_id'],
         NEW home \in Homes, NEW level \in Levels, NEW r,
         SearchTree(mem', root_page_id', home, level, NoPage, r),
         ~torn_split' => IsIndex(mem', home, allowed'),
         pc' = "descend" => arg'.key \in home[cur'] /\ PathLeadsDown(home, level)'
  PROVE  BTreeInv'
<1>1. root_page_id' \in PageId
  BY DEF BTreeTypeOK
<1>2. logged'[0] \in MetaNode /\ logged'[0] # NoNode
  BY <1>1, MetaOf
<1>3. LogFollowsMemory'
  BY <1>2 DEF LogFollowsMemory
<1>4. MemoryIsTree(home, level)' /\ LogIsTree(home, level)'
  BY <1>1, WholeTrees
<1> QED
  BY <1>3, <1>4 DEF BTreeInv, Homes, Levels

LEMMA WholeState ==
  ASSUME BTreeInv, pc \in {"idle", "descend"}
  PROVE  /\ BTreeTypeOK /\ FreshPages /\ PagesAreSound(mem, logged)
         /\ mem = logged
         /\ logged[0] = [type |-> "METADATA", root_page_id |-> root_page_id]
         /\ \E home \in Homes, level \in Levels :
               /\ SearchTree(mem, root_page_id, home, level, NoPage, split.right)
               /\ ~torn_split => IsIndex(mem, home, allowed)
               /\ pc = "descend" => arg.key \in home[cur] /\ PathLeadsDown(home, level)
<1>1. BTreeTypeOK /\ LogFollowsMemory /\ FreshPages /\ PagesAreSound(mem, logged)
  BY DEF BTreeInv
<1>2. mem = logged /\ logged[0] = [type |-> "METADATA", root_page_id |-> root_page_id]
  BY <1>1 DEF LogFollowsMemory
<1>3. PICK home \in Homes, level \in Levels : MemoryIsTree(home, level)
  BY DEF BTreeInv, Homes, Levels
<1>4. LeftHalf = NoPage /\ MayHold = [k \in Key |-> allowed[k]]
  BY DEF LeftHalf, Splitting, MayHold
<1>5. SearchTree(mem, root_page_id, home, level, NoPage, split.right)
  BY <1>3, <1>4 DEF MemoryIsTree
<1>6. ~torn_split => IsIndex(mem, home, allowed)
  <2>1. \A p \in PageId : \A k \in home[p] : MayHold[k] \subseteq allowed[k]
    BY <1>4 DEF Homes
  <2> QED
    BY <1>3, <2>1, SameValues DEF MemoryIsTree
<1>7. pc = "descend" => arg.key \in home[cur] /\ PathLeadsDown(home, level)
  BY <1>3 DEF MemoryIsTree
<1> QED
  BY <1>1, <1>2, <1>5, <1>6, <1>7

-----------------------------------------------------------------------------
(* Opening and closing. *)

LEMMA EmptyLeaf ==
  /\ Leaf(<< >>, NoPage) \in LeafNode /\ Sorted(Leaf(<< >>, NoPage).cells)
  /\ Leaf(<< >>, NoPage).next_leaf = NoPage /\ Leaf(<< >>, NoPage) \in Node
  /\ Leaf(<< >>, NoPage) # NoNode /\ Leaf(<< >>, NoPage).type = "LEAF"
  /\ Len(Leaf(<< >>, NoPage).cells) = 0
  /\ \A k : Lookup(Leaf(<< >>, NoPage), k) = Absent
<1> DEFINE e == Leaf(<< >>, NoPage)
<1>1. e \in LeafNode /\ e.cells = << >> /\ e.next_leaf = NoPage /\ Len(e.cells) = 0
  BY DEF Leaf, LeafNode
<1> HIDE DEF e
<1>2. Sorted(e.cells) /\ \A k : ~HasKey(e, k)
  BY <1>1 DEF Sorted, HasKey
<1>3. \A k : Lookup(e, k) = Absent
  BY <1>2 DEF Lookup
<1> QED
  BY <1>1, <1>2, <1>3, LeafFields DEF e

LEMMA CreateRootStep ==
  ASSUME BTreeInv, CreateRoot
  PROVE  BTreeInv'
<1> USE DEF CreateRoot
<1> DEFINE leaf == Leaf(<< >>, NoPage)
           meta == [type |-> "METADATA", root_page_id |-> 1]
<1>0. BTreeTypeOK /\ LogFollowsMemory /\ FreshPages /\ PagesAreSound(mem, logged)
  BY DEF BTreeInv
<1>1. 0 \in PageId /\ 1 \in PageId /\ MaxPages \in Nat /\ 2 \in 0 .. MaxPages
  BY BTreeBoundsAssumption DEF PageId
<1>2. logged \in [PageId -> Node \cup {NoNode}] /\ mem = logged /\ \A p \in PageId : logged[p] = NoNode
  <2>1. logged \in [PageId -> Node \cup {NoNode}] /\ mem = logged
    BY <1>0 DEF BTreeTypeOK, LogFollowsMemory
  <2>2. \A p \in PageId : p >= PagesOnDisk => logged[p] = NoNode
    BY <2>1, DiskPages
  <2> QED
    BY <2>1, <2>2 DEF PageId
<1>3. /\ meta \in MetaNode /\ meta \in Node /\ meta # NoNode /\ meta.root_page_id = 1
  BY <1>1, MetaOf
<1>4. /\ leaf \in LeafNode /\ Sorted(leaf.cells) /\ leaf.next_leaf = NoPage /\ leaf \in Node
      /\ leaf # NoNode /\ leaf.type = "LEAF" /\ Len(leaf.cells) = 0
      /\ \A k : Lookup(leaf, k) = Absent
  BY EmptyLeaf
<1>5. /\ mem' = [logged EXCEPT ![0] = meta, ![1] = leaf]
      /\ logged' = [logged EXCEPT ![1] = leaf]
  OBVIOUS
<1> HIDE DEF leaf, meta
<1>6. /\ mem' \in [PageId -> Node \cup {NoNode}] /\ logged' \in [PageId -> Node \cup {NoNode}]
      /\ mem'[0] = meta /\ mem'[1] = leaf /\ logged'[0] = NoNode /\ logged'[1] = leaf
      /\ \A p \in PageId : p # 0 /\ p # 1 => mem'[p] = NoNode /\ logged'[p] = NoNode
  BY <1>1, <1>2, <1>3, <1>4, <1>5
<1>7. BTreeTypeOK'
  BY <1>0, <1>1, <1>6 DEF BTreeTypeOK, call, ghosts
<1>8. LogFollowsMemory'
  <2>1. mem' = [logged' EXCEPT ![0] = mem'[0]]
    BY <1>1, <1>5, <1>6
  <2>2. \A k \in Key : allowed'[k] = {Absent}
    BY <1>0, <1>1, <1>2 DEF LogFollowsMemory, ghosts
  <2> QED
    BY <1>6, <2>1, <2>2 DEF LogFollowsMemory, meta
<1>9. FreshPages'
  BY <1>6 DEF FreshPages
<1>10. PagesAreSound(mem', logged')
  <2>1. NodeIsSound(meta, logged') /\ NodeIsSound(leaf, logged')
    <3>1. NodeIsSound(meta, logged')
      <4>1. logged'[meta.root_page_id] # NoNode
        BY <1>3, <1>4, <1>6
      <4> QED
        BY <1>3, <4>1, MetaIsSound
    <3>2. NodeIsSound(leaf, logged')
      BY <1>4, LeafIsSound
    <3> QED
      BY <3>1, <3>2
  <2>2. \A p \in PageId : p = 0 \/ p = 1 \/ (p # 0 /\ p # 1)
    OBVIOUS
  <2> QED
    BY <1>6, <2>1, <2>2 DEF PagesAreSound
<1>11. \E home \in [PageId -> SUBSET Key], level \in [PageId -> Nat] : MemoryIsTree(home, level)'
  <2> DEFINE home == [p \in PageId |-> IF p = 1 THEN Key ELSE {}]
             level == [p \in PageId |-> 0]
  <2>1. home \in Homes /\ level \in Levels
    BY DEF Homes, Levels
  <2>2. /\ home[1] = Key /\ home[1] # {} /\ \A p \in PageId : home[p] # {} <=> p = 1
        /\ \A p \in PageId : level[p] = 0
    BY <1>1, KeyAssumption
  <2> HIDE DEF home, level
  <2>3. NodeIsRouted(leaf, 1, home, level, NoPage, split'.right)
    <3>1. level[1] = 0 /\ 0 \in 0 .. 1 /\ \A i \in 1 .. Len(leaf.cells) : FALSE
      BY <1>1, <1>4, <2>2
    <3> QED
      BY <1>4, <3>1 DEF NodeIsRouted
  <2>4. Nested(home, level, NoPage, split'.right)
    BY <2>2 DEF Nested
  <2>5. Cover(home, NoPage, split'.right, 1) = Key
    BY <1>1, <2>2, NoSplitCover
  <2>6. SearchTree(mem', 1, home, level, NoPage, split'.right)
    BY <1>1, <1>6, <2>2, <2>3, <2>4, <2>5 DEF SearchTree
  <2>7. LeftHalf' = NoPage /\ ~Splitting' /\ MayHold' = [k \in Key |-> allowed'[k]]
    BY DEF LeftHalf, Splitting, MayHold
  <2>8. IsIndex(mem', home, MayHold')
    <3>1. \A k \in Key : allowed'[k] = {Absent}
      BY <1>0, <1>1, <1>2 DEF LogFollowsMemory, ghosts
    <3>2. \A k \in Key : Lookup(leaf, k) \in MayHold'[k]
      BY <1>4, <2>7, <3>1
    <3>3. HoldsValues(mem', home, MayHold')
      BY <1>6, <2>2, <3>2 DEF HoldsValues
    <3>4. Chained(mem', home)
      <4>1. mem'[1].next_leaf = NoPage /\ FollowedBy(home[1], {})
        BY <1>4, <1>6, <2>2 DEF FollowedBy
      <4> QED
        BY <2>2, <4>1 DEF Chained
    <3> QED
      BY <3>3, <3>4 DEF IsIndex
  <2>9. MemoryIsTree(home, level)'
    BY <2>6, <2>7, <2>8 DEF MemoryIsTree
  <2> QED
    BY <2>1, <2>9 DEF Homes, Levels
<1> QED
  BY <1>6, <1>7, <1>8, <1>9, <1>10, <1>11 DEF BTreeInv

LEMMA CreateMetaStep ==
  ASSUME BTreeInv, CreateMeta
  PROVE  BTreeInv'
<1> USE DEF CreateMeta
<1>0. BTreeTypeOK /\ LogFollowsMemory /\ FreshPages /\ PagesAreSound(mem, logged)
  BY DEF BTreeInv
<1>1. 0 \in PageId /\ root_page_id \in PageId /\ mem' = mem /\ pc' = "idle"
  BY <1>0, BTreeBoundsAssumption DEF PageId, BTreeTypeOK
<1>2. /\ mem = [logged EXCEPT ![0] = mem[0]]
      /\ mem[0] = [type |-> "METADATA", root_page_id |-> root_page_id]
  BY <1>0 DEF LogFollowsMemory
<1>3. logged' = mem
  BY <1>2
<1>4. mem[0] \in MetaNode /\ mem[0] # NoNode
  BY <1>1, <1>2, MetaOf
<1>5. BTreeTypeOK'
  BY <1>0, <1>3 DEF BTreeTypeOK, call, ghosts
<1>6. LogFollowsMemory'
  BY <1>1, <1>2, <1>3, <1>4 DEF LogFollowsMemory
<1>7. FreshPages'
  BY <1>0, <1>1, <1>3 DEF FreshPages
<1>8. PagesAreSound(mem', logged')
  <2>1. \A q \in PageId : logged[q] # NoNode => logged'[q] # NoNode
    BY <1>0, <1>1, <1>2, <1>3, <1>4 DEF BTreeTypeOK
  <2>2. SoundChange(mem, logged, mem', logged')
    BY <1>1, <1>3, <2>1 DEF SoundChange
  <2> QED
    BY <1>0, <2>2, SoundPages
<1>9. PICK home \in Homes, level \in Levels : MemoryIsTree(home, level)
  BY DEF BTreeInv, Homes, Levels
<1>10. MemoryIsTree(home, level)' /\ LogIsTree(home, level)'
  <2>1. LeftHalf = NoPage /\ MayHold = [k \in Key |-> allowed[k]]
    BY DEF LeftHalf, Splitting, MayHold
  <2>2. SearchTree(mem, root_page_id, home, level, NoPage, split.right)
    BY <1>9, <2>1 DEF MemoryIsTree
  <2>3. ~torn_split => IsIndex(mem, home, allowed)
    <3>1. \A p \in PageId : \A k \in home[p] : MayHold[k] \subseteq allowed[k]
      BY <2>1 DEF Homes
    <3> QED
      BY <1>9, <3>1, SameValues DEF MemoryIsTree
  <2> QED
    BY <1>1, <1>2, <1>3, <2>2, <2>3, WholeTrees DEF ghosts
<1> QED
  BY <1>5, <1>6, <1>7, <1>8, <1>10 DEF BTreeInv, Homes, Levels

LEMMA LivePages ==
  ASSUME NEW content, NEW root \in PageId, NEW home \in Homes, NEW level \in Levels, NEW left, NEW right,
         SearchTree(content, root, home, level, left, right), NEW p \in PageId, home[p] # {}
  PROVE  /\ NodeIsRouted(content[p], p, home, level, left, right) /\ level[p] <= level[root]
         /\ content[p] \in Node /\ content[p] # NoNode
         /\ content[p].type \in {"LEAF", "INTERNAL"}
<1>1. NodeIsRouted(content[p], p, home, level, left, right) /\ level[p] <= level[root]
  BY DEF SearchTree
<1> QED
  BY <1>1, RoutedNode

LEMMA ReopenStep ==
  ASSUME BTreeInv, Reopen
  PROVE  BTreeInv'
<1> USE DEF Reopen
<1>0. BTreeTypeOK /\ LogFollowsMemory /\ FreshPages /\ PagesAreSound(mem, logged)
  BY DEF BTreeInv
<1>1. 0 \in PageId /\ logged \in [PageId -> Node \cup {NoNode}] /\ mem = logged
  BY <1>0, BTreeBoundsAssumption DEF PageId, BTreeTypeOK, LogFollowsMemory
<1>2. mem' = logged /\ logged' = logged
  OBVIOUS
<1>3. logged[0] # NoNode => /\ logged[0] \in MetaNode /\ pc = "closed"
                            /\ pc' = "idle" /\ root_page_id' = logged[0].root_page_id
                            /\ root_page_id' \in PageId
                            /\ logged[0] = [type |-> "METADATA", root_page_id |-> root_page_id']
  BY <1>0 DEF LogFollowsMemory, MetaNode
<1>4. logged[0] = NoNode => pc' = "failed" /\ root_page_id' = root_page_id
                            /\ \A k \in Key : allowed'[k] = {Absent}
  BY <1>0 DEF LogFollowsMemory, ghosts
<1>5. BTreeTypeOK'
  <2>1. root_page_id' \in PageId /\ pc' \in {"idle", "failed"}
    BY <1>0, <1>3, <1>4 DEF BTreeTypeOK
  <2>2. next_page_id' \in 0 .. MaxPages
    BY <1>1, DiskPages
  <2> QED
    BY <1>0, <1>2, <2>1, <2>2 DEF BTreeTypeOK, call, ghosts
<1>6. LogFollowsMemory'
  <2>1. CASE logged[0] = NoNode
    BY <1>2, <1>4, <2>1 DEF LogFollowsMemory
  <2>2. CASE logged[0] # NoNode
    BY <1>2, <1>3, <2>2 DEF LogFollowsMemory
  <2> QED
    BY <2>1, <2>2
<1>7. FreshPages'
  BY <1>1, <1>2, DiskPages DEF FreshPages
<1>8. PagesAreSound(mem', logged')
  BY <1>0, <1>1, <1>2
<1>9. ASSUME logged[0] # NoNode
      PROVE  \E home \in [PageId -> SUBSET Key], level \in [PageId -> Nat] :
                MemoryIsTree(home, level)' /\ LogIsTree(home, level)'
  <2>1. PICK home \in Homes, level \in Levels : LogIsTree(home, level)
    BY <1>9 DEF BTreeInv, Homes, Levels
  <2>2. SearchTree(logged, root_page_id', home, level, NoPage, NoPage)
    BY <1>3, <1>9, <2>1 DEF LogIsTree
  <2>3. ~torn_split' => IsIndex(logged, home, allowed')
    BY <1>3, <1>9, <2>1 DEF LogIsTree, WholeLog, ghosts
  <2>4. MemoryIsTree(home, level)' /\ LogIsTree(home, level)'
    BY <1>2, <1>3, <1>9, <2>2, <2>3, WholeTrees
  <2> QED
    BY <2>4 DEF Homes, Levels
<1>10. CASE logged[0] = NoNode
  BY <1>2, <1>4, <1>5, <1>6, <1>7, <1>8, <1>10 DEF BTreeInv
<1>11. CASE logged[0] # NoNode
  BY <1>2, <1>5, <1>6, <1>7, <1>8, <1>9, <1>11 DEF BTreeInv
<1> QED
  BY <1>10, <1>11

LEMMA CloseStep ==
  ASSUME BTreeInv, Close
  PROVE  BTreeInv'
<1> USE DEF Close
<1>0. BTreeTypeOK /\ LogFollowsMemory /\ FreshPages /\ PagesAreSound(mem, logged)
  BY DEF BTreeInv
<1>1. mem' = mem /\ logged' = logged /\ pc' = "closed"
      /\ allowed' = allowed /\ torn_split' = torn_split
  BY DEF pages, ghosts
<1>2. BTreeTypeOK'
  BY <1>0 DEF BTreeTypeOK, pages, call, ghosts
<1>3. LogFollowsMemory'
  BY <1>0, <1>1 DEF LogFollowsMemory
<1>4. FreshPages'
  BY <1>0 DEF FreshPages, pages
<1>5. ASSUME NEW home, NEW level, LogIsTree(home, level) PROVE LogIsTree(home, level)'
  <2>1. WholeLog /\ WholeLog'
    BY DEF WholeLog
  <2> QED
    BY <1>1, <1>5, <2>1 DEF LogIsTree
<1> QED
  BY <1>0, <1>1, <1>2, <1>3, <1>4, <1>5 DEF BTreeInv

LEMMA CrashStep ==
  ASSUME BTreeInv, Crash
  PROVE  BTreeInv'
<1> USE DEF Crash
<1>0. BTreeTypeOK /\ LogFollowsMemory /\ FreshPages /\ PagesAreSound(mem, logged)
  BY DEF BTreeInv
<1>1. mem' = logged /\ logged' = logged /\ pc' = "closed"
  OBVIOUS
<1>2. /\ allowed' \in [Key -> SUBSET (Value \cup {Absent})]
      /\ \A k \in Key : allowed[k] \subseteq allowed'[k]
      /\ logged[0] = NoNode => allowed' = allowed
  <2>1. allowed \in [Key -> SUBSET (Value \cup {Absent})] /\ arg.key \in Key /\ arg.value \in Value
    BY <1>0 DEF BTreeTypeOK
  <2>2. logged[0] = NoNode => allowed' = allowed
    BY <1>0 DEF LogFollowsMemory
  <2> QED
    BY <2>1, <2>2
<1>3. BTreeTypeOK'
  <2>1. crashes' \in 0 .. MaxCrashes /\ torn_split' \in BOOLEAN
    BY <1>0, BTreeBoundsAssumption DEF BTreeTypeOK
  <2> QED
    BY <1>0, <1>1, <1>2, <2>1 DEF BTreeTypeOK, call
<1>4. LogFollowsMemory'
  BY <1>0, <1>1, <1>2 DEF LogFollowsMemory
<1>5. FreshPages'
  BY <1>0, <1>1 DEF FreshPages
<1>6. PagesAreSound(mem', logged')
  BY <1>0, <1>1 DEF PagesAreSound
<1>7. ~torn_split' => ~torn_split /\ WholeLog
  <2> SUFFICES ASSUME ~torn_split' PROVE ~torn_split /\ WholeLog
    OBVIOUS
  <2>1. ~torn_split /\ pc \notin {"parent", "log_meta"}
        /\ ~(pc = "log_left" /\ mem[cur].type = "INTERNAL")
    OBVIOUS
  <2>2. pc = "log_left" => mem[cur].type = "LEAF"
    <3> SUFFICES ASSUME pc = "log_left" PROVE mem[cur].type = "LEAF"
      OBVIOUS
    <3>1. PICK home \in Homes, level \in Levels : MemoryIsTree(home, level)
      BY DEF BTreeInv, Homes, Levels
    <3>2. home[cur] # {} /\ cur \in PageId /\ root_page_id \in PageId
      BY <1>0, <3>1 DEF MemoryIsTree, PathLeadsDown, Splitting, BTreeTypeOK
    <3>3. SearchTree(mem, root_page_id, home, level, LeftHalf, split.right)
      BY <3>1 DEF MemoryIsTree
    <3>4. mem[cur].type \in {"LEAF", "INTERNAL"}
      BY <3>2, <3>3, LivePages
    <3> QED
      BY <2>1, <3>4
  <2>3. pc \in {"creating", "idle", "descend", "log_left"}
    BY <1>0, <2>1 DEF BTreeTypeOK
  <2> QED
    BY <2>1, <2>2, <2>3 DEF WholeLog
<1>8. ASSUME NEW home \in Homes, NEW level, LogIsTree(home, level) PROVE LogIsTree(home, level)'
  <2>1. ~torn_split' => IsIndex(logged, home, allowed)
    BY <1>7, <1>8 DEF LogIsTree
  <2>2. \A p \in PageId : \A k \in home[p] : allowed[k] \subseteq allowed'[k]
    BY <1>2 DEF Homes
  <2>3. ~torn_split' => IsIndex(logged, home, allowed')
    BY <2>1, <2>2, SameValues
  <2> QED
    BY <1>1, <1>8, <2>3 DEF LogIsTree
<1> QED
  BY <1>1, <1>3, <1>4, <1>5, <1>6, <1>8 DEF BTreeInv, Homes

-----------------------------------------------------------------------------
(* Insert's way down. *)

LEMMA InsertCallStep ==
  ASSUME BTreeInv, NEW key \in Key, NEW value \in Value, Insert(key, value)
  PROVE  BTreeInv'
<1> USE DEF Insert
<1>1. /\ BTreeTypeOK /\ FreshPages /\ PagesAreSound(mem, logged) /\ mem = logged
      /\ logged[0] = [type |-> "METADATA", root_page_id |-> root_page_id]
  BY WholeState
<1>2. PICK home \in Homes, level \in Levels :
         /\ SearchTree(mem, root_page_id, home, level, NoPage, split.right)
         /\ ~torn_split => IsIndex(mem, home, allowed)
  BY WholeState
<1>3. /\ mem' = mem /\ logged' = logged /\ root_page_id' = root_page_id
      /\ next_page_id' = next_page_id /\ allowed' = allowed /\ torn_split' = torn_split
  BY DEF pages
<1>4. BTreeTypeOK'
  <2>1. ops' \in 0 .. MaxOps /\ arg' \in [key : Key, value : Value]
    BY <1>1, BTreeBoundsAssumption DEF BTreeTypeOK
  <2>2. cur' \in PageId /\ path' \in Seq([page : PageId, idx : Nat])
    BY <1>1 DEF BTreeTypeOK
  <2> QED
    BY <1>1, <1>3, <2>1, <2>2 DEF BTreeTypeOK
<1>5. FreshPages'
  BY <1>1, <1>3 DEF FreshPages
<1>6. PathLeadsDown(home, level)' /\ key \in home[cur']
  <2>1. home[cur'] # {} /\ home[cur'] = Key /\ root_page_id \in PageId
    <3>1. root_page_id \in PageId
      BY <1>1 DEF BTreeTypeOK
    <3>2. Cover(home, NoPage, split.right, root_page_id) = home[root_page_id]
      BY <3>1, NoSplitCover
    <3> QED
      BY <1>2, <3>1, <3>2 DEF SearchTree
  <2>2. Len(path') = 0 /\ Visited(0)' = root_page_id'
    BY <1>3 DEF Visited
  <2> QED
    BY <2>1, <2>2 DEF PathLeadsDown
<1> QED
  BY <1>1, <1>2, <1>3, <1>4, <1>5, <1>6, WholeStep

LEMMA PinFailsStep ==
  ASSUME BTreeInv, PinFails
  PROVE  BTreeInv'
<1> USE DEF PinFails, Fail
<1>1. /\ BTreeTypeOK /\ FreshPages /\ PagesAreSound(mem, logged) /\ mem = logged
      /\ logged[0] = [type |-> "METADATA", root_page_id |-> root_page_id]
  BY WholeState
<1>2. PICK home \in Homes, level \in Levels :
         /\ SearchTree(mem, root_page_id, home, level, NoPage, split.right)
         /\ ~torn_split => IsIndex(mem, home, allowed)
  BY WholeState
<1>3. /\ mem' = mem /\ logged' = logged /\ root_page_id' = root_page_id
      /\ next_page_id' = next_page_id /\ allowed' = allowed /\ torn_split' = torn_split
  BY DEF pages
<1>4. BTreeTypeOK'
  BY <1>1, <1>3 DEF BTreeTypeOK, call
<1>5. FreshPages'
  BY <1>1, <1>3 DEF FreshPages
<1> QED
  BY <1>1, <1>2, <1>3, <1>4, <1>5, WholeStep

LEMMA DescendStep ==
  ASSUME BTreeInv, Descend
  PROVE  BTreeInv'
<1> PICK node : node = mem[cur]
  OBVIOUS
<1> PICK idx : idx = ChildIdx(node, arg.key)
  OBVIOUS
<1> PICK c : c = ChildAt(node, idx)
  OBVIOUS
<1>0. /\ pc = "descend" /\ node.type = "INTERNAL" /\ pc' = pc /\ arg' = arg /\ split' = split
      /\ path' = Append(path, [page |-> cur, idx |-> idx]) /\ cur' = c
      /\ UNCHANGED <<pages, ghosts, pool_size>>
  BY DEF Descend
<1>1. /\ BTreeTypeOK /\ FreshPages /\ PagesAreSound(mem, logged) /\ mem = logged
      /\ logged[0] = [type |-> "METADATA", root_page_id |-> root_page_id]
  BY <1>0, WholeState
<1>2. PICK home \in Homes, level \in Levels :
         /\ SearchTree(mem, root_page_id, home, level, NoPage, split.right)
         /\ ~torn_split => IsIndex(mem, home, allowed)
         /\ arg.key \in home[cur] /\ PathLeadsDown(home, level)
  BY <1>0, WholeState
<1>3. /\ mem' = mem /\ logged' = logged /\ root_page_id' = root_page_id
      /\ next_page_id' = next_page_id /\ allowed' = allowed /\ torn_split' = torn_split
  BY <1>0 DEF pages, ghosts
<1>4. /\ cur \in PageId /\ root_page_id \in PageId /\ path \in Seq([page : PageId, idx : Nat])
      /\ Len(path) \in Nat /\ level[cur] \in Nat
  BY <1>1 DEF BTreeTypeOK, Levels
<1>5. NodeIsRouted(node, cur, home, level, NoPage, split.right)
  BY <1>2, <1>4, LivePages
<1>6. /\ idx \in 0 .. Len(node.cells) /\ c \in PageId /\ home[c] # {} /\ level[c] = level[cur] - 1
      /\ arg.key \in Cover(home, NoPage, split.right, c)
  <2>1. PICK key, p : key = arg.key /\ p = cur
    OBVIOUS
  <2>2. /\ p \in PageId /\ NodeIsRouted(node, p, home, level, NoPage, split.right)
        /\ node.type = "INTERNAL" /\ key \in home[p] /\ idx = ChildIdx(node, key)
    BY <1>0, <1>2, <1>4, <1>5, <2>1
  <2>3. /\ idx \in 0 .. Len(node.cells) /\ c \in PageId /\ home[c] # {} /\ level[c] = level[p] - 1
        /\ key \in Cover(home, NoPage, split.right, c)
    BY <2>2, SearchStep
  <2> QED
    BY <2>1, <2>3
<1>7. arg.key \in home[c] /\ level[c] \in Nat
  BY <1>6, NoSplitCover DEF Levels
<1>8. /\ path' \in Seq([page : PageId, idx : Nat]) /\ Len(path') = Len(path) + 1
      /\ path'[Len(path) + 1] = [page |-> cur, idx |-> idx]
      /\ \A i \in 1 .. Len(path) : path'[i] = path[i]
  <2>1. idx \in Nat
    BY <1>6, <1>5, <1>4, RoutedNode DEF Cells
  <2> QED
    BY <1>0, <1>4, <2>1
<1>9. BTreeTypeOK'
  BY <1>0, <1>1, <1>3, <1>6, <1>8 DEF BTreeTypeOK, ghosts
<1>10. FreshPages'
  BY <1>1, <1>3 DEF FreshPages
<1>11. PathLeadsDown(home, level)'
  <2>1. Visited(0)' = root_page_id'
    <3>1. CASE Len(path) = 0
      BY <1>2, <1>3, <1>4, <1>8, <3>1 DEF Visited, PathLeadsDown
    <3>2. CASE Len(path) > 0
      BY <1>2, <1>3, <1>4, <1>8, <3>2, SMTT(30) DEF Visited, PathLeadsDown
    <3> QED
      BY <1>4, <3>1, <3>2
  <2>2. ASSUME NEW i \in 1 .. Len(path)
        PROVE  /\ home[path'[i].page] # {}
               /\ level[path'[i].page] = level[cur'] + 1 + Len(path') - i
               /\ mem[path'[i].page].type = "INTERNAL"
               /\ path'[i].idx \in 0 .. Len(mem[path'[i].page].cells)
               /\ ChildAt(mem[path'[i].page], path'[i].idx) = Visited(i)'
    <3>1. path'[i] = path[i] /\ Visited(i)' = Visited(i)
      <4>1. CASE i = Len(path)
        BY <1>4, <1>8, <4>1 DEF Visited
      <4>2. CASE i < Len(path)
        <5>1. i # Len(path) /\ i # Len(path') /\ i + 1 \in 1 .. Len(path)
          BY <1>4, <1>8, <4>2, SMTT(30)
        <5>2. path'[i + 1] = path[i + 1]
          BY <1>8, <5>1
        <5> QED
          BY <1>8, <5>1, <5>2 DEF Visited
      <4> QED
        BY <1>4, <1>8, <4>1, <4>2
    <3>2. level[cur'] + 1 + Len(path') - i = level[cur] + 1 + Len(path) - i
      BY <1>0, <1>4, <1>6, <1>7, <1>8, SMTT(30)
    <3> QED
      BY <1>2, <3>1, <3>2 DEF PathLeadsDown
  <2> PICK n : n = Len(path) + 1
    OBVIOUS
  <2>3. /\ home[cur] # {} /\ level[cur] = level[c] + 1 + Len(path') - n
        /\ Visited(n)' = c
    <3>1. level[cur] = level[c] + 1
      BY <1>4, <1>6, <1>7
    <3> QED
      <4>1. level[c] + 1 + Len(path') - n = level[c] + 1
        BY <1>4, <1>7, <1>8
      <4>2. Visited(n)' = c
        BY <1>0, <1>8 DEF Visited
      <4>3. home[cur] # {}
        BY <1>2
      <4> QED
        BY <3>1, <4>1, <4>2, <4>3
  <2>4. \A i \in 1 .. Len(path') : i \in 1 .. Len(path) \/ i = n
    BY <1>4, <1>8
  <2>5. ASSUME NEW i \in 1 .. Len(path')
        PROVE  /\ home[path'[i].page] # {}
               /\ level[path'[i].page] = level[cur'] + 1 + Len(path') - i
               /\ mem[path'[i].page].type = "INTERNAL"
               /\ path'[i].idx \in 0 .. Len(mem[path'[i].page].cells)
               /\ ChildAt(mem[path'[i].page], path'[i].idx) = Visited(i)'
    <3>1. CASE i \in 1 .. Len(path)
      BY <2>2, <3>1
    <3>2. CASE i = n
      <4>1. path'[i].page = cur /\ path'[i].idx = idx /\ Visited(i)' = c
        BY <1>0, <1>8, <2>3, <3>2
      <4> QED
        <5>1. cur' = c /\ mem[cur] = node /\ node.type = "INTERNAL" /\ ChildAt(node, idx) = c
          BY <1>0
        <5> QED
          BY <1>6, <2>3, <3>2, <4>1, <5>1
    <3> QED
      BY <2>4, <3>1, <3>2
  <2> QED
    BY <1>0, <1>3, <1>6, <2>1, <2>5, ZenonT(30) DEF PathLeadsDown
<1> QED
  BY <1>0, <1>1, <1>2, <1>3, <1>7, <1>9, <1>10, <1>11, WholeStep

-----------------------------------------------------------------------------
(* Steps that log one page. *)

LEMMA OnePage ==
  ASSUME BTreeTypeOK, FreshPages, PagesAreSound(mem, logged), mem = logged,
         NEW p \in PageId, mem[p] # NoNode, NEW node \in Node, NodeIsSound(node, logged),
         Log(p, node), next_page_id' = next_page_id
  PROVE  /\ mem' = logged' /\ mem' \in [PageId -> Node \cup {NoNode}]
         /\ mem'[p] = node /\ SameBut(mem', mem, p, p)
         /\ FreshPages' /\ PagesAreSound(mem', logged')
<1>1. /\ mem' = logged' /\ mem' \in [PageId -> Node \cup {NoNode}]
      /\ mem'[p] = node /\ \A q \in PageId : q # p => mem'[q] = mem[q]
  BY DEF Log, BTreeTypeOK
<1>2. node # NoNode
  BY NoNodeAssumption
<1>3. FreshPages'
  BY <1>1 DEF FreshPages
<1>4. PagesAreSound(mem', logged')
  <2>1. \A q \in PageId : logged[q] # NoNode => logged'[q] # NoNode
    BY <1>1, <1>2
  <2>2. NodeIsSound(node, logged')
    BY <2>1 DEF NodeIsSound
  <2>3. SoundChange(mem, logged, mem', logged')
    BY <1>1, <2>1, <2>2 DEF SoundChange
  <2> QED
    BY <2>3, SoundPages
<1> QED
  BY <1>1, <1>3, <1>4 DEF SameBut

\* What may be found changes for one key only.
GrowsBut(key, may, can) == \A k \in Key : k = key \/ may[k] \subseteq can[k]

\* Leaf p of the tree has become node.
TreeWithLeaf(content, after, root, home, level, r, p, node, may, can) ==
    /\ content[p] \in LeafNode /\ Sorted(content[p].cells)
    /\ node \in LeafNode /\ Sorted(node.cells) /\ node.next_leaf = content[p].next_leaf
    /\ SearchTree(after, root, home, level, NoPage, r)
    /\ IsIndex(content, home, may) => IsIndex(after, home, can)

\* A cell is written into the leaf of its key.
LEMMA CellWritten ==
  ASSUME NEW content, NEW after, NEW root \in PageId, NEW home \in Homes, NEW level \in Levels,
         NEW r, SearchTree(content, root, home, level, NoPage, r),
         NEW p \in PageId, NEW key \in home[p], content[p].type = "LEAF", NEW value \in Value,
         NEW node, node = WithCell(content[p], key, value),
         after[p] = node, SameBut(after, content, p, p),
         NEW may, NEW can, value \in can[key], GrowsBut(key, may, can)
  PROVE  TreeWithLeaf(content, after, root, home, level, r, p, node, may, can)
<1> PICK old : old = content[p]
  OBVIOUS
<1>1. key \in Key /\ home[p] # {}
  BY DEF Homes
<1>2. old \in LeafNode /\ Sorted(old.cells)
  <2>1. NodeIsRouted(old, p, home, level, NoPage, r)
    BY <1>1 DEF SearchTree
  <2>2. old \in Node /\ Sorted(old.cells)
    BY <2>1, RoutedNode
  <2> QED
    BY <2>2, NodeOfType
<1>3. /\ node \in LeafNode /\ node.next_leaf = old.next_leaf /\ Sorted(node.cells)
      /\ Range(node.cells) = {c \in Range(old.cells) : c.key # key} \cup {[key |-> key, value |-> value]}
  BY <1>1, <1>2, WithCellFacts
<1>4. Lookup(node, key) = value
  <2>1. [key |-> key, value |-> value] \in Range(node.cells)
    BY <1>3
  <2> QED
    BY <1>1, <1>3, <2>1, LookupFacts
<1>5. /\ \A c \in Range(node.cells) : c.key = key \/ c \in Range(old.cells)
      /\ \A c \in Range(old.cells) : c.key = key \/ c \in Range(node.cells)
  BY <1>3
<1>6. /\ SearchTree(after, root, home, level, NoPage, r)
      /\ IsIndex(content, home, may) => IsIndex(after, home, can)
  <2>1. \A k \in Key : k = key \/ may[k] \subseteq can[k]
    BY DEF GrowsBut
  <2> QED
    BY <1>3, <1>4, <1>5, <2>1, LeafChanged, SMTT(30)
<1> QED
  BY <1>2, <1>3, <1>6 DEF TreeWithLeaf

\* The cell of a key, if there is one, is taken out of the leaf of the key.
LEMMA CellRemoved ==
  ASSUME NEW content, NEW after, NEW root \in PageId, NEW home \in Homes, NEW level \in Levels,
         NEW r, SearchTree(content, root, home, level, NoPage, r),
         NEW p \in PageId, NEW key \in home[p], content[p].type = "LEAF",
         NEW node, node = IF HasKey(content[p], key) THEN WithoutCell(content[p], key) ELSE content[p],
         after[p] = node, SameBut(after, content, p, p),
         NEW may, NEW can, Absent \in can[key], GrowsBut(key, may, can)
  PROVE  TreeWithLeaf(content, after, root, home, level, r, p, node, may, can)
<1> PICK old : old = content[p]
  OBVIOUS
<1>1. key \in Key /\ home[p] # {}
  BY DEF Homes
<1>2. old \in LeafNode /\ Sorted(old.cells)
  <2>1. NodeIsRouted(old, p, home, level, NoPage, r)
    BY <1>1 DEF SearchTree
  <2>2. old \in Node /\ Sorted(old.cells)
    BY <2>1, RoutedNode
  <2> QED
    BY <2>2, NodeOfType
<1>3. /\ node \in LeafNode /\ node.next_leaf = old.next_leaf /\ Sorted(node.cells)
      /\ Range(node.cells) = {c \in Range(old.cells) : c.key # key}
  <2>1. CASE HasKey(old, key)
    BY <1>1, <1>2, <2>1, WithoutCellFacts
  <2>2. CASE ~HasKey(old, key)
    <3>1. node = old /\ \A c \in Range(old.cells) : c.key # key
      BY <1>2, <2>2, LeafFields
    <3> QED
      BY <1>2, <3>1
  <2> QED
    BY <2>1, <2>2
<1>4. Lookup(node, key) = Absent
  BY <1>1, <1>3, LookupFacts
<1>5. /\ \A c \in Range(node.cells) : c.key = key \/ c \in Range(old.cells)
      /\ \A c \in Range(old.cells) : c.key = key \/ c \in Range(node.cells)
  BY <1>3
<1>6. /\ SearchTree(after, root, home, level, NoPage, r)
      /\ IsIndex(content, home, may) => IsIndex(after, home, can)
  <2>1. \A k \in Key : k = key \/ may[k] \subseteq can[k]
    BY DEF GrowsBut
  <2> QED
    BY <1>3, <1>4, <1>5, <2>1, LeafChanged, SMTT(30)
<1> QED
  BY <1>2, <1>3, <1>6 DEF TreeWithLeaf

LEMMA CellLogged ==
  ASSUME BTreeInv, pc = "descend", mem[cur].type = "LEAF", pc' = "idle",
         Log(cur, WithCell(mem[cur], arg.key, arg.value)),
         allowed' \in [Key -> SUBSET (Value \cup {Absent})], arg.value \in allowed'[arg.key],
         GrowsBut(arg.key, allowed, allowed'),
         UNCHANGED <<next_page_id, root_page_id, call, pool_size, ops, crashes, torn_split>>
  PROVE  BTreeInv'
<1>1. /\ BTreeTypeOK /\ FreshPages /\ PagesAreSound(mem, logged) /\ mem = logged
      /\ logged[0] = [type |-> "METADATA", root_page_id |-> root_page_id]
  BY WholeState
<1>2. PICK home \in Homes, level \in Levels :
         /\ SearchTree(mem, root_page_id, home, level, NoPage, split.right)
         /\ ~torn_split => IsIndex(mem, home, allowed)
         /\ arg.key \in home[cur]
  BY WholeState
<1> PICK p, node : p = cur /\ node = WithCell(mem[p], arg.key, arg.value)
  OBVIOUS
<1>3. /\ p \in PageId /\ 0 \in PageId /\ root_page_id \in PageId /\ arg.value \in Value
      /\ mem[p].type = "LEAF" /\ p # 0 /\ home[p] # {}
  BY <1>1, <1>2, BTreeBoundsAssumption DEF BTreeTypeOK, PageId
<1> PICK after : after = [mem EXCEPT ![p] = node]
  OBVIOUS
<1>4. mem' = after /\ after[p] = node /\ SameBut(after, mem, p, p)
  BY <1>1, <1>3 DEF Log, BTreeTypeOK, SameBut
<1>5. /\ mem[p] \in LeafNode /\ Sorted(mem[p].cells)
      /\ node \in LeafNode /\ Sorted(node.cells) /\ node.next_leaf = mem[p].next_leaf
      /\ SearchTree(after, root_page_id, home, level, NoPage, split.right)
      /\ IsIndex(mem, home, allowed) => IsIndex(after, home, allowed')
  <2>1. PICK content, root, key, value, may, can :
           /\ content = mem /\ root = root_page_id /\ key = arg.key /\ value = arg.value
           /\ may = allowed /\ can = allowed'
    OBVIOUS
  <2>2. /\ root \in PageId /\ key \in home[p] /\ value \in Value /\ content[p].type = "LEAF"
        /\ SearchTree(content, root, home, level, NoPage, split.right)
        /\ node = WithCell(content[p], key, value) /\ SameBut(after, content, p, p)
    BY <1>2, <1>3, <1>4, <2>1
  <2>3. value \in can[key] /\ GrowsBut(key, may, can)
    BY <2>1
  <2>4. TreeWithLeaf(content, after, root, home, level, split.right, p, node, may, can)
    BY <1>3, <1>4, <2>2, <2>3, CellWritten
  <2> QED
    BY <2>1, <2>4 DEF TreeWithLeaf
<1>6. NodeIsSound(node, logged)
  <2>1. NodeIsSound(mem[p], logged)
    BY <1>1, <1>3, <1>5, LeafFields DEF PagesAreSound
  <2> QED
    BY <1>5, <2>1, LeafIsSound
<1>7. /\ mem' = logged' /\ mem' \in [PageId -> Node \cup {NoNode}]
      /\ FreshPages' /\ PagesAreSound(mem', logged')
  <2>1. mem[p] # NoNode /\ node \in Node
    BY <1>5, LeafFields
  <2> QED
    BY <1>1, <1>3, <1>6, <2>1, OnePage
<1>8. BTreeTypeOK'
  BY <1>1, <1>7 DEF BTreeTypeOK, call
<1>9. logged'[0] = [type |-> "METADATA", root_page_id |-> root_page_id']
  BY <1>1, <1>3, <1>4, <1>7 DEF SameBut
<1>10. SearchTree(mem', root_page_id', home, level, NoPage, split.right)
  BY <1>4, <1>5
<1>11. ~torn_split' => IsIndex(mem', home, allowed')
  BY <1>2, <1>4, <1>5
<1> QED
  BY <1>7, <1>8, <1>9, <1>10, <1>11, WholeStep

LEMMA LeafInsertStep ==
  ASSUME BTreeInv, LeafInsert
  PROVE  BTreeInv'
<1>1. BTreeTypeOK
  BY DEF BTreeInv
<1>2. /\ allowed' = [allowed EXCEPT ![arg.key] = {arg.value}] /\ arg.key \in Key /\ arg.value \in Value
      /\ allowed \in [Key -> SUBSET (Value \cup {Absent})]
  BY <1>1 DEF LeafInsert, Acknowledge, BTreeTypeOK
<1>3. /\ allowed' \in [Key -> SUBSET (Value \cup {Absent})] /\ arg.value \in allowed'[arg.key]
      /\ GrowsBut(arg.key, allowed, allowed')
  BY <1>2 DEF GrowsBut
<1>4. UNCHANGED <<next_page_id, root_page_id, call, pool_size, ops, crashes, torn_split>>
  BY DEF LeafInsert, Acknowledge
<1> QED
  BY <1>3, <1>4, CellLogged DEF LeafInsert, Acknowledge

LEMMA LeafSplitThrowsStep ==
  ASSUME BTreeInv, LeafSplitThrows
  PROVE  BTreeInv'
<1>1. BTreeTypeOK
  BY DEF BTreeInv
<1>2. /\ allowed' = [allowed EXCEPT ![arg.key] = @ \cup {arg.value}]
      /\ arg.key \in Key /\ arg.value \in Value
      /\ allowed \in [Key -> SUBSET (Value \cup {Absent})]
  BY <1>1 DEF LeafSplitThrows, Fail, BTreeTypeOK
<1>3. /\ allowed' \in [Key -> SUBSET (Value \cup {Absent})] /\ arg.value \in allowed'[arg.key]
      /\ GrowsBut(arg.key, allowed, allowed')
  BY <1>2 DEF GrowsBut
<1>4. UNCHANGED <<next_page_id, root_page_id, call, pool_size, ops, crashes, torn_split>>
  BY DEF LeafSplitThrows, Fail
<1> QED
  BY <1>3, <1>4, CellLogged DEF LeafSplitThrows, Fail

LEMMA DeleteStep ==
  ASSUME BTreeInv, NEW key \in Key, Delete(key)
  PROVE  BTreeInv'
<1>0. /\ pc = "idle" /\ pc' = pc /\ ops < MaxOps /\ ops' = ops + 1
      /\ allowed' = [allowed EXCEPT ![key] = {Absent}]
      /\ UNCHANGED <<next_page_id, root_page_id, call, crashes, torn_split, pool_size>>
  BY DEF Delete
<1>1. /\ BTreeTypeOK /\ FreshPages /\ PagesAreSound(mem, logged) /\ mem = logged
      /\ logged[0] = [type |-> "METADATA", root_page_id |-> root_page_id]
  BY <1>0, WholeState
<1>2. PICK home \in Homes, level \in Levels :
         /\ SearchTree(mem, root_page_id, home, level, NoPage, split.right)
         /\ ~torn_split => IsIndex(mem, home, allowed)
  BY <1>0, WholeState
<1>3. /\ 0 \in PageId /\ root_page_id \in PageId /\ mem \in [PageId -> Node \cup {NoNode}]
      /\ allowed \in [Key -> SUBSET (Value \cup {Absent})]
  BY <1>1, BTreeBoundsAssumption DEF BTreeTypeOK, PageId
<1> PICK p : p = FindLeafPageId(key)
  OBVIOUS
<1>4. p \in PageId /\ key \in home[p] /\ mem[p] \in LeafNode /\ mem[p].type = "LEAF"
  BY <1>2, <1>3, SearchEnds
<1> PICK node : node = IF HasKey(mem[p], key) THEN WithoutCell(mem[p], key) ELSE mem[p]
  OBVIOUS
<1> PICK after : after = [mem EXCEPT ![p] = node]
  OBVIOUS
<1>5. /\ mem' = after /\ Log(p, node) /\ after[p] = node /\ SameBut(after, mem, p, p) /\ p # 0
  <2>1. after[p] = node /\ SameBut(after, mem, p, p) /\ p # 0
    BY <1>1, <1>3, <1>4 DEF SameBut
  <2>2. CASE HasKey(mem[p], key)
    BY <2>1, <2>2 DEF Delete, Log
  <2>3. CASE ~HasKey(mem[p], key)
    <3>1. mem' = mem /\ logged' = logged /\ node = mem[p]
      BY <2>3 DEF Delete
    <3>2. [mem EXCEPT ![p] = mem[p]] = mem
      BY <1>3, <1>4
    <3> QED
      BY <1>1, <2>1, <3>1, <3>2 DEF Log
  <2> QED
    BY <2>1, <2>2, <2>3
<1>6. /\ allowed' \in [Key -> SUBSET (Value \cup {Absent})] /\ Absent \in allowed'[key]
      /\ GrowsBut(key, allowed, allowed')
  BY <1>0, <1>3 DEF GrowsBut
<1>7. TreeWithLeaf(mem, after, root_page_id, home, level, split.right, p, node, allowed, allowed')
  BY <1>2, <1>3, <1>4, <1>5, <1>6, CellRemoved
<1>8. /\ node \in LeafNode /\ Sorted(node.cells) /\ node.next_leaf = mem[p].next_leaf
      /\ node \in Node /\ mem[p] # NoNode
  BY <1>4, <1>7, LeafFields DEF TreeWithLeaf
<1>9. NodeIsSound(node, logged)
  <2>1. NodeIsSound(mem[p], logged)
    BY <1>1, <1>4, <1>8 DEF PagesAreSound
  <2> QED
    BY <1>4, <1>8, <2>1, LeafIsSound
<1>10. /\ mem' = logged' /\ mem' \in [PageId -> Node \cup {NoNode}]
       /\ FreshPages' /\ PagesAreSound(mem', logged')
  BY <1>0, <1>1, <1>4, <1>5, <1>8, <1>9, OnePage
<1>11. BTreeTypeOK'
  <2>1. ops' \in 0 .. MaxOps
    BY <1>0, <1>1, BTreeBoundsAssumption DEF BTreeTypeOK
  <2> QED
    BY <1>0, <1>1, <1>6, <1>10, <2>1 DEF BTreeTypeOK, call
<1>12. logged'[0] = [type |-> "METADATA", root_page_id |-> root_page_id']
  BY <1>0, <1>1, <1>3, <1>5, <1>10 DEF SameBut
<1>13. SearchTree(mem', root_page_id', home, level, NoPage, split.right)
  BY <1>0, <1>5, <1>7 DEF TreeWithLeaf
<1>14. ~torn_split' => IsIndex(mem', home, allowed')
  BY <1>0, <1>2, <1>5, <1>7 DEF TreeWithLeaf
<1> QED
  BY <1>0, <1>10, <1>11, <1>12, <1>13, <1>14, WholeStep

-----------------------------------------------------------------------------
(* Splits. *)

\* The log's tree does not see the right half of a split: its page was empty.
LEMMA LogTreeKept ==
  ASSUME BTreeTypeOK, NEW q \in PageId, logged[q] = NoNode, q # 0,
         \A x \in PageId : x # q => logged'[x] = logged[x],
         allowed' = allowed, torn_split' = torn_split, WholeLog' => WholeLog,
         logged[0] \in MetaNode,
         NEW home \in Homes, NEW level \in Levels, LogIsTree(home, level)
  PROVE  LogIsTree(home, level)'
<1>1. 0 \in PageId
  BY BTreeBoundsAssumption DEF PageId
<1>2. logged'[0] = logged[0] /\ logged[0].root_page_id \in PageId
  BY <1>1 DEF MetaNode
<1>3. PICK root : root = logged[0].root_page_id
  OBVIOUS
<1>4. SearchTree(logged, root, home, level, NoPage, NoPage) /\ root \in PageId
  BY <1>2, <1>3 DEF LogIsTree
<1>5. home[q] = {}
  <2>1. home[q] # {} => logged[q] # NoNode
    BY <1>4, LivePages
  <2> QED
    BY <2>1
<1>6. \A x \in PageId : home[x] # {} => logged'[x] = logged[x]
  BY <1>5
<1>7. SearchTree(logged', root, home, level, NoPage, NoPage)
  BY <1>4, <1>6, SameTree
<1>8. ~torn_split' /\ WholeLog' => IsIndex(logged', home, allowed')
  <2>1. ~torn_split' /\ WholeLog' => IsIndex(logged, home, allowed)
    BY DEF LogIsTree
  <2>2. \A x \in PageId : \A k \in home[x] : allowed[k] \subseteq allowed'[k]
    OBVIOUS
  <2> QED
    BY <1>6, <2>1, <2>2, SameValues
<1> QED
  BY <1>2, <1>3, <1>7, <1>8 DEF LogIsTree

LEMMA SplitStep ==
  ASSUME BTreeInv, pc \in {"descend", "parent"},
         NEW p \in PageId, NEW left \in Node, NEW right \in Node, NEW m \in Key,
         mem[p] # NoNode, mem[p].type # "METADATA",
         SplitTo(p, left, right, m), UNCHANGED <<root_page_id, arg, ghosts, pool_size>>,
         path' \in Seq([page : PageId, idx : Nat]),
         NodeIsSound(left, logged'), NodeIsSound(right, logged'),
         pc = "parent" => left.type # "LEAF",
         NEW h \in Homes, NEW l \in Levels, SearchTree(mem', root_page_id, h, l, p, next_page_id),
         Parted(h, l, p, next_page_id, m), PathLeadsDown(h, l)',
         ~torn_split => IsIndex(mem', h, MayHold')
  PROVE  BTreeInv'
<1> PICK q : q = next_page_id
  OBVIOUS
<1>0. /\ BTreeTypeOK /\ LogFollowsMemory /\ FreshPages /\ PagesAreSound(mem, logged)
      /\ allowed' = allowed /\ torn_split' = torn_split /\ root_page_id' = root_page_id
  BY DEF BTreeInv, ghosts
<1>1. /\ q < MaxPages /\ mem' = [mem EXCEPT ![p] = left, ![q] = right]
      /\ logged' = [logged EXCEPT ![q] = right] /\ split' = [key |-> m, right |-> q]
      /\ next_page_id' = q + 1 /\ cur' = p /\ pc' = "log_left"
  BY DEF SplitTo
<1>2. /\ mem = logged /\ mem[0] = [type |-> "METADATA", root_page_id |-> root_page_id]
      /\ logged[0] # NoNode /\ logged[0] \in MetaNode
      /\ mem \in [PageId -> Node \cup {NoNode}] /\ root_page_id \in PageId
  <2>1. /\ mem = logged /\ mem[0] = [type |-> "METADATA", root_page_id |-> root_page_id]
        /\ mem \in [PageId -> Node \cup {NoNode}] /\ root_page_id \in PageId
    BY <1>0 DEF LogFollowsMemory, BTreeTypeOK
  <2> QED
    BY <2>1, MetaOf
<1>3. q \in PageId /\ 0 \in PageId /\ p < q /\ p # 0 /\ q # 0 /\ q # p /\ logged[q] = NoNode
  <2>1. q \in PageId /\ 0 \in PageId
    BY <1>0, <1>1, BTreeBoundsAssumption DEF BTreeTypeOK, PageId
  <2>2. logged[q] = NoNode /\ p < q
    BY <1>0, <2>1 DEF FreshPages, PageId
  <2> QED
    BY <1>2, <2>1, <2>2 DEF PageId
<1>4. /\ mem' \in [PageId -> Node \cup {NoNode}] /\ logged' \in [PageId -> Node \cup {NoNode}]
      /\ mem'[p] = left /\ mem'[q] = right /\ logged'[q] = right
      /\ \A x \in PageId : x # q => logged'[x] = logged[x]
      /\ \A x \in PageId : x # p /\ x # q => mem'[x] = mem[x]
  BY <1>1, <1>2, <1>3
<1>5. left # NoNode /\ right # NoNode
  BY NoNodeAssumption
<1>6. BTreeTypeOK'
  <2>1. split' \in [key : Key, right : PageId] /\ cur' \in PageId /\ next_page_id' \in 0 .. MaxPages
    BY <1>0, <1>1, <1>3, BTreeBoundsAssumption DEF BTreeTypeOK
  <2> QED
    BY <1>0, <1>1, <1>4, <2>1 DEF BTreeTypeOK, ghosts
<1>7. FreshPages'
  <2>1. \A x \in PageId : x >= q + 1 => x >= q /\ x # p /\ x # q
    BY <1>3 DEF PageId
  <2> QED
    BY <1>0, <1>1, <1>4, <2>1 DEF FreshPages
<1>8. PagesAreSound(mem', logged')
  <2>1. \A x \in PageId : logged[x] # NoNode => logged'[x] # NoNode
    BY <1>4, <1>5
  <2>2. SoundChange(mem, logged, mem', logged')
    <3>1. \A x \in PageId : \/ mem'[x] = mem[x] \/ mem'[x] = logged[x] \/ NodeIsSound(mem'[x], logged')
      BY <1>4
    <3>2. \A x \in PageId : \/ logged'[x] = mem[x] \/ logged'[x] = logged[x]
                            \/ NodeIsSound(logged'[x], logged')
      BY <1>4
    <3> QED
      BY <2>1, <3>1, <3>2 DEF SoundChange
  <2> QED
    BY <1>0, <2>2, SoundPages
<1>9. LogFollowsMemory'
  <2>1. mem'[0] = mem[0] /\ logged'[0] = mem[0]
    BY <1>2, <1>3, <1>4
  <2>2. mem' = [logged' EXCEPT ![cur'] = mem'[cur']]
    <3>1. mem' = [logged' EXCEPT ![p] = left]
      BY <1>1, <1>2, <1>3
    <3> QED
      BY <1>1, <1>4, <3>1
  <2> QED
    BY <1>0, <1>1, <1>2, <2>1, <2>2 DEF LogFollowsMemory
<1>10. MemoryIsTree(h, l)'
  <2>1. LeftHalf' = p /\ Splitting' /\ split'.right = q /\ split'.key = m
    BY <1>1 DEF LeftHalf, Splitting
  <2> QED
    BY <1>0, <1>1, <2>1 DEF MemoryIsTree
<1>11. PICK home \in Homes, level \in Levels : LogIsTree(home, level)
  BY <1>2 DEF BTreeInv, Homes, Levels
<1>12. LogIsTree(home, level)'
  <2>1. WholeLog' => WholeLog
    BY <1>1, <1>4 DEF WholeLog
  <2> QED
    BY <1>0, <1>2, <1>3, <1>4, <1>11, <2>1, LogTreeKept
<1> QED
  BY <1>6, <1>7, <1>8, <1>9, <1>10, <1>12 DEF BTreeInv, Homes, Levels

LEMMA PathPages ==
  ASSUME BTreeTypeOK
  PROVE  Len(path) \in Nat /\ \A i \in 1 .. Len(path) : path[i].page \in PageId /\ path[i].idx \in Nat
<1>1. PICK S : S = [page : PageId, idx : Nat]
  OBVIOUS
<1>2. path \in Seq(S)
  BY <1>1 DEF BTreeTypeOK
<1>3. Len(path) \in Nat /\ \A i \in 1 .. Len(path) : path[i] \in S
  BY <1>2
<1>4. \A e \in S : e.page \in PageId /\ e.idx \in Nat
  BY <1>1
<1> QED
  BY <1>3, <1>4

LEMMA LeafSplitStep ==
  ASSUME BTreeInv, LeafSplit
  PROVE  BTreeInv'
<1> PICK p, q : p = cur /\ q = next_page_id
  OBVIOUS
<1> PICK node : node = WithCell(mem[p], arg.key, arg.value)
  OBVIOUS
<1> PICK left, right : left = SplitLeafLeft(node, q) /\ right = SplitLeafRight(node)
  OBVIOUS
<1> PICK m : m = SplitLeafRight(node).cells[1].key
  OBVIOUS
<1>0. /\ pc = "descend" /\ mem[p].type = "LEAF" /\ Len(node.cells) > LEAF_MAX_KEYS
      /\ SplitTo(p, left, right, m) /\ UNCHANGED <<root_page_id, arg, path, ghosts, pool_size>>
  BY DEF LeafSplit
<1>1. /\ BTreeTypeOK /\ FreshPages /\ PagesAreSound(mem, logged) /\ mem = logged
      /\ logged[0] = [type |-> "METADATA", root_page_id |-> root_page_id]
  BY <1>0, WholeState
<1>2. PICK home \in Homes, level \in Levels :
         /\ SearchTree(mem, root_page_id, home, level, NoPage, split.right)
         /\ ~torn_split => IsIndex(mem, home, allowed)
         /\ arg.key \in home[p] /\ PathLeadsDown(home, level)
  BY <1>0, WholeState
<1>3. /\ p \in PageId /\ root_page_id \in PageId /\ arg.key \in Key /\ arg.value \in Value
      /\ mem \in [PageId -> Node \cup {NoNode}] /\ home[p] # {}
  BY <1>1, <1>2 DEF BTreeTypeOK
<1>4. mem[p] \in Node /\ mem[p] # NoNode /\ mem[p] \in LeafNode
  <2>1. mem[p] \in Node /\ mem[p] # NoNode
    BY <1>2, <1>3, LivePages
  <2> QED
    BY <1>0, <2>1, NodeOfType
<1>5. q \in PageId /\ p < q /\ mem[q] = NoNode /\ home[q] = {} /\ q # p
  <2>1. q \in PageId
    BY <1>0, <1>1, BTreeBoundsAssumption DEF BTreeTypeOK, PageId, SplitTo
  <2>2. mem[q] = NoNode /\ p < q
    BY <1>1, <1>3, <1>4, <2>1 DEF FreshPages, PageId
  <2>3. home[q] # {} => mem[q] # NoNode
    BY <1>2, <1>3, <2>1, LivePages
  <2> QED
    BY <2>1, <2>2, <2>3, <1>3 DEF PageId
<1>6. /\ mem' = [mem EXCEPT ![p] = left, ![q] = right] /\ logged' = [logged EXCEPT ![q] = right]
      /\ pc' = "log_left" /\ arg' = arg /\ allowed' = allowed /\ cur' = p
      /\ root_page_id' = root_page_id /\ path' = path
  BY <1>0 DEF SplitTo, ghosts
<1> PICK may : may = MayHold'
  OBVIOUS
<1>7. arg.value \in may[arg.key] /\ GrowsBut(arg.key, allowed, may)
  BY <1>3, <1>6 DEF MayHold, GrowsBut
<1> PICK mid : mid = [mem EXCEPT ![p] = node]
  OBVIOUS
<1>8. mid[p] = node /\ SameBut(mid, mem, p, p)
  BY <1>3 DEF SameBut
<1>9. TreeWithLeaf(mem, mid, root_page_id, home, level, split.right, p, node, allowed, may)
  <2>1. PICK content, root, key, value, old :
           /\ content = mem /\ root = root_page_id /\ key = arg.key /\ value = arg.value
           /\ old = allowed
    OBVIOUS
  <2>2. /\ root \in PageId /\ key \in home[p] /\ value \in Value /\ content[p].type = "LEAF"
        /\ SearchTree(content, root, home, level, NoPage, split.right)
        /\ node = WithCell(content[p], key, value) /\ SameBut(mid, content, p, p)
        /\ value \in may[key] /\ GrowsBut(key, old, may)
    BY <1>0, <1>2, <1>3, <1>7, <1>8, <2>1
  <2>3. TreeWithLeaf(content, mid, root, home, level, split.right, p, node, old, may)
    BY <1>3, <1>8, <2>2, CellWritten
  <2> QED
    BY <2>1, <2>3
<1>10. /\ node \in LeafNode /\ Sorted(node.cells) /\ node.next_leaf = mem[p].next_leaf
       /\ SearchTree(mid, root_page_id, home, level, NoPage, split.right)
       /\ IsIndex(mem, home, allowed) => IsIndex(mid, home, may)
  BY <1>9 DEF TreeWithLeaf
<1>11. Len(node.cells) >= 2
  BY <1>0, <1>10, FanoutAssumption, LeafFields DEF Cells
<1>12. /\ left \in LeafNode /\ right \in LeafNode /\ Sorted(left.cells) /\ Sorted(right.cells)
       /\ left.next_leaf = q /\ right.next_leaf = mem[p].next_leaf
  BY <1>5, <1>10, <1>11, SplitLeafFacts
<1>13. left \in Node /\ right \in Node /\ left # NoNode /\ right # NoNode
  BY <1>12, LeafFields
<1>14. /\ mem'[p] = left /\ mem'[q] = right /\ logged'[q] = right
       /\ \A x \in PageId : x # q => logged'[x] = logged[x]
       /\ \A x \in PageId : x # p /\ x # q => mem'[x] = mem[x]
       /\ SameBut(mem', mid, p, q)
  BY <1>1, <1>3, <1>5, <1>6 DEF SameBut
<1>15. PICK h, l : Halves(mid, mem', root_page_id, home, level, h, l, p, q, m)
  <2>1. PICK root, after, r : root = root_page_id /\ after = mem' /\ r = split.right
    OBVIOUS
  <2>2. /\ root \in PageId /\ SearchTree(mid, root, home, level, NoPage, r)
        /\ after[p] = SplitLeafLeft(node, q) /\ after[q] = SplitLeafRight(node)
        /\ SameBut(after, mid, p, q)
    BY <1>3, <1>10, <1>14, <2>1
  <2>3. \E h, l : Halves(mid, after, root, home, level, h, l, p, q, m)
    BY <1>3, <1>5, <1>8, <1>10, <1>11, <2>2, LeafHalves
  <2> QED
    BY <2>1, <2>3
<1>16. /\ h \in Homes /\ l \in Levels /\ SearchTree(mem', root_page_id, h, l, p, q)
       /\ \A x \in PageId : x # p /\ x # q => h[x] = home[x] /\ l[x] = level[x]
       /\ l[p] = level[p] /\ Parted(h, l, p, q, m)
       /\ IsIndex(mid, home, may) => IsIndex(mem', h, may)
  BY <1>15 DEF Halves
<1>17. m \in Key /\ h[p] # {}
  BY <1>5, <1>16 DEF Parted, Homes
<1>18. NodeIsSound(left, logged') /\ NodeIsSound(right, logged')
  <2>1. NodeIsSound(mem[p], logged)
    BY <1>1, <1>3, <1>4 DEF PagesAreSound
  <2>2. mem[p].next_leaf # NoPage => mem[p].next_leaf \in PageId /\ logged[mem[p].next_leaf] # NoNode
    BY <1>4, <2>1, LeafFields, LeafIsSound
  <2>3. right.next_leaf # NoPage => logged'[right.next_leaf] # NoNode
    BY <1>12, <1>13, <1>14, <2>2
  <2>4. logged'[left.next_leaf] # NoNode
    BY <1>12, <1>13, <1>14
  <2> QED
    BY <1>12, <2>3, <2>4, LeafIsSound
<1>19. PathLeadsDown(h, l)'
  <2>1. Visited(0)' = root_page_id' /\ \A i : Visited(i)' = Visited(i)
    BY <1>2, <1>6 DEF Visited, PathLeadsDown
  <2>2. ASSUME NEW i \in 1 .. Len(path)
        PROVE  LET P == path[i].page
               IN  /\ h[P] # {}
                   /\ l[P] = l[cur'] + 1 + Len(path') - i
                   /\ mem'[P].type = "INTERNAL"
                   /\ path[i].idx \in 0 .. Len(mem'[P].cells)
                   /\ ChildAt(mem'[P], path[i].idx) = Visited(i)
    <3> PICK P : P = path[i].page
      OBVIOUS
    <3>1. /\ home[P] # {} /\ level[P] = level[p] + 1 + Len(path) - i /\ mem[P].type = "INTERNAL"
          /\ path[i].idx \in 0 .. Len(mem[P].cells) /\ ChildAt(mem[P], path[i].idx) = Visited(i)
      BY <1>2 DEF PathLeadsDown
    <3>2. P \in PageId /\ P # p /\ P # q
      <4>2. P \in PageId
        BY <1>1, PathPages
      <4>3. P # q
        BY <1>5, <3>1
      <4>4. mem[p].type = "LEAF"
        BY <1>0
      <4>5. P # p
        BY <3>1, <4>4
      <4> QED
        BY <4>2, <4>3, <4>5
    <3>3. mem'[P] = mem[P] /\ h[P] = home[P] /\ l[P] = level[P]
      BY <1>14, <1>16, <3>2
    <3> QED
      BY <1>6, <1>16, <3>1, <3>3
  <2> QED
    BY <1>6, <1>17, <2>1, <2>2 DEF PathLeadsDown
<1>20. ~torn_split => IsIndex(mem', h, MayHold')
  BY <1>2, <1>10, <1>16
<1>21. path' \in Seq([page : PageId, idx : Nat])
  BY <1>1, <1>6 DEF BTreeTypeOK
<1> QED
  BY <1>0, <1>3, <1>4, <1>13, <1>16, <1>17, <1>18, <1>19, <1>20, <1>21, SplitStep

LEMMA LogLeftStep ==
  ASSUME BTreeInv, LogLeft
  PROVE  BTreeInv'
<1> USE DEF LogLeft
<1>0. BTreeTypeOK /\ LogFollowsMemory /\ FreshPages /\ PagesAreSound(mem, logged)
  BY DEF BTreeInv
<1>1. /\ mem = [logged EXCEPT ![cur] = mem[cur]] /\ 0 \in PageId /\ root_page_id \in PageId
      /\ mem[0] = [type |-> "METADATA", root_page_id |-> root_page_id]
      /\ cur \in PageId /\ split.right \in PageId
  BY <1>0, BTreeBoundsAssumption DEF LogFollowsMemory, BTreeTypeOK, PageId
<1>2. /\ mem' = mem /\ logged' = mem /\ pc' = "parent" /\ root_page_id' = root_page_id
      /\ arg' = arg /\ cur' = cur /\ path' = path /\ split' = split
      /\ allowed' = allowed /\ torn_split' = torn_split /\ next_page_id' = next_page_id
  BY <1>1 DEF call, ghosts
<1>3. mem[0] \in MetaNode /\ mem[0] # NoNode /\ mem[0].root_page_id = root_page_id
  BY <1>1, MetaOf
<1>4. PICK home \in Homes, level \in Levels : MemoryIsTree(home, level)
  BY DEF BTreeInv, Homes, Levels
<1>5. /\ SearchTree(mem, root_page_id, home, level, cur, split.right)
      /\ Parted(home, level, cur, split.right, split.key) /\ PathLeadsDown(home, level)
      /\ ~torn_split => IsIndex(mem, home, MayHold)
  BY <1>4 DEF MemoryIsTree, Splitting, LeftHalf
<1>6. BTreeTypeOK'
  BY <1>0, <1>2 DEF BTreeTypeOK, call, ghosts
<1>7. LogFollowsMemory'
  BY <1>1, <1>2, <1>3 DEF LogFollowsMemory
<1>8. FreshPages'
  BY <1>0, <1>2 DEF FreshPages
<1>9. PagesAreSound(mem', logged')
  <2>1. \A x \in PageId : logged[x] # NoNode => logged'[x] # NoNode
    <3>1. mem[cur] # NoNode
      BY <1>1, <1>5, LivePages DEF PathLeadsDown
    <3>2. \A x \in PageId : x # cur => mem[x] = logged[x]
      BY <1>0, <1>1 DEF BTreeTypeOK
    <3> QED
      BY <1>2, <3>1, <3>2
  <2>2. SoundChange(mem, logged, mem', logged')
    BY <1>2, <2>1 DEF SoundChange
  <2> QED
    BY <1>0, <2>2, SoundPages
<1>10. MemoryIsTree(home, level)'
  <2>1. LeftHalf' = cur' /\ Splitting' /\ MayHold' = MayHold
    BY <1>2 DEF LeftHalf, Splitting, MayHold
  <2>2. PathLeadsDown(home, level)'
    BY <1>2, <1>5 DEF PathLeadsDown, Visited
  <2> QED
    BY <1>2, <1>5, <2>1, <2>2 DEF MemoryIsTree
<1>11. PICK h \in Homes : SearchTree(mem, root_page_id, h, level, NoPage, NoPage)
  BY <1>1, <1>5, HalfLost
<1>12. LogIsTree(h, level)'
  BY <1>2, <1>3, <1>11 DEF LogIsTree, WholeLog
<1> QED
  BY <1>6, <1>7, <1>8, <1>9, <1>10, <1>12 DEF BTreeInv, Homes, Levels

-----------------------------------------------------------------------------
(* A split on its way up. *)

LEMMA ParentState ==
  ASSUME BTreeInv, pc = "parent"
  PROVE  /\ BTreeTypeOK /\ FreshPages /\ PagesAreSound(mem, logged)
         /\ mem = logged
         /\ logged[0] = [type |-> "METADATA", root_page_id |-> root_page_id]
         /\ \E home \in Homes, level \in Levels :
               /\ SearchTree(mem, root_page_id, home, level, cur, split.right)
               /\ Parted(home, level, cur, split.right, split.key)
               /\ PathLeadsDown(home, level)
               /\ ~torn_split => IsIndex(mem, home, MayHold)
<1>1. BTreeTypeOK /\ LogFollowsMemory /\ FreshPages /\ PagesAreSound(mem, logged)
  BY DEF BTreeInv
<1>2. mem = logged /\ logged[0] = [type |-> "METADATA", root_page_id |-> root_page_id]
  BY <1>1 DEF LogFollowsMemory
<1>3. PICK home \in Homes, level \in Levels : MemoryIsTree(home, level)
  BY DEF BTreeInv, Homes, Levels
<1>4. LeftHalf = cur /\ Splitting
  BY DEF LeftHalf, Splitting
<1>5. /\ SearchTree(mem, root_page_id, home, level, cur, split.right)
      /\ Parted(home, level, cur, split.right, split.key)
      /\ PathLeadsDown(home, level)
      /\ ~torn_split => IsIndex(mem, home, MayHold)
  BY <1>3, <1>4 DEF MemoryIsTree
<1> QED
  BY <1>1, <1>2, <1>5

\* The tree in which parent P has become node and both halves of its child
\* are in place.
ParentTree(content, after, root, home, level, P, idx, m, right, node) ==
    /\ content[P] \in InternalNode /\ home[P] # {}
    /\ SeparatorAdded(content[P], idx, m, right, node) /\ node \in InternalNode
    /\ NodeIsSound(node, content)
    /\ SearchTree(after, root, home, level, NoPage, NoPage)
    /\ \A may : IsIndex(content, home, may) => IsIndex(after, home, may)

LEMMA ParentTaken ==
  ASSUME NEW content, PagesAreSound(content, content), NEW after, NEW root \in PageId,
         NEW home \in Homes, NEW level \in Levels,
         NEW L \in PageId, NEW R \in PageId, SearchTree(content, root, home, level, L, R),
         NEW m, Parted(home, level, L, R, m),
         NEW P \in PageId, home[P] # {}, content[P].type = "INTERNAL", level[P] = level[L] + 1,
         NEW idx \in 0 .. Len(content[P].cells), ChildAt(content[P], idx) = L,
         NEW node, node = WithSeparator(content[P], idx, m, R), after[P] = node,
         SameBut(after, content, P, P)
  PROVE  ParentTree(content, after, root, home, level, P, idx, m, R, node)
<1>1. /\ SearchTree(after, root, home, level, NoPage, NoPage)
      /\ content[P] \in InternalNode /\ SeparatorAdded(content[P], idx, m, R, node)
      /\ \A may : IsIndex(content, home, may) => IsIndex(after, home, may)
  <2>1. after[P] = WithSeparator(content[P], idx, m, R)
    OBVIOUS
  <2>2. SearchTree(after, root, home, level, NoPage, NoPage)
    BY <2>1, SeparatorTree
  <2>3. content[P] \in InternalNode /\ SeparatorAdded(content[P], idx, m, R, after[P])
    BY <2>1, <2>2, SeparatorTree, SMTT(30)
  <2>4. ASSUME NEW may, IsIndex(content, home, may) PROVE IsIndex(after, home, may)
    BY <2>1, <2>4, SeparatorTree
  <2> QED
    BY <2>2, <2>3, <2>4
<1> PICK old : old = content[P]
  OBVIOUS
<1>2. /\ old \in InternalNode /\ node \in InternalNode /\ Sorted(node.cells)
      /\ Len(node.cells) = Len(old.cells) + 1 /\ Len(old.cells) \in Nat
      /\ \A i \in 0 .. Len(old.cells) + 1 :
            ChildAt(node, i) = IF i <= idx THEN ChildAt(old, i)
                               ELSE IF i = idx + 1 THEN R ELSE ChildAt(old, i - 1)
  BY <1>1, InternalFields DEF SeparatorAdded
<1>3. content[R] # NoNode
  <2>1. home[R] # {}
    BY DEF Parted
  <2> QED
    BY <2>1, LivePages
<1>4. \A i \in 0 .. Len(old.cells) : content[ChildAt(old, i)] # NoNode
  <2>1. old # NoNode
    BY <1>2, InternalFields
  <2>2. NodeIsSound(old, content)
    BY <2>1 DEF PagesAreSound
  <2> QED
    BY <1>2, <2>2, InternalIsSound
<1>5. ASSUME NEW i \in 0 .. Len(node.cells)
      PROVE  content[ChildAt(node, i)] # NoNode
  <2>1. i \in 0 .. Len(old.cells) + 1 /\ idx \in 0 .. Len(old.cells)
    BY <1>2
  <2>2. CASE i <= idx
    <3>1. ChildAt(node, i) = ChildAt(old, i) /\ i \in 0 .. Len(old.cells)
      BY <1>2, <2>1, <2>2
    <3> QED
      BY <1>4, <3>1
  <2>3. CASE i = idx + 1
    <3>1. ChildAt(node, i) = R
      BY <1>2, <2>1, <2>3
    <3> QED
      BY <1>3, <3>1
  <2>4. CASE i > idx + 1
    <3>1. PICK j \in 0 .. Len(old.cells) : j = i - 1
      BY <1>2, <2>1, <2>4
    <3>2. ChildAt(node, i) = ChildAt(old, j)
      BY <1>2, <2>1, <2>4, <3>1
    <3> QED
      BY <1>4, <3>2
  <2> QED
    BY <1>2, <2>1, <2>2, <2>3, <2>4
<1>6. NodeIsSound(node, content)
  BY <1>2, <1>5, InternalIsSound
<1> QED
  BY <1>1, <1>2, <1>6 DEF ParentTree

\* The last activation of path is the one of cur's parent.
LEMMA PathEnd ==
  ASSUME BTreeTypeOK, path # << >>, NEW home, NEW level \in Levels, PathLeadsDown(home, level),
         NEW P, P = Last(path).page, NEW idx, idx = Last(path).idx
  PROVE  /\ Len(path) \in Nat /\ Len(path) >= 1 /\ path[Len(path)].page = P
         /\ P \in PageId /\ home[P] # {} /\ mem[P].type = "INTERNAL" /\ level[P] = level[cur] + 1
         /\ idx \in 0 .. Len(mem[P].cells) /\ ChildAt(mem[P], idx) = cur
<1>1. PICK S : S = [page : PageId, idx : Nat]
  OBVIOUS
<1>2. path \in Seq(S)
  BY <1>1 DEF BTreeTypeOK
<1>3. PICK n \in Nat : n = Len(path)
  BY <1>2
<1>4. n >= 1 /\ Last(path) = path[n]
  BY <1>2, <1>3 DEF Last
<1>5. P \in PageId /\ cur \in PageId
  BY <1>3, <1>4, PathPages DEF BTreeTypeOK
<1>6. n \in 1 .. Len(path) /\ Visited(n) = cur
  BY <1>3, <1>4 DEF Visited
<1>7. /\ home[P] # {} /\ mem[P].type = "INTERNAL" /\ level[P] = level[cur] + 1 + Len(path) - n
      /\ idx \in 0 .. Len(mem[P].cells) /\ ChildAt(mem[P], idx) = Visited(n)
  BY <1>4, <1>6 DEF PathLeadsDown
<1>8. level[cur] + 1 + Len(path) - n = level[cur] + 1
  BY <1>3, <1>5 DEF Levels
<1> QED
  BY <1>3, <1>4, <1>5, <1>6, <1>7, <1>8

\* What an Insert that returns after a split has promised.
LEMMA Acknowledged ==
  ASSUME BTreeTypeOK, pc \in {"log_left", "parent", "log_meta"}, Acknowledge
  PROVE  /\ allowed' \in [Key -> SUBSET (Value \cup {Absent})]
         /\ \A k \in Key : MayHold[k] \subseteq allowed'[k]
<1>1. /\ allowed' = [allowed EXCEPT ![arg.key] = {arg.value}] /\ arg.key \in Key /\ arg.value \in Value
      /\ allowed \in [Key -> SUBSET (Value \cup {Absent})]
  BY DEF Acknowledge, BTreeTypeOK
<1> QED
  BY <1>1 DEF MayHold

ParentReady(P, idx, node, after, home, level) ==
    /\ P \in PageId /\ P # 0 /\ after[P] = node /\ SameBut(after, mem, P, P)
    /\ ParentTree(mem, after, root_page_id, home, level, P, idx, split.key, split.right, node)
    /\ PathLeadsDown(home, level) /\ level[P] = level[cur] + 1
    /\ ~torn_split => IsIndex(mem, home, MayHold)

\* The parent with its new separator.
LEMMA AtParent ==
  ASSUME BTreeInv, pc = "parent", path # << >>,
         NEW P, P = Last(path).page, NEW idx, idx = Last(path).idx,
         NEW node, node = WithSeparator(mem[P], idx, split.key, split.right),
         NEW after, after = [mem EXCEPT ![P] = node]
  PROVE  \E home \in Homes, level \in Levels : ParentReady(P, idx, node, after, home, level)
<1>1. /\ BTreeTypeOK /\ PagesAreSound(mem, logged) /\ mem = logged
      /\ logged[0] = [type |-> "METADATA", root_page_id |-> root_page_id]
  BY ParentState
<1>2. PICK home \in Homes, level \in Levels :
         /\ SearchTree(mem, root_page_id, home, level, cur, split.right)
         /\ Parted(home, level, cur, split.right, split.key)
         /\ PathLeadsDown(home, level)
         /\ ~torn_split => IsIndex(mem, home, MayHold)
  BY ParentState
<1>3. /\ 0 \in PageId /\ root_page_id \in PageId /\ cur \in PageId /\ split.right \in PageId
      /\ mem \in [PageId -> Node \cup {NoNode}]
  BY <1>1, BTreeBoundsAssumption DEF BTreeTypeOK, PageId
<1>4. /\ P \in PageId /\ home[P] # {} /\ mem[P].type = "INTERNAL" /\ level[P] = level[cur] + 1
      /\ idx \in 0 .. Len(mem[P].cells) /\ ChildAt(mem[P], idx) = cur
  BY <1>1, <1>2, PathEnd
<1>5. after[P] = node /\ SameBut(after, mem, P, P) /\ P # 0
  BY <1>1, <1>3, <1>4 DEF SameBut
<1>6. ParentTree(mem, after, root_page_id, home, level, P, idx, split.key, split.right, node)
  <2>1. PICK content, root, L, R, m : /\ content = mem /\ root = root_page_id /\ L = cur
                                      /\ R = split.right /\ m = split.key
    OBVIOUS
  <2>2. /\ root \in PageId /\ L \in PageId /\ R \in PageId
        /\ SearchTree(content, root, home, level, L, R) /\ PagesAreSound(content, content)
        /\ Parted(home, level, L, R, m) /\ content[P].type = "INTERNAL" /\ level[P] = level[L] + 1
        /\ idx \in 0 .. Len(content[P].cells) /\ ChildAt(content[P], idx) = L
        /\ node = WithSeparator(content[P], idx, m, R) /\ SameBut(after, content, P, P)
    BY <1>1, <1>2, <1>3, <1>4, <1>5, <2>1
  <2>3. ParentTree(content, after, root, home, level, P, idx, m, R, node)
    BY <1>4, <1>5, <2>2, ParentTaken
  <2> QED
    BY <2>1, <2>3
<1> QED
  BY <1>2, <1>4, <1>5, <1>6 DEF ParentReady

LEMMA ParentInsertStep ==
  ASSUME BTreeInv, ParentInsert
  PROVE  BTreeInv'
<1> PICK P, idx : P = Last(path).page /\ idx = Last(path).idx
  OBVIOUS
<1> PICK node : node = WithSeparator(mem[P], idx, split.key, split.right)
  OBVIOUS
<1> PICK after : after = [mem EXCEPT ![P] = node]
  OBVIOUS
<1>0. /\ pc = "parent" /\ path # << >> /\ Log(P, node) /\ Acknowledge
      /\ UNCHANGED <<next_page_id, root_page_id, call, pool_size>>
  BY DEF ParentInsert
<1>1. /\ BTreeTypeOK /\ FreshPages /\ PagesAreSound(mem, logged) /\ mem = logged
      /\ logged[0] = [type |-> "METADATA", root_page_id |-> root_page_id]
  BY <1>0, ParentState
<1>2. PICK home \in Homes, level \in Levels :
         /\ P \in PageId /\ P # 0 /\ after[P] = node /\ SameBut(after, mem, P, P)
         /\ ParentTree(mem, after, root_page_id, home, level, P, idx, split.key, split.right, node)
         /\ ~torn_split => IsIndex(mem, home, MayHold)
  <2>1. \E home \in Homes, level \in Levels : ParentReady(P, idx, node, after, home, level)
    BY <1>0, AtParent
  <2> QED
    BY <2>1 DEF ParentReady
<1>4. mem' = after /\ 0 \in PageId
  BY <1>0, BTreeBoundsAssumption DEF Log, PageId
<1>7. /\ node \in InternalNode /\ mem[P] \in InternalNode /\ NodeIsSound(node, logged)
      /\ SearchTree(after, root_page_id, home, level, NoPage, NoPage)
      /\ IsIndex(mem, home, MayHold) => IsIndex(after, home, MayHold)
  BY <1>1, <1>2 DEF ParentTree
<1>8. /\ mem' = logged' /\ mem' \in [PageId -> Node \cup {NoNode}]
      /\ FreshPages' /\ PagesAreSound(mem', logged')
  <2>1. mem[P] # NoNode /\ node \in Node
    BY <1>7, InternalFields
  <2> QED
    BY <1>0, <1>1, <1>2, <1>7, <2>1, OnePage
<1>9. /\ allowed' \in [Key -> SUBSET (Value \cup {Absent})]
      /\ \A k \in Key : MayHold[k] \subseteq allowed'[k]
  BY <1>0, <1>1, Acknowledged
<1>10. BTreeTypeOK'
  BY <1>0, <1>1, <1>8, <1>9 DEF BTreeTypeOK, call, Acknowledge
<1>11. logged'[0] = [type |-> "METADATA", root_page_id |-> root_page_id']
  BY <1>0, <1>1, <1>2, <1>4, <1>8 DEF SameBut
<1>12. SearchTree(mem', root_page_id', home, level, NoPage, NoPage)
  BY <1>0, <1>4, <1>7
<1>13. ~torn_split' => IsIndex(mem', home, allowed')
  <2>1. ~torn_split' => IsIndex(after, home, MayHold)
    BY <1>0, <1>2, <1>7 DEF Acknowledge
  <2>2. \A p \in PageId : \A k \in home[p] : MayHold[k] \subseteq allowed'[k]
    BY <1>9 DEF Homes
  <2> QED
    BY <1>4, <2>1, <2>2, SameValues
<1>14. pc' = "idle"
  BY <1>0 DEF Acknowledge
<1> QED
  BY <1>8, <1>10, <1>11, <1>12, <1>13, <1>14, WholeStep

\* A node's children are in the log, so its halves' children are.
LEMMA HalvesAreSound ==
  ASSUME NEW node \in InternalNode, NEW log, NodeIsSound(node, log), NEW s, NEW m,
         NEW a, NEW b, InternalSplit(node, s, m, a, b)
  PROVE  NodeIsSound(a, log) /\ NodeIsSound(b, log)
<1>1. \A i \in 0 .. Len(node.cells) : log[ChildAt(node, i)] # NoNode
  BY InternalIsSound
<1>2. /\ a \in InternalNode /\ b \in InternalNode /\ Sorted(a.cells) /\ Sorted(b.cells)
      /\ s \in 1 .. Len(node.cells) - 2 /\ Len(node.cells) \in Nat
      /\ Len(a.cells) = s /\ Len(b.cells) = Len(node.cells) - s - 1
  BY InternalFields DEF InternalSplit
<1>3. \A i \in 0 .. Len(a.cells) : log[ChildAt(a, i)] # NoNode
  <2>1. \A i \in 0 .. s : ChildAt(a, i) = ChildAt(node, i)
    BY DEF InternalSplit
  <2> QED
    BY <1>1, <1>2, <2>1
<1>4. \A i \in 0 .. Len(b.cells) : log[ChildAt(b, i)] # NoNode
  <2> SUFFICES ASSUME NEW i \in 0 .. Len(node.cells) - s - 1 PROVE log[ChildAt(b, i)] # NoNode
    BY <1>2
  <2>1. PICK j \in 0 .. Len(node.cells) : j = s + 1 + i
    BY <1>2
  <2>2. ChildAt(b, i) = ChildAt(node, j)
    BY <2>1, SMTT(30) DEF InternalSplit
  <2> QED
    BY <1>1, <2>2
<1> QED
  BY <1>2, <1>3, <1>4, InternalIsSound

LEMMA ParentSplitStep ==
  ASSUME BTreeInv, ParentSplit
  PROVE  BTreeInv'
<1> PICK P, idx, q : P = Last(path).page /\ idx = Last(path).idx /\ q = next_page_id
  OBVIOUS
<1> PICK node : node = WithSeparator(mem[P], idx, split.key, split.right)
  OBVIOUS
<1> PICK mid : mid = [mem EXCEPT ![P] = node]
  OBVIOUS
<1> PICK left, right : left = SplitInternalLeft(node) /\ right = SplitInternalRight(node)
  OBVIOUS
<1> PICK m : m = MiddleCell(node).key
  OBVIOUS
<1>0. /\ pc = "parent" /\ path # << >> /\ Len(node.cells) > INTERNAL_MAX_KEYS
      /\ SplitTo(P, left, right, m) /\ path' = Front(path)
      /\ UNCHANGED <<root_page_id, arg, ghosts, pool_size>>
  BY DEF ParentSplit
<1>1. /\ BTreeTypeOK /\ FreshPages /\ PagesAreSound(mem, logged) /\ mem = logged
  BY <1>0, ParentState
<1>2. PICK home \in Homes, level \in Levels :
         /\ P \in PageId /\ P # 0 /\ mid[P] = node /\ SameBut(mid, mem, P, P)
         /\ ParentTree(mem, mid, root_page_id, home, level, P, idx, split.key, split.right, node)
         /\ PathLeadsDown(home, level) /\ level[P] = level[cur] + 1
         /\ ~torn_split => IsIndex(mem, home, MayHold)
  <2>1. \E home \in Homes, level \in Levels : ParentReady(P, idx, node, mid, home, level)
    BY <1>0, AtParent
  <2> QED
    BY <2>1 DEF ParentReady
<1>3. /\ node \in InternalNode /\ mem[P] \in InternalNode /\ NodeIsSound(node, logged)
      /\ SearchTree(mid, root_page_id, home, level, NoPage, NoPage) /\ home[P] # {}
      /\ IsIndex(mem, home, MayHold) => IsIndex(mid, home, MayHold)
      /\ Sorted(node.cells)
  BY <1>1, <1>2 DEF ParentTree, SeparatorAdded
<1>4. mem[P] # NoNode /\ mem[P].type = "INTERNAL" /\ root_page_id \in PageId
      /\ mem \in [PageId -> Node \cup {NoNode}]
  BY <1>1, <1>3, InternalFields DEF BTreeTypeOK
<1>5. q \in PageId /\ P < q /\ mem[q] = NoNode /\ home[q] = {} /\ q # P
  <2>1. q \in PageId
    BY <1>0, <1>1, BTreeBoundsAssumption DEF BTreeTypeOK, PageId, SplitTo
  <2>2. mem[q] = NoNode /\ P < q
    BY <1>1, <1>2, <1>4, <2>1 DEF FreshPages, PageId
  <2>3. q # P
    BY <1>4, <2>2
  <2>4. mid[q] = NoNode
    BY <1>2, <2>1, <2>2, <2>3 DEF SameBut
  <2>5. home[q] # {} => mid[q] # NoNode
    BY <1>3, <1>4, <2>1, LivePages
  <2> QED
    BY <2>1, <2>2, <2>3, <2>4, <2>5
<1>6. /\ mem' = [mem EXCEPT ![P] = left, ![q] = right] /\ logged' = [logged EXCEPT ![q] = right]
      /\ pc' = "log_left" /\ arg' = arg /\ allowed' = allowed /\ cur' = P
      /\ root_page_id' = root_page_id
  BY <1>0 DEF SplitTo, ghosts
<1>7. MayHold' = MayHold
  BY <1>0, <1>6 DEF MayHold
<1>8. Len(node.cells) >= 3
  BY <1>0, <1>3, FanoutAssumption, InternalFields
<1> PICK s : s = SplitPoint(node)
  OBVIOUS
<1>9. InternalSplit(node, s, m, left, right)
  BY <1>3, <1>8, SplitInternalFacts, SMTT(60)
<1>10. left \in InternalNode /\ right \in InternalNode /\ m \in Key
  BY <1>9, Zenon DEF InternalSplit
<1>11. /\ left \in Node /\ right \in Node /\ left # NoNode /\ right # NoNode
       /\ left.type = "INTERNAL" /\ right.type = "INTERNAL"
  BY <1>10, InternalFields
<1>12. /\ mem'[P] = left /\ mem'[q] = right /\ logged'[q] = right
       /\ \A x \in PageId : x # q => logged'[x] = logged[x]
       /\ \A x \in PageId : x # P /\ x # q => mem'[x] = mem[x]
       /\ SameBut(mem', mid, P, q)
  BY <1>1, <1>2, <1>4, <1>5, <1>6 DEF SameBut
<1>13. PICK h, l : Halves(mid, mem', root_page_id, home, level, h, l, P, q, m)
  <2>1. PICK root, after : root = root_page_id /\ after = mem'
    OBVIOUS
  <2>2. /\ root \in PageId /\ SearchTree(mid, root, home, level, NoPage, NoPage)
        /\ after[P] = SplitInternalLeft(node) /\ after[q] = SplitInternalRight(node)
        /\ SameBut(after, mid, P, q)
    BY <1>3, <1>4, <1>12, <2>1
  <2>3. \E h, l : Halves(mid, after, root, home, level, h, l, P, q, m)
    BY <1>2, <1>3, <1>5, <1>8, <2>2, InternalHalves, ZenonT(60)
  <2> QED
    BY <2>1, <2>3
<1>14. /\ h \in Homes /\ l \in Levels /\ SearchTree(mem', root_page_id, h, l, P, q)
       /\ \A x \in PageId : x # P /\ x # q => h[x] = home[x] /\ l[x] = level[x]
       /\ l[P] = level[P] /\ Parted(h, l, P, q, m) /\ h[P] # {}
  BY <1>13 DEF Halves, Parted
<1>15. IsIndex(mid, home, MayHold) => IsIndex(mem', h, MayHold)
  BY <1>13 DEF Halves
<1>16. NodeIsSound(left, logged') /\ NodeIsSound(right, logged')
  <2>1. NodeIsSound(node, logged')
    <3>1. \A x \in PageId : logged[x] # NoNode => logged'[x] # NoNode
      BY <1>11, <1>12
    <3> QED
      BY <1>3, <3>1 DEF NodeIsSound
  <2> QED
    BY <1>3, <1>9, <2>1, HalvesAreSound
<1>17. ~torn_split => IsIndex(mem', h, MayHold')
  BY <1>2, <1>3, <1>7, <1>15
<1>18. path' \in Seq([page : PageId, idx : Nat]) /\ Len(path') = Len(path) - 1
       /\ \A i \in 1 .. Len(path) - 1 : path'[i] = path[i]
  <2>1. PICK S : S = [page : PageId, idx : Nat]
    OBVIOUS
  <2>2. path \in Seq(S) /\ path # << >>
    BY <1>0, <1>1, <2>1 DEF BTreeTypeOK
  <2>3. Len(path) \in Nat /\ Len(path) >= 1 /\ path' = SubSeq(path, 1, Len(path) - 1)
    BY <1>0, <2>2 DEF Front
  <2>4. PICK n \in Nat : n = Len(path) /\ n >= 1
    BY <2>3
  <2>5. /\ SubSeq(path, 1, n - 1) \in Seq(S) /\ Len(SubSeq(path, 1, n - 1)) = n - 1 - 1 + 1
        /\ \A i \in 1 .. n - 1 - 1 + 1 : SubSeq(path, 1, n - 1)[i] = path[1 + i - 1]
    <3>1. 1 \in 1 .. Len(path) + 1 /\ n - 1 \in 1 - 1 .. Len(path)
      BY <2>4
    <3> QED
      BY <2>2, <3>1, SubSeqElements
  <2>6. Len(path') = n - 1 /\ \A i \in 1 .. n - 1 : path'[i] = path[i]
    <3>1. n - 1 - 1 + 1 = n - 1 /\ \A i \in 1 .. n - 1 : 1 + i - 1 = i
      BY <2>4
    <3>2. path' = SubSeq(path, 1, n - 1)
      BY <2>3, <2>4, SMTT(30)
    <3> QED
      BY <2>5, <3>1, <3>2
  <2> QED
    BY <2>1, <2>3, <2>4, <2>5, <2>6
<1>19. PathLeadsDown(h, l)'
  <2>1. /\ Len(path) \in Nat /\ Len(path) >= 1 /\ path[Len(path)].page = P
        /\ \A i \in 1 .. Len(path) : path[i].page \in PageId
    BY <1>0, <1>1, <1>2, PathEnd, PathPages
  <2>2. ASSUME NEW i \in 0 .. Len(path) - 1 PROVE Visited(i)' = Visited(i)
    <3>1. CASE i = Len(path) - 1
      BY <1>6, <1>18, <2>1, <3>1 DEF Visited
    <3>2. CASE i < Len(path) - 1
      <4>1. PICK j \in 1 .. Len(path) - 1 : j = i + 1
        BY <2>1, <3>2
      <4>2. Visited(i)' = path'[j].page /\ Visited(i) = path[j].page
        BY <1>18, <2>1, <3>2, <4>1 DEF Visited
      <4> QED
        BY <1>18, <4>1, <4>2
    <3> QED
      BY <2>1, <3>1, <3>2
  <2>3. Visited(0)' = root_page_id'
    BY <1>2, <1>6, <2>1, <2>2 DEF PathLeadsDown
  <2>4. ASSUME NEW i \in 1 .. Len(path')
        PROVE  LET A == path'[i].page
               IN  /\ h[A] # {}
                   /\ l[A] = l[cur'] + 1 + Len(path') - i
                   /\ mem'[A].type = "INTERNAL"
                   /\ path'[i].idx \in 0 .. Len(mem'[A].cells)
                   /\ ChildAt(mem'[A], path'[i].idx) = Visited(i)'
    <3>1. /\ i \in 1 .. Len(path) /\ i \in 0 .. Len(path) - 1 /\ i \in 1 .. Len(path) - 1
          /\ path'[i] = path[i]
      <4>1. PICK n \in Nat : n = Len(path) /\ Len(path') = n - 1
        BY <1>18, <2>1
      <4>2. i \in 1 .. n /\ i \in 0 .. n - 1 /\ i \in 1 .. n - 1
        BY <4>1
      <4> QED
        BY <1>18, <4>1, <4>2
    <3> PICK A : A = path[i].page
      OBVIOUS
    <3>2. /\ home[A] # {} /\ level[A] = level[cur] + 1 + Len(path) - i /\ mem[A].type = "INTERNAL"
          /\ path[i].idx \in 0 .. Len(mem[A].cells) /\ ChildAt(mem[A], path[i].idx) = Visited(i)
      BY <1>2, <3>1 DEF PathLeadsDown
    <3>3. A \in PageId /\ cur \in PageId /\ level[cur] \in Nat
      BY <1>1, <2>1, <3>1 DEF BTreeTypeOK, Levels
    <3>4. level[A] # level[P] /\ level[A] = level[P] + 1 + Len(path') - i
      <4>1. level[P] = level[cur] + 1 /\ Len(path') = Len(path) - 1
        BY <1>2, <1>18
      <4>2. PICK n \in Nat, c \in Nat : n = Len(path) /\ c = level[cur]
        BY <2>1, <3>3
      <4>3. i \in 1 .. n - 1 /\ level[A] = c + 1 + n - i
        BY <3>1, <3>2, <4>2
      <4>4. level[A] # c + 1 /\ level[A] = c + 1 + 1 + (n - 1) - i
        BY <4>3
      <4> QED
        BY <4>1, <4>2, <4>4
    <3>5. A # P /\ A # q
      BY <1>5, <3>2, <3>4
    <3>6. mem'[A] = mem[A] /\ h[A] = home[A] /\ l[A] = level[A]
      BY <1>12, <1>14, <3>3, <3>5
    <3>7. l[cur'] = level[P] /\ Visited(i)' = Visited(i) /\ path'[i].page = A
      BY <1>6, <1>14, <2>2, <3>1
    <3> QED
      BY <3>1, <3>2, <3>4, <3>6, <3>7
  <2> QED
    BY <1>6, <1>14, <2>3, <2>4 DEF PathLeadsDown
<1> QED
  BY <1>0, <1>2, <1>4, <1>10, <1>11, <1>14, <1>16, <1>17, <1>18, <1>19, SplitStep

LEMMA NewRootNode ==
  ASSUME NEW m \in Key, NEW R \in PageId, NEW L \in PageId, NEW log,
         log[L] # NoNode, log[R] # NoNode,
         NEW node, node = Internal(<<[key |-> m, child |-> R]>>, L)
  PROVE  node \in InternalNode /\ NodeIsSound(node, log)
<1>1. PICK cell : cell = [key |-> m, child |-> R]
  OBVIOUS
<1>2. cell \in InternalCell /\ cell.child = R
  BY <1>1 DEF InternalCell
<1>3. <<cell>> \in Seq(InternalCell) /\ Len(<<cell>>) = 1 /\ <<cell>>[1] = cell
  BY <1>2
<1>4. node.type = "INTERNAL" /\ node.cells = <<cell>> /\ node.leftmost_child = L
  BY <1>1 DEF Internal
<1>5. node \in InternalNode
  <2>1. PICK cells : cells = <<cell>>
    OBVIOUS
  <2>2. cells \in Seq(InternalCell)
    BY <1>3, <2>1
  <2>3. node = [type |-> "INTERNAL", cells |-> cells, leftmost_child |-> L]
    BY <1>1, <2>1 DEF Internal
  <2> QED
    BY <2>2, <2>3 DEF InternalNode
<1>6. Sorted(node.cells)
  BY <1>3, <1>4 DEF Sorted
<1>7. ChildAt(node, 0) = L /\ ChildAt(node, 1) = R
  BY <1>2, <1>3, <1>4 DEF ChildAt
<1>8. \A i \in 0 .. Len(node.cells) : log[ChildAt(node, i)] # NoNode
  <2>1. \A i \in 0 .. Len(node.cells) : i = 0 \/ i = 1
    BY <1>3, <1>4, SMTT(30)
  <2> QED
    BY <1>7, <2>1
<1> QED
  BY <1>5, <1>6, <1>8, InternalIsSound

LEMMA NewRootStep ==
  ASSUME BTreeInv, NewRoot
  PROVE  BTreeInv'
<1> PICK N, L, R, m : N = next_page_id /\ L = cur /\ R = split.right /\ m = split.key
  OBVIOUS
<1> PICK node : node = Internal(<<[key |-> m, child |-> R]>>, L)
  OBVIOUS
<1>1. /\ BTreeTypeOK /\ FreshPages /\ PagesAreSound(mem, logged) /\ mem = logged
      /\ logged[0] = [type |-> "METADATA", root_page_id |-> root_page_id]
  BY ParentState DEF NewRoot
<1>2. PICK home \in Homes, level \in Levels :
         /\ SearchTree(mem, root_page_id, home, level, L, R) /\ Parted(home, level, L, R, m)
         /\ PathLeadsDown(home, level)
         /\ ~torn_split => IsIndex(mem, home, MayHold)
  BY ParentState DEF NewRoot
<1>3. L = root_page_id /\ home[L] # {}
  <2>1. Len(path) = 0
    BY DEF NewRoot
  <2> QED
    BY <1>2, <2>1 DEF PathLeadsDown, Visited
<1>0. /\ pc = "parent" /\ N < MaxPages /\ mem' = [mem EXCEPT ![N] = node]
      /\ logged' = [logged EXCEPT ![N] = node] /\ root_page_id' = N /\ next_page_id' = N + 1
      /\ pc' = "log_meta" /\ UNCHANGED <<call, ghosts, pool_size>>
  BY <1>3 DEF NewRoot, Log
<1>4. /\ L \in PageId /\ R \in PageId /\ m \in Key /\ root_page_id \in PageId /\ 0 \in PageId
      /\ mem \in [PageId -> Node \cup {NoNode}]
  BY <1>1, BTreeBoundsAssumption DEF BTreeTypeOK, PageId
<1>5. mem[L] # NoNode /\ mem[R] # NoNode /\ logged[0] \in MetaNode /\ logged[0] # NoNode
  <2>1. home[R] # {}
    BY <1>2 DEF Parted
  <2>2. mem[L] # NoNode
    BY <1>2, <1>3, <1>4, LivePages
  <2>3. mem[R] # NoNode
    BY <1>2, <1>4, <2>1, LivePages
  <2>4. logged[0] \in MetaNode /\ logged[0] # NoNode
    BY <1>1, <1>4, MetaOf
  <2> QED
    BY <2>2, <2>3, <2>4
<1>6. N \in PageId /\ mem[N] = NoNode /\ home[N] = {} /\ L < N /\ N # 0
  <2>1. N \in PageId
    BY <1>0, <1>1, BTreeBoundsAssumption DEF BTreeTypeOK, PageId
  <2>2. mem[N] = NoNode /\ L < N
    BY <1>1, <1>4, <1>5, <2>1 DEF FreshPages, PageId
  <2>3. home[N] # {} => mem[N] # NoNode
    BY <1>2, <1>4, <2>1, LivePages
  <2> QED
    BY <1>1, <1>5, <2>1, <2>2, <2>3
<1>7. node \in InternalNode /\ NodeIsSound(node, logged) /\ node \in Node /\ node # NoNode
  <2>1. node \in InternalNode /\ NodeIsSound(node, logged)
    BY <1>1, <1>4, <1>5, NewRootNode
  <2> QED
    BY <2>1, InternalFields
<1>8. /\ mem' = logged' /\ mem' \in [PageId -> Node \cup {NoNode}] /\ mem'[N] = node
      /\ \A x \in PageId : x # N => mem'[x] = mem[x] /\ logged'[x] = logged[x]
  BY <1>0, <1>1, <1>4, <1>6, <1>7
<1>9. BTreeTypeOK'
  <2>1. next_page_id' \in 0 .. MaxPages
    BY <1>0, <1>6, BTreeBoundsAssumption DEF PageId
  <2> QED
    BY <1>0, <1>1, <1>6, <1>8, <2>1 DEF BTreeTypeOK, call, ghosts
<1>10. FreshPages'
  <2>1. \A x \in PageId : x >= N + 1 => x >= N /\ x # N
    BY <1>6 DEF PageId
  <2> QED
    BY <1>0, <1>1, <1>8, <2>1 DEF FreshPages
<1>11. PagesAreSound(mem', logged')
  <2>1. \A x \in PageId : logged[x] # NoNode => logged'[x] # NoNode
    BY <1>7, <1>8
  <2>2. NodeIsSound(node, logged')
    BY <1>7, <2>1 DEF NodeIsSound
  <2>3. SoundChange(mem, logged, mem', logged')
    BY <1>8, <2>1, <2>2 DEF SoundChange
  <2> QED
    BY <1>1, <2>3, SoundPages
<1>12. LogFollowsMemory'
  BY <1>0, <1>4, <1>5, <1>6, <1>8 DEF LogFollowsMemory
<1>13. PICK h \in Homes, l \in Levels :
          /\ SearchTree(mem', N, h, l, NoPage, R)
          /\ IsIndex(mem, home, MayHold) => IsIndex(mem', h, MayHold)
  <2>1. PICK content, after, may : content = mem /\ after = mem' /\ may = MayHold
    OBVIOUS
  <2>2. /\ SearchTree(content, L, home, level, L, R) /\ after[N] = Internal(<<[key |-> m, child |-> R]>>, L)
        /\ SameBut(after, content, N, N)
    BY <1>2, <1>3, <1>8, <2>1 DEF SameBut
  <2>3. \E h \in Homes, l \in Levels :
            /\ SearchTree(after, N, h, l, NoPage, R)
            /\ \A may1 : IsIndex(content, home, may1) => IsIndex(after, h, may1)
    BY <1>2, <1>4, <1>6, <2>2, RootTree, ZenonT(60)
  <2> QED
    BY <2>1, <2>3
<1>14. MemoryIsTree(h, l)'
  <2>1. LeftHalf' = NoPage /\ ~Splitting' /\ MayHold' = MayHold /\ split'.right = R
    BY <1>0 DEF LeftHalf, Splitting, MayHold, call, ghosts
  <2>2. torn_split' = torn_split
    BY <1>0 DEF ghosts
  <2> QED
    BY <1>0, <1>2, <1>13, <2>1, <2>2 DEF MemoryIsTree
<1>15. PICK home2 \in Homes, level2 \in Levels : LogIsTree(home2, level2)
  BY <1>5 DEF BTreeInv, Homes, Levels
<1>16. LogIsTree(home2, level2)'
  <2>1. ~WholeLog' /\ allowed' = allowed /\ torn_split' = torn_split
    BY <1>0 DEF WholeLog, ghosts
  <2> QED
    BY <1>1, <1>5, <1>6, <1>8, <1>15, <2>1, LogTreeKept
<1> QED
  BY <1>9, <1>10, <1>11, <1>12, <1>14, <1>16 DEF BTreeInv, Homes, Levels

LEMMA LogMetaStep ==
  ASSUME BTreeInv, LogMeta
  PROVE  BTreeInv'
<1> PICK meta : meta = [type |-> "METADATA", root_page_id |-> root_page_id]
  OBVIOUS
<1>0. /\ pc = "log_meta" /\ Log(0, meta) /\ Acknowledge /\ pc' = "idle"
      /\ UNCHANGED <<next_page_id, root_page_id, call, pool_size>>
  BY DEF LogMeta, Acknowledge
<1>1. BTreeTypeOK /\ LogFollowsMemory /\ FreshPages /\ PagesAreSound(mem, logged)
  BY DEF BTreeInv
<1>2. mem = logged /\ logged[0] # NoNode /\ logged[0] \in MetaNode
  BY <1>0, <1>1 DEF LogFollowsMemory
<1>3. PICK home \in Homes, level \in Levels : MemoryIsTree(home, level)
  BY <1>0 DEF BTreeInv, Homes, Levels
<1>4. /\ SearchTree(mem, root_page_id, home, level, NoPage, split.right)
      /\ ~torn_split => IsIndex(mem, home, MayHold)
  BY <1>0, <1>3 DEF MemoryIsTree, LeftHalf, Splitting
<1>5. 0 \in PageId /\ root_page_id \in PageId
  BY <1>1, BTreeBoundsAssumption DEF BTreeTypeOK, PageId
<1>6. home[0] = {} /\ mem[root_page_id] # NoNode
  <2>1. mem[0].type = "METADATA"
    BY <1>2 DEF MetaNode
  <2>2. home[0] # {} => mem[0].type \in {"LEAF", "INTERNAL"}
    BY <1>4, <1>5, LivePages
  <2>3. home[root_page_id] # {}
    BY <1>4 DEF SearchTree
  <2>4. mem[root_page_id] # NoNode
    BY <1>4, <1>5, <2>3, LivePages
  <2> QED
    BY <2>1, <2>2, <2>4
<1>7. meta \in MetaNode /\ meta \in Node /\ meta.root_page_id = root_page_id
  BY <1>5, MetaOf
<1>8. NodeIsSound(meta, logged)
  BY <1>2, <1>6, <1>7, MetaIsSound
<1>9. /\ mem' = logged' /\ mem' \in [PageId -> Node \cup {NoNode}] /\ mem'[0] = meta
      /\ SameBut(mem', mem, 0, 0) /\ FreshPages' /\ PagesAreSound(mem', logged')
  BY <1>0, <1>1, <1>2, <1>5, <1>7, <1>8, OnePage
<1>10. /\ allowed' \in [Key -> SUBSET (Value \cup {Absent})]
       /\ \A k \in Key : MayHold[k] \subseteq allowed'[k]
  BY <1>0, <1>1, Acknowledged
<1>11. BTreeTypeOK'
  BY <1>0, <1>1, <1>9, <1>10 DEF BTreeTypeOK, call, Acknowledge
<1>12. \A p \in PageId : home[p] # {} => mem'[p] = mem[p]
  BY <1>6, <1>9 DEF SameBut
<1>13. SearchTree(mem', root_page_id', home, level, NoPage, split.right)
  BY <1>0, <1>4, <1>5, <1>12, SameTree
<1>14. ~torn_split' => IsIndex(mem', home, allowed')
  <2>1. \A p \in PageId : \A k \in home[p] : MayHold[k] \subseteq allowed'[k]
    BY <1>10 DEF Homes
  <2>2. torn_split' = torn_split
    BY <1>0 DEF Acknowledge
  <2> QED
    BY <1>4, <1>12, <2>1, <2>2, SameValues
<1>15. logged'[0] = [type |-> "METADATA", root_page_id |-> root_page_id']
  BY <1>0, <1>9
<1> QED
  BY <1>0, <1>9, <1>11, <1>13, <1>14, <1>15, WholeStep

-----------------------------------------------------------------------------
(* The theorems. *)

LEMMA BTreeStutters ==
  ASSUME BTreeInv, UNCHANGED vars
  PROVE  BTreeInv'
<1>1. UNCHANGED <<mem, logged, next_page_id, root_page_id, pool_size, pc, arg, cur, path, split,
                  ops, crashes, allowed, torn_split>>
  BY DEF vars, pages, call, ghosts
<1>2. BTreeTypeOK' /\ LogFollowsMemory' /\ FreshPages' /\ PagesAreSound(mem, logged)'
  <2>1. BTreeTypeOK'
    BY <1>1 DEF BTreeInv, BTreeTypeOK
  <2>2. LogFollowsMemory'
    BY <1>1 DEF BTreeInv, LogFollowsMemory
  <2>3. FreshPages' /\ PagesAreSound(mem, logged)'
    BY <1>1 DEF BTreeInv, FreshPages
  <2> QED
    BY <2>1, <2>2, <2>3
<1>3. ASSUME NEW home, NEW level, MemoryIsTree(home, level) PROVE MemoryIsTree(home, level)'
  BY <1>1, <1>3 DEF MemoryIsTree, MayHold, LeftHalf, Splitting, PathLeadsDown, Visited
<1>4. ASSUME NEW home, NEW level, LogIsTree(home, level) PROVE LogIsTree(home, level)'
  BY <1>1, <1>4 DEF LogIsTree, WholeLog
<1> QED
  BY <1>1, <1>2, <1>3, <1>4 DEF BTreeInv

\* Every handler of the tree, and a crash anywhere, keeps the invariant:
\* memory holds a search tree, and so does the log recovery would restore.
THEOREM TreeCorrect == Spec => []BTreeInv
<1>1. BTreeInv /\ [Next]_vars => BTreeInv'
  <2> SUFFICES ASSUME BTreeInv, [Next]_vars PROVE BTreeInv'
    OBVIOUS
  <2>1. CASE CreateRoot
    BY <2>1, CreateRootStep
  <2>2. CASE CreateMeta
    BY <2>2, CreateMetaStep
  <2>3. CASE Reopen
    BY <2>3, ReopenStep
  <2>4. CASE \E key \in Key, value \in Value : Insert(key, value)
    BY <2>4, InsertCallStep
  <2>5. CASE PinFails
    BY <2>5, PinFailsStep
  <2>6. CASE Descend
    BY <2>6, DescendStep
  <2>7. CASE LeafInsert
    BY <2>7, LeafInsertStep
  <2>8. CASE LeafSplit
    BY <2>8, LeafSplitStep
  <2>9. CASE LeafSplitThrows
    BY <2>9, LeafSplitThrowsStep
  <2>10. CASE LogLeft
    BY <2>10, LogLeftStep
  <2>11. CASE ParentInsert
    BY <2>11, ParentInsertStep
  <2>12. CASE ParentSplit
    BY <2>12, ParentSplitStep
  <2>13. CASE NewRoot
    BY <2>13, NewRootStep
  <2>14. CASE LogMeta
    BY <2>14, LogMetaStep
  <2>15. CASE \E key \in Key : Delete(key)
    BY <2>15, DeleteStep
  <2>16. CASE Close
    BY <2>16, CloseStep
  <2>17. CASE Crash
    BY <2>17, CrashStep
  <2>18. CASE UNCHANGED vars
    BY <2>18, BTreeStutters
  <2> QED
    BY <2>1, <2>2, <2>3, <2>4, <2>5, <2>6, <2>7, <2>8, <2>9, <2>10, <2>11, <2>12, <2>13,
       <2>14, <2>15, <2>16, <2>17, <2>18 DEF Next
<1> QED
  BY BTreeInitially, <1>1, PTL DEF Spec

\* Every page the tree writes is metadata, a leaf or a separator node whose
\* pointers are page ids, SplitInternalIfNeeded's right half included.
THEOREM TreeTypes == Spec => []BTreeTypeOK
<1>1. BTreeInv => BTreeTypeOK
  BY DEF BTreeInv
<1> QED
  BY <1>1, TreeCorrect, PTL

\* In whatever state a crash finds the log, its pages point at pages in the
\* log: the order in which Insert's guards are destructed suffices for it.
THEOREM NoDanglingPointers == Spec => []NoDangling
<1>1. BTreeInv => NoDangling
  BY DEF BTreeInv, PagesAreSound, NodeIsSound, NoDangling
<1> QED
  BY <1>1, TreeCorrect, PTL

\* In whatever state a crash finds the log, the keys of each node in it are
\* strictly ordered.
THEOREM OrderedNodes == Spec => []NodesAreSorted
<1>1. BTreeInv => NodesAreSorted
  BY DEF BTreeInv, PagesAreSound, NodeIsSound, NodesAreSorted, Sorted
<1> QED
  BY <1>1, TreeCorrect, PTL

\* What every search finds between two calls.
LEMMA IdleSearches ==
  ASSUME BTreeInv, pc = "idle"
  PROVE  Walkable /\ KeysRouteHome /\ Balanced /\ GetIsRight /\ ScanIsRight
<1>1. BTreeTypeOK
  BY WholeState
<1>2. PICK home \in Homes, level \in Levels :
         /\ SearchTree(mem, root_page_id, home, level, NoPage, split.right)
         /\ ~torn_split => IsIndex(mem, home, allowed)
  BY WholeState
<1>3. root_page_id \in PageId
  BY <1>1 DEF BTreeTypeOK
<1>4. ASSUME NEW key \in Key, NEW p, p = FindLeafPageId(key)
      PROVE  /\ p \in PageId /\ p # NoPage /\ key \in home[p] /\ level[p] = 0
             /\ mem[p].type = "LEAF"
             /\ \A i \in 1 .. Len(mem[p].cells) : mem[p].cells[i].key \in home[p]
             /\ Depth(key) = level[root_page_id]
             /\ \A q \in PageId : key \in home[q] /\ level[q] = 0 => q = p
  BY <1>2, <1>3, <1>4, SearchEnds
<1>5. Walkable
  BY <1>4 DEF Walkable
<1>6. KeysRouteHome
  <2> SUFFICES ASSUME NEW key \in Key, NEW p, p = FindLeafPageId(key),
                      NEW i \in 1 .. Len(mem[p].cells)
               PROVE  FindLeafPageId(mem[p].cells[i].key) = p
    BY DEF KeysRouteHome
  <2>1. PICK k : k = mem[p].cells[i].key
    OBVIOUS
  <2>2. p \in PageId /\ level[p] = 0 /\ k \in home[p]
    BY <1>4, <2>1
  <2>3. k \in Key
    BY <2>2 DEF Homes
  <2>4. PICK q : q = FindLeafPageId(k)
    OBVIOUS
  <2>5. \A x \in PageId : k \in home[x] /\ level[x] = 0 => x = q
    BY <1>4, <2>3, <2>4
  <2> QED
    BY <2>1, <2>2, <2>4, <2>5
<1>7. Balanced
  <2>1. \A k \in Key : Depth(k) = level[root_page_id]
    BY <1>4
  <2>2. level[root_page_id] \in {Depth(k) : k \in Key}
    BY <2>1, KeyAssumption
  <2> QED
    BY <2>1, <2>2 DEF Balanced
<1>8. GetIsRight
  <2> SUFFICES ASSUME ~torn_split, NEW key \in Key PROVE Get(key) \in allowed[key]
    BY DEF GetIsRight
  <2>1. PICK p : p = FindLeafPageId(key)
    OBVIOUS
  <2>2. p \in PageId /\ key \in home[p] /\ mem[p].type = "LEAF"
    BY <1>4, <2>1
  <2>3. Lookup(mem[p], key) \in allowed[key]
    BY <1>2, <2>2 DEF IsIndex, HoldsValues
  <2> QED
    BY <2>1, <2>3 DEF Get
<1>9. ScanIsRight
  <2> SUFFICES ASSUME ~torn_split, NEW low \in Key, NEW high \in Key
               PROVE  /\ Sorted(RangeScan(low, high))
                      /\ Range(RangeScan(low, high)) =
                            {[key |-> k, value |-> Get(k)] :
                                k \in {k \in Key : low <= k /\ k <= high /\ Get(k) # Absent}}
    BY DEF ScanIsRight
  <2>1. Chained(mem, home)
    BY <1>2 DEF IsIndex
  <2>2. /\ Sorted(RangeScan(low, high))
        /\ Range(RangeScan(low, high)) = Found({k \in Key : low <= k /\ k <= high})
    BY <1>2, <1>3, <2>1, ScanEnds
  <2>3. {k \in {k \in Key : low <= k /\ k <= high} : Get(k) # Absent} =
           {k \in Key : low <= k /\ k <= high /\ Get(k) # Absent}
    OBVIOUS
  <2> QED
    BY <2>2, <2>3 DEF Found
<1> QED
  BY <1>5, <1>6, <1>7, <1>8, <1>9

\* FindLeafPageId ends in a leaf for every key, in a tree of any size and
\* whatever splits crashes have cut in half.
THEOREM SearchesEnd == Spec => []Walkable
<1>1. BTreeInv => Walkable
  BY IdleSearches DEF Walkable
<1> QED
  BY <1>1, TreeCorrect, PTL

\* The cells of a leaf that a search reaches are all found there by their
\* own keys: the split key is the first of the right half, and a key equal
\* to a separator goes to the right.
THEOREM CellsAreReached == Spec => []KeysRouteHome
<1>1. BTreeInv => KeysRouteHome
  BY IdleSearches DEF KeysRouteHome
<1> QED
  BY <1>1, TreeCorrect, PTL

\* All leaves that searches reach are equally deep.
THEOREM LeavesAreLevel == Spec => []Balanced
<1>1. BTreeInv => Balanced
  BY IdleSearches DEF Balanced
<1> QED
  BY <1>1, TreeCorrect, PTL

\* Get returns what the last Insert or Delete of the key has left, across
\* splits, reopening and crashes, unless a crash has torn a split.
THEOREM GetsAreRight == Spec => []GetIsRight
<1>1. BTreeInv => GetIsRight
  BY IdleSearches DEF GetIsRight
<1> QED
  BY <1>1, TreeCorrect, PTL

\* RangeScan returns the cells Get finds in the range, each once and in
\* order: following next_leaf from the leaf of low it meets every leaf of the
\* range, and no leaf again, unless a crash has torn a split.
THEOREM ScansAreRight == Spec => []ScanIsRight
<1>1. BTreeInv => ScanIsRight
  BY IdleSearches DEF ScanIsRight
<1> QED
  BY <1>1, TreeCorrect, PTL

-----------------------------------------------------------------------------
(* Nodes fit, unless a split is refused. *)

AllFit(content) == \A p \in PageId : content[p] # NoNode => Fits(content[p])

\* One page more that fits.
LEMMA FitsToo ==
  ASSUME NEW content \in [PageId -> Node \cup {NoNode}], AllFit(content), NEW p, NEW node, Fits(node)
  PROVE  AllFit([content EXCEPT ![p] = node])
BY DEF AllFit

\* A leaf grows by a cell at most, and shrinks by one.
LEMMA WithCellSize ==
  ASSUME NEW node \in LeafNode, Sorted(node.cells), NEW key \in Key, NEW value \in Value
  PROVE  /\ WithCell(node, key, value).type = "LEAF"
         /\ Len(WithCell(node, key, value).cells)
               = IF HasKey(node, key) THEN Len(node.cells) ELSE Len(node.cells) + 1
<1> DEFINE cells == node.cells
           pos == LeafPos(cells, key)
           cell == [key |-> key, value |-> value]
<1>1. /\ cells \in Seq(LeafCell) /\ Len(cells) \in Nat /\ cell \in LeafCell
      /\ node.type = "LEAF" /\ Cells(cells) /\ key \in Int
  <2>1. cell \in LeafCell /\ key \in Int
    BY KeyAssumption DEF LeafCell
  <2> QED
    BY <2>1, LeafFields
<1>2. pos \in 1 .. Len(cells) + 1
  BY <1>1, LeafPosFacts
<1>3. /\ WithCell(node, key, value).type = node.type
      /\ WithCell(node, key, value).cells
            = IF HasKey(node, key) THEN [cells EXCEPT ![pos] = cell] ELSE InsertAt(cells, pos, cell)
  <2>1. PICK new : new = IF HasKey(node, key) THEN [cells EXCEPT ![pos] = cell]
                         ELSE InsertAt(cells, pos, cell)
    OBVIOUS
  <2>2. WithCell(node, key, value) = [node EXCEPT !.cells = new]
    BY <2>1 DEF WithCell
  <2>3. [node EXCEPT !.cells = new].type = node.type /\ [node EXCEPT !.cells = new].cells = new
    BY DEF LeafNode
  <2> QED
    BY <2>1, <2>2, <2>3
<1> HIDE DEF cells, pos, cell
<1>4. Len(InsertAt(cells, pos, cell)) = Len(cells) + 1
  BY <1>1, <1>2, InsertAtElements
<1>5. Len([cells EXCEPT ![pos] = cell]) = Len(cells)
  BY <1>1
<1> QED
  BY <1>1, <1>3, <1>4, <1>5 DEF cells

LEMMA WithoutCellFits ==
  ASSUME NEW node \in LeafNode, Sorted(node.cells), NEW key \in Key, HasKey(node, key), Fits(node)
  PROVE  Fits(WithoutCell(node, key))
<1> DEFINE cells == node.cells
           pos == LeafPos(cells, key)
           new == RemoveAt(cells, pos)
<1>1. cells \in Seq(LeafCell) /\ Len(cells) \in Nat /\ node.type = "LEAF"
  BY LeafFields
<1>2. pos \in 1 .. Len(cells)
  BY FoundKey
<1>3. WithoutCell(node, key) = [node EXCEPT !.cells = new]
  BY DEF WithoutCell
<1>4. Len(cells) <= LEAF_MAX_KEYS
  BY <1>1 DEF Fits
<1> HIDE DEF cells, pos
<1>5. Len(new) = Len(cells) - 1
  BY <1>1, <1>2, RemoveAtElements
<1> HIDE DEF new
<1>6. [node EXCEPT !.cells = new].type = "LEAF" /\ [node EXCEPT !.cells = new].cells = new
  BY DEF LeafNode
<1> QED
  BY <1>1, <1>3, <1>4, <1>5, <1>6, FanoutAssumption DEF Fits

\* The halves of a node that is one cell too large.
LEMMA LeafHalvesFit ==
  ASSUME NEW node \in LeafNode, Len(node.cells) \in 2 .. LEAF_MAX_KEYS + 1, NEW right
  PROVE  Fits(SplitLeafLeft(node, right)) /\ Fits(SplitLeafRight(node))
<1> DEFINE cells == node.cells
           s == SplitPoint(node)
           low == SubSeq(cells, 1, s)
           high == SubSeq(cells, s + 1, Len(cells))
<1>1. cells \in Seq(LeafCell) /\ Len(cells) \in Nat
  BY LeafFields
<1>2. s \in 1 .. Len(cells) - 1
  <2>1. \A n \in Nat : n >= 2 => n \div 2 \in 1 .. n - 1
    OBVIOUS
  <2>2. Len(cells) >= 2
    BY FanoutAssumption
  <2> QED
    BY <1>1, <2>1, <2>2 DEF SplitPoint
<1>3. /\ SplitLeafLeft(node, right) = Leaf(low, right)
      /\ SplitLeafRight(node) = Leaf(high, node.next_leaf)
  BY DEF SplitLeafLeft, SplitLeafRight
<1>4. Len(cells) <= LEAF_MAX_KEYS + 1
  BY FanoutAssumption
<1> HIDE DEF cells, s
<1>5. Len(low) = s - 1 + 1
  <2>1. 1 \in 1 .. Len(cells) + 1 /\ s \in 1 - 1 .. Len(cells)
    BY <1>1, <1>2
  <2> QED
    BY <1>1, <2>1, SubSeqElements
<1>6. Len(high) = Len(cells) - (s + 1) + 1
  <2>1. s + 1 \in 1 .. Len(cells) + 1 /\ Len(cells) \in s + 1 - 1 .. Len(cells)
    BY <1>1, <1>2
  <2> QED
    BY <1>1, <2>1, SubSeqElements
<1> HIDE DEF low, high
<1>7. Len(low) <= LEAF_MAX_KEYS /\ Len(high) <= LEAF_MAX_KEYS
  BY <1>1, <1>2, <1>4, <1>5, <1>6, FanoutAssumption
<1> QED
  BY <1>3, <1>7 DEF Leaf, Fits

LEMMA InternalHalvesFit ==
  ASSUME NEW node \in InternalNode, Len(node.cells) \in 3 .. INTERNAL_MAX_KEYS + 1
  PROVE  Fits(SplitInternalLeft(node)) /\ Fits(SplitInternalRight(node))
<1> DEFINE cells == node.cells
           s == SplitPoint(node)
           low == SubSeq(cells, 1, s)
           high == SubSeq(cells, s + 2, Len(cells))
<1>1. cells \in Seq(InternalCell) /\ Len(cells) \in Nat
  BY InternalFields
<1>2. s \in 1 .. Len(cells) - 2
  <2>1. \A n \in Nat : n >= 3 => n \div 2 \in 1 .. n - 2
    OBVIOUS
  <2>2. Len(cells) >= 3
    BY FanoutAssumption
  <2> QED
    BY <1>1, <2>1, <2>2 DEF SplitPoint
<1>3. /\ SplitInternalLeft(node) = Internal(low, node.leftmost_child)
      /\ SplitInternalRight(node) = Internal(high, MiddleCell(node).child)
  BY DEF SplitInternalLeft, SplitInternalRight
<1>4. Len(cells) <= INTERNAL_MAX_KEYS + 1
  BY FanoutAssumption
<1> HIDE DEF cells, s
<1>5. Len(low) = s - 1 + 1
  <2>1. 1 \in 1 .. Len(cells) + 1 /\ s \in 1 - 1 .. Len(cells)
    BY <1>1, <1>2
  <2> QED
    BY <1>1, <2>1, SubSeqElements
<1>6. Len(high) = Len(cells) - (s + 2) + 1
  <2>1. s + 2 \in 1 .. Len(cells) + 1 /\ Len(cells) \in s + 2 - 1 .. Len(cells)
    BY <1>1, <1>2
  <2> QED
    BY <1>1, <2>1, SubSeqElements
<1> HIDE DEF low, high
<1>7. Len(low) \in 1 .. INTERNAL_MAX_KEYS /\ Len(high) \in 1 .. INTERNAL_MAX_KEYS
  BY <1>1, <1>2, <1>4, <1>5, <1>6, FanoutAssumption
<1> QED
  BY <1>3, <1>7 DEF Internal, Fits

\* In memory and in the log.
EachFits == AllFit(mem) /\ AllFit(logged)

LEMMA FitsLogged ==
  ASSUME BTreeTypeOK, EachFits, NEW p, NEW node, Fits(node), Log(p, node)
  PROVE  EachFits'
<1>1. AllFit([mem EXCEPT ![p] = node]) /\ AllFit([logged EXCEPT ![p] = node])
  BY FitsToo DEF BTreeTypeOK, EachFits
<1> QED
  BY <1>1 DEF Log, EachFits, AllFit

LEMMA FitsSplit ==
  ASSUME BTreeTypeOK, EachFits, NEW p \in PageId, NEW left \in Node, NEW right, NEW m,
         Fits(left), Fits(right), SplitTo(p, left, right, m)
  PROVE  EachFits'
<1>1. PICK mid : mid = [mem EXCEPT ![p] = left]
  OBVIOUS
<1>2. mid \in [PageId -> Node \cup {NoNode}] /\ AllFit(mid)
  BY <1>1, FitsToo DEF BTreeTypeOK, EachFits
<1>3. AllFit([mid EXCEPT ![next_page_id] = right]) /\ AllFit([logged EXCEPT ![next_page_id] = right])
  BY <1>2, FitsToo DEF BTreeTypeOK, EachFits
<1>4. mem' = [mid EXCEPT ![next_page_id] = right] /\ logged' = [logged EXCEPT ![next_page_id] = right]
  BY <1>1 DEF SplitTo
<1> QED
  BY <1>3, <1>4 DEF EachFits, AllFit

\* The leaf an Insert has come to.
LEMMA LeafReached ==
  ASSUME BTreeInv, pc = "descend", mem[cur].type = "LEAF",
         NEW node, node = WithCell(mem[cur], arg.key, arg.value)
  PROVE  /\ BTreeTypeOK /\ cur \in PageId /\ mem[cur] \in LeafNode /\ mem[cur] # NoNode
         /\ node \in LeafNode
         /\ Len(node.cells) \in Nat /\ Len(mem[cur].cells) \in Nat
         /\ Len(node.cells) = IF HasKey(mem[cur], arg.key) THEN Len(mem[cur].cells)
                              ELSE Len(mem[cur].cells) + 1
<1>1. BTreeTypeOK
  BY DEF BTreeInv
<1>2. PICK home \in Homes, level \in Levels :
         /\ SearchTree(mem, root_page_id, home, level, NoPage, split.right)
         /\ arg.key \in home[cur]
  BY WholeState
<1>3. /\ cur \in PageId /\ root_page_id \in PageId /\ arg.key \in Key /\ arg.value \in Value
      /\ home[cur] # {}
  BY <1>1, <1>2 DEF BTreeTypeOK
<1>4. mem[cur] \in Node /\ mem[cur] # NoNode /\ Sorted(mem[cur].cells)
  BY <1>2, <1>3, LivePages DEF NodeIsRouted
<1>5. mem[cur] \in LeafNode
  BY <1>4, NodeOfType
<1>6. node \in LeafNode
  BY <1>3, <1>4, <1>5, WithCellFacts
<1>7. Len(node.cells) \in Nat /\ Len(mem[cur].cells) \in Nat
  BY <1>5, <1>6, LeafFields DEF Cells
<1> QED
  BY <1>1, <1>3, <1>4, <1>5, <1>6, <1>7, WithCellSize

LEMMA LeafInsertFits ==
  ASSUME BTreeInv, EachFits, LeafInsert
  PROVE  EachFits'
<1>1. PICK node : node = WithCell(mem[cur], arg.key, arg.value)
  OBVIOUS
<1>2. /\ pc = "descend" /\ mem[cur].type = "LEAF" /\ Log(cur, node)
      /\ HasKey(mem[cur], arg.key) \/ Len(node.cells) <= LEAF_MAX_KEYS
  BY <1>1 DEF LeafInsert
<1>3. /\ BTreeTypeOK /\ cur \in PageId /\ mem[cur] \in LeafNode /\ mem[cur] # NoNode /\ node \in LeafNode
      /\ HasKey(mem[cur], arg.key) => Len(node.cells) = Len(mem[cur].cells)
  BY <1>1, <1>2, LeafReached
<1>4. Len(mem[cur].cells) <= LEAF_MAX_KEYS
  BY <1>2, <1>3 DEF EachFits, AllFit, Fits
<1>5. Len(node.cells) <= LEAF_MAX_KEYS /\ node.type = "LEAF"
  BY <1>2, <1>3, <1>4, LeafFields
<1>6. Fits(node)
  BY <1>5 DEF Fits
<1> QED
  BY <1>2, <1>3, <1>6, FitsLogged

LEMMA LeafSplitFits ==
  ASSUME BTreeInv, EachFits, LeafSplit
  PROVE  EachFits'
<1>1. PICK node, left, right, m :
         /\ node = WithCell(mem[cur], arg.key, arg.value)
         /\ left = SplitLeafLeft(node, next_page_id) /\ right = SplitLeafRight(node)
         /\ m = SplitLeafRight(node).cells[1].key
  OBVIOUS
<1>2. /\ pc = "descend" /\ mem[cur].type = "LEAF" /\ ~HasKey(mem[cur], arg.key)
      /\ Len(node.cells) > LEAF_MAX_KEYS /\ SplitTo(cur, left, right, m)
  BY <1>1 DEF LeafSplit
<1>3. /\ BTreeTypeOK /\ cur \in PageId /\ mem[cur] \in LeafNode /\ mem[cur] # NoNode /\ node \in LeafNode
      /\ Len(node.cells) \in Nat /\ Len(mem[cur].cells) \in Nat
      /\ Len(node.cells) = Len(mem[cur].cells) + 1
  BY <1>1, <1>2, LeafReached
<1>4. Len(mem[cur].cells) <= LEAF_MAX_KEYS
  BY <1>2, <1>3 DEF EachFits, AllFit, Fits
<1>5. Len(node.cells) \in 2 .. LEAF_MAX_KEYS + 1
  BY <1>2, <1>3, <1>4, FanoutAssumption
<1>6. Fits(left) /\ Fits(right)
  BY <1>1, <1>3, <1>5, LeafHalvesFit
<1>7. left \in Node
  <2>1. next_page_id \in PageId
    BY <1>2, <1>3, BTreeBoundsAssumption DEF SplitTo, BTreeTypeOK, PageId
  <2>2. SubSeq(node.cells, 1, SplitPoint(node)) \in Seq(LeafCell)
    <3>1. node.cells \in Seq(LeafCell) /\ SplitPoint(node) \in 1 - 1 .. Len(node.cells)
      <4>1. \A n \in Nat : n >= 2 => n \div 2 \in 1 - 1 .. n
        OBVIOUS
      <4>2. Len(node.cells) >= 2
        BY <1>5, FanoutAssumption
      <4> QED
        BY <1>3, <4>1, <4>2, LeafFields DEF SplitPoint
    <3>2. 1 \in 1 .. Len(node.cells) + 1
      BY <1>3
    <3> QED
      BY <3>1, <3>2, SubSeqElements
  <2> QED
    BY <1>1, <2>1, <2>2 DEF SplitLeafLeft, Leaf, LeafNode, Node
<1> QED
  BY <1>2, <1>3, <1>6, <1>7, FitsSplit

LEMMA DeleteFits ==
  ASSUME BTreeInv, EachFits, NEW key \in Key, Delete(key)
  PROVE  EachFits'
<1>1. pc = "idle"
  BY DEF Delete
<1>2. BTreeTypeOK
  BY DEF BTreeInv
<1>3. PICK home \in Homes, level \in Levels :
         SearchTree(mem, root_page_id, home, level, NoPage, split.right)
  BY <1>1, WholeState
<1>4. root_page_id \in PageId
  BY <1>2 DEF BTreeTypeOK
<1> PICK p : p = FindLeafPageId(key)
  OBVIOUS
<1>5. p \in PageId /\ key \in home[p] /\ mem[p] \in LeafNode
  BY <1>3, <1>4, SearchEnds
<1>6. Sorted(mem[p].cells) /\ mem[p] # NoNode
  BY <1>3, <1>4, <1>5, LivePages DEF NodeIsRouted
<1>7. CASE HasKey(mem[p], key)
  <2>1. Log(p, WithoutCell(mem[p], key))
    BY <1>7 DEF Delete
  <2>2. Fits(mem[p])
    BY <1>5, <1>6 DEF EachFits, AllFit
  <2>3. Fits(WithoutCell(mem[p], key))
    BY <1>5, <1>6, <1>7, <2>2, WithoutCellFits
  <2> QED
    BY <1>2, <2>1, <2>3, FitsLogged
<1>8. CASE ~HasKey(mem[p], key)
  BY <1>8 DEF Delete, EachFits, AllFit
<1> QED
  BY <1>7, <1>8

\* The parent with a separator more.
LEMMA ParentSize ==
  ASSUME BTreeInv, EachFits, pc = "parent", path # << >>,
         NEW P, P = Last(path).page,
         NEW node, node = WithSeparator(mem[P], Last(path).idx, split.key, split.right)
  PROVE  /\ P \in PageId /\ node \in InternalNode
         /\ Len(node.cells) \in 2 .. INTERNAL_MAX_KEYS + 1
<1>1. PICK idx, after : idx = Last(path).idx /\ after = [mem EXCEPT ![P] = node]
  OBVIOUS
<1>2. \E home \in Homes, level \in Levels : ParentReady(P, idx, node, after, home, level)
  BY <1>1, AtParent
<1>3. /\ P \in PageId /\ mem[P] \in InternalNode /\ node \in InternalNode
      /\ Len(node.cells) = Len(mem[P].cells) + 1
  BY <1>2 DEF ParentReady, ParentTree, SeparatorAdded
<1>4. mem[P] # NoNode /\ mem[P].type = "INTERNAL" /\ Len(mem[P].cells) \in Nat
  BY <1>3, InternalFields
<1>5. Len(mem[P].cells) \in 1 .. INTERNAL_MAX_KEYS
  BY <1>3, <1>4 DEF EachFits, AllFit, Fits
<1> QED
  BY <1>3, <1>5, FanoutAssumption

LEMMA ParentInsertFits ==
  ASSUME BTreeInv, EachFits, ParentInsert
  PROVE  EachFits'
<1>1. PICK P, node : /\ P = Last(path).page
                     /\ node = WithSeparator(mem[P], Last(path).idx, split.key, split.right)
  OBVIOUS
<1>2. pc = "parent" /\ path # << >> /\ Log(P, node) /\ Len(node.cells) <= INTERNAL_MAX_KEYS
  BY <1>1 DEF ParentInsert
<1>3. node \in InternalNode /\ Len(node.cells) \in 2 .. INTERNAL_MAX_KEYS + 1
  BY <1>1, <1>2, ParentSize
<1>4. node.type = "INTERNAL" /\ Len(node.cells) \in 1 .. INTERNAL_MAX_KEYS
  BY <1>2, <1>3, InternalFields, FanoutAssumption
<1>5. Fits(node) /\ BTreeTypeOK
  BY <1>4 DEF Fits, BTreeInv
<1> QED
  BY <1>2, <1>5, FitsLogged

LEMMA ParentSplitFits ==
  ASSUME BTreeInv, EachFits, ParentSplit
  PROVE  EachFits'
<1>1. PICK P, node, left, right, m :
         /\ P = Last(path).page
         /\ node = WithSeparator(mem[P], Last(path).idx, split.key, split.right)
         /\ left = SplitInternalLeft(node) /\ right = SplitInternalRight(node)
         /\ m = MiddleCell(node).key
  OBVIOUS
<1>2. /\ pc = "parent" /\ path # << >> /\ Len(node.cells) > INTERNAL_MAX_KEYS
      /\ SplitTo(P, left, right, m)
  BY <1>1 DEF ParentSplit
<1>3. P \in PageId /\ node \in InternalNode /\ Len(node.cells) \in 2 .. INTERNAL_MAX_KEYS + 1
  BY <1>1, <1>2, ParentSize
<1>4. Len(node.cells) \in 3 .. INTERNAL_MAX_KEYS + 1
  BY <1>2, <1>3, FanoutAssumption
<1>5. Fits(left) /\ Fits(right)
  BY <1>1, <1>3, <1>4, InternalHalvesFit
<1>6. left \in Node
  <2>1. PICK cells : cells = SubSeq(node.cells, 1, SplitPoint(node))
    OBVIOUS
  <2>2. cells \in Seq(InternalCell)
    <3>1. node.cells \in Seq(InternalCell) /\ SplitPoint(node) \in 1 - 1 .. Len(node.cells)
      <4>1. \A n \in Nat : n >= 3 => n \div 2 \in 1 - 1 .. n
        OBVIOUS
      <4>2. Len(node.cells) >= 3
        BY <1>4, FanoutAssumption
      <4> QED
        BY <1>3, <4>1, <4>2, InternalFields DEF SplitPoint
    <3>2. 1 \in 1 .. Len(node.cells) + 1
      BY <1>3, InternalFields
    <3> QED
      BY <2>1, <3>1, <3>2, SubSeqElements
  <2>3. left = [type |-> "INTERNAL", cells |-> cells, leftmost_child |-> node.leftmost_child]
    BY <1>1, <2>1 DEF SplitInternalLeft, Internal
  <2>4. node.leftmost_child \in PageId
    BY <1>3, InternalFields
  <2> QED
    BY <2>2, <2>3, <2>4 DEF InternalNode, Node
<1>7. BTreeTypeOK
  BY DEF BTreeInv
<1> QED
  BY <1>2, <1>3, <1>5, <1>6, <1>7, FitsSplit

LEMMA NewRootFits ==
  ASSUME BTreeInv, EachFits, NewRoot
  PROVE  EachFits'
<1>1. PICK cell, node : /\ cell = [key |-> split.key, child |-> split.right]
                        /\ node = Internal(<<cell>>, root_page_id)
  OBVIOUS
<1>2. Log(next_page_id, node)
  BY <1>1 DEF NewRoot
<1>3. Fits(node)
  <2>1. node.type = "INTERNAL" /\ node.cells = <<cell>> /\ Len(<<cell>>) = 1
    BY <1>1 DEF Internal
  <2> QED
    BY <2>1, FanoutAssumption DEF Fits
<1>4. BTreeTypeOK
  BY DEF BTreeInv
<1> QED
  BY <1>2, <1>3, <1>4, FitsLogged

LEMMA MetaFits ==
  ASSUME NEW root, NEW meta, meta = [type |-> "METADATA", root_page_id |-> root]
  PROVE  Fits(meta)
BY DEF Fits

LEMMA CreateRootFits ==
  ASSUME BTreeInv, EachFits, CreateRoot
  PROVE  EachFits'
<1>1. PICK meta, leaf, mid :
         /\ meta = [type |-> "METADATA", root_page_id |-> 1] /\ leaf = Leaf(<< >>, NoPage)
         /\ mid = [logged EXCEPT ![0] = meta]
  OBVIOUS
<1>2. mem' = [mid EXCEPT ![1] = leaf] /\ logged' = [logged EXCEPT ![1] = leaf]
  BY <1>1 DEF CreateRoot
<1>3. Fits(meta) /\ Fits(leaf)
  BY <1>1, MetaFits, FanoutAssumption DEF Fits, Leaf
<1>4. logged \in [PageId -> Node \cup {NoNode}] /\ AllFit(logged)
  BY DEF BTreeInv, BTreeTypeOK, EachFits
<1>5. mid \in [PageId -> Node \cup {NoNode}] /\ AllFit(mid)
  <2>1. 1 \in PageId
    BY BTreeBoundsAssumption DEF PageId
  <2>2. meta \in Node
    BY <1>1, <2>1, MetaOf
  <2> QED
    BY <1>1, <1>3, <1>4, <2>2, FitsToo
<1>6. AllFit([mid EXCEPT ![1] = leaf]) /\ AllFit([logged EXCEPT ![1] = leaf])
  BY <1>3, <1>4, <1>5, FitsToo
<1> QED
  BY <1>2, <1>6 DEF EachFits, AllFit

\* Steps that write no node, or one that fits already.
LEMMA OthersFit ==
  ASSUME BTreeInv, EachFits,
         \/ CreateMeta \/ Reopen \/ (\E key \in Key, value \in Value : Insert(key, value)) \/ PinFails
         \/ Descend \/ LogLeft \/ LogMeta \/ Close \/ Crash \/ UNCHANGED vars
  PROVE  EachFits'
<1>0. BTreeTypeOK
  BY DEF BTreeInv
<1>1. CASE CreateMeta \/ LogLeft
  <2>1. PICK p \in PageId : logged' = [logged EXCEPT ![p] = mem[p]] /\ mem' = mem
    BY <1>0, <1>1, BTreeBoundsAssumption DEF CreateMeta, LogLeft, BTreeTypeOK, PageId
  <2>2. \A q \in PageId : logged'[q] = logged[q] \/ logged'[q] = mem[q]
    BY <1>0, <2>1 DEF BTreeTypeOK
  <2> QED
    BY <2>1, <2>2 DEF EachFits, AllFit
<1>2. CASE Reopen \/ Crash
  BY <1>2 DEF Reopen, Crash, EachFits, AllFit
<1>3. CASE LogMeta
  <2>1. PICK meta : meta = [type |-> "METADATA", root_page_id |-> root_page_id]
    OBVIOUS
  <2>2. Log(0, meta) /\ Fits(meta)
    BY <1>3, <2>1, MetaFits DEF LogMeta
  <2> QED
    BY <1>0, <2>2, FitsLogged
<1>4. CASE \/ (\E key \in Key, value \in Value : Insert(key, value)) \/ PinFails
           \/ Descend \/ Close \/ UNCHANGED vars
  <2>1. mem' = mem /\ logged' = logged
    BY <1>4 DEF Insert, PinFails, Descend, Close, vars, pages
  <2> QED
    BY <2>1 DEF EachFits, AllFit
<1> QED
  BY <1>1, <1>2, <1>3, <1>4

LEMMA FitsInitially == Init => EachFits
BY DEF Init, EachFits, AllFit

LEMMA StepsFit ==
  ASSUME BTreeInv, EachFits, [Next]_vars, ~LeafSplitThrows
  PROVE  EachFits'
BY CreateRootFits, LeafInsertFits, LeafSplitFits, ParentInsertFits, ParentSplitFits, NewRootFits,
   DeleteFits, OthersFit DEF Next

\* As long as no split is refused for lack of a frame (SplitLeafIfNeeded's
\* NewPage throws), no node that is logged has more cells than the fanout, and
\* every separator node has a separator, across splits at every level, deletes
\* and crashes.  A refused split is the one way to a node that is too large.
THEOREM NodesFitUnlessRefused == Spec /\ [][~LeafSplitThrows]_vars => []NodesFit
<1>1. BTreeInv /\ EachFits /\ [Next]_vars /\ [~LeafSplitThrows]_vars => EachFits'
  <2>1. ASSUME BTreeInv, EachFits, [Next]_vars, ~LeafSplitThrows PROVE EachFits'
    BY <2>1, StepsFit
  <2>2. ASSUME BTreeInv, EachFits, UNCHANGED vars PROVE EachFits'
    BY <2>2, OthersFit
  <2> QED
    BY <2>1, <2>2
<1>2. EachFits => NodesFit
  BY DEF EachFits, AllFit, NodesFit
<1> QED
  BY <1>1, <1>2, FitsInitially, TreeCorrect, PTL DEF Spec

-----------------------------------------------------------------------------
(* How many frames are enough.  A descent holds one guard for each level it *)
(* has passed, and a tree doubles with every level, since a separator node  *)
(* has two children at least.                                               *)

\* The pages of the tree below a page, itself included.
Below(home, level, p) ==
    {q \in PageId : home[q] # {} /\ home[q] \subseteq home[p] /\ level[q] <= level[p]}

\* Power[n] is 2^n, which the provers know nothing of.
PowersOfTwo(Power) ==
    /\ Power \in [Nat -> Nat]
    /\ Power[0] = 1
    /\ \A n \in Nat : Power[n + 1] = 2 * Power[n]

LEMMA PowersGrow ==
  ASSUME NEW Power, PowersOfTwo(Power), NEW a \in Nat, NEW b \in Nat, a <= b
  PROVE  Power[a] <= Power[b]
<1> DEFINE T == {n \in Nat : a <= n /\ ~ (Power[a] <= Power[n])}
<1>1. SUFFICES ASSUME T # {} PROVE FALSE
  OBVIOUS
<1>2. PICK n \in T : \A m \in T : n <= m
  BY <1>1, LeastNatural
<1>3. n \in Nat /\ a <= n /\ ~ (Power[a] <= Power[n]) /\ Power[a] \in Nat
  BY <1>2 DEF PowersOfTwo
<1>4. n # a
  BY <1>3
<1>5. PICK m \in Nat : n = m + 1
  <2>1. n - 1 \in Nat /\ n = (n - 1) + 1
    BY <1>3, <1>4
  <2> QED
    BY <2>1
<1>6. a <= m /\ ~ (n <= m)
  BY <1>3, <1>4, <1>5
<1>7. Power[a] <= Power[m] /\ Power[m] \in Nat
  BY <1>2, <1>6 DEF PowersOfTwo
<1>8. Power[n] = 2 * Power[m]
  BY <1>5 DEF PowersOfTwo
<1> QED
  BY <1>3, <1>7, <1>8

LEMMA BelowIsFinite ==
  ASSUME NEW home, NEW level, NEW p
  PROVE  IsFiniteSet(Below(home, level, p)) /\ Cardinality(Below(home, level, p)) \in Nat
<1>1. IsFiniteSet(PageId)
  <2>1. 0 \in Int /\ MaxPages - 1 \in Int
    BY BTreeBoundsAssumption
  <2> QED
    BY <2>1, FS_Interval DEF PageId
<1>2. Below(home, level, p) \in SUBSET PageId
  BY DEF Below
<1> QED
  BY <1>1, <1>2, FS_Subset, FS_CardinalityType

\* What is below two children of a node is below the node, and apart.
LEMMA BelowChildren ==
  ASSUME NEW home \in Homes, NEW level \in Levels, NEW p \in PageId, NEW c \in PageId, NEW d \in PageId,
         home[p] # {}, home[c] \subseteq home[p], home[d] \subseteq home[p], home[c] \cap home[d] = {},
         level[c] = level[p] - 1, level[d] = level[p] - 1
  PROVE  Cardinality(Below(home, level, c)) + Cardinality(Below(home, level, d)) + 1
            <= Cardinality(Below(home, level, p))
<1>1. PICK C, D, P : /\ C = Below(home, level, c) /\ D = Below(home, level, d)
                     /\ P = Below(home, level, p)
  OBVIOUS
<1>2. /\ IsFiniteSet(C) /\ Cardinality(C) \in Nat /\ IsFiniteSet(D) /\ Cardinality(D) \in Nat
      /\ IsFiniteSet(P) /\ Cardinality(P) \in Nat
  BY <1>1, BelowIsFinite
<1>3. \A q \in PageId : level[q] \in Nat
  BY DEF Levels
<1>4. C \cap D = {}
  BY <1>1 DEF Below
<1>5. p \notin C \cup D
  <2>1. level[p] \in Nat /\ ~ (level[p] <= level[p] - 1)
    BY <1>3
  <2> QED
    BY <1>1, <2>1 DEF Below
<1>6. C \cup D \cup {p} \in SUBSET P
  <2>1. ASSUME NEW q \in PageId, level[q] <= level[p] - 1 PROVE level[q] <= level[p]
    BY <1>3, <2>1
  <2>2. level[p] <= level[p]
    BY <1>3
  <2> QED
    BY <1>1, <2>1, <2>2 DEF Below
<1>7. IsFiniteSet(C \cup D) /\ Cardinality(C \cup D) = Cardinality(C) + Cardinality(D)
  <2>1. /\ IsFiniteSet(C \cup D)
        /\ Cardinality(C \cup D) = Cardinality(C) + Cardinality(D) - Cardinality(C \cap D)
    BY <1>2, FS_Union
  <2>2. Cardinality(C \cap D) = 0
    BY <1>4, FS_EmptySet
  <2> QED
    BY <1>2, <2>1, <2>2
<1>8. Cardinality(C \cup D \cup {p}) = Cardinality(C \cup D) + 1
  BY <1>5, <1>7, FS_AddElement
<1>9. Cardinality(C \cup D \cup {p}) <= Cardinality(P)
  BY <1>2, <1>6, FS_Subset
<1> QED
  BY <1>1, <1>7, <1>8, <1>9

\* Two nodes share out keys of a page one level above them.
HasTwoChildren(home, level, p) ==
    \E c, d \in PageId :
        /\ home[c] # {} /\ level[c] = level[p] - 1 /\ home[c] \subseteq home[p]
        /\ home[d] # {} /\ level[d] = level[p] - 1 /\ home[d] \subseteq home[p]
        /\ home[c] \cap home[d] = {}

\* The first two children of a separator node do.
LEMMA TwoChildren ==
  ASSUME NEW content, NEW root \in PageId, NEW home \in Homes, NEW level \in Levels, NEW right,
         SearchTree(content, root, home, level, NoPage, right), AllFit(content),
         NEW p \in PageId, home[p] # {}, level[p] # 0
  PROVE  HasTwoChildren(home, level, p)
<1>1. PICK node : node = content[p]
  OBVIOUS
<1>2. NodeIsRouted(node, p, home, level, NoPage, right) /\ node # NoNode
  BY <1>1, LivePages
<1>3. node \in InternalNode /\ node.type = "INTERNAL"
  BY <1>2, RoutedNode
<1>4. Len(node.cells) \in Nat \ {0}
  <2>1. Fits(node)
    BY <1>1, <1>2 DEF AllFit
  <2> QED
    BY <1>3, <2>1, InternalFields DEF Fits
<1>5. 0 \in 0 .. Len(node.cells) /\ 1 \in 0 .. Len(node.cells) /\ 1 \in 1 .. Len(node.cells)
      /\ 1 \in 0 + 1 .. Len(node.cells)
  BY <1>4
<1>6. PICK c \in PageId : c = ChildAt(node, 0)
  BY <1>2, <1>3, <1>5, ChildOfNode
<1>7. PICK d \in PageId : d = ChildAt(node, 1)
  BY <1>2, <1>3, <1>5, ChildOfNode
<1>8. home[c] # {} /\ level[c] = level[p] - 1 /\ home[c] = {k \in home[p] : Between(node.cells, 0, k)}
  BY <1>2, <1>3, <1>5, <1>6, ChildOfNode, NoSplitCover
<1>9. home[d] # {} /\ level[d] = level[p] - 1 /\ home[d] = {k \in home[p] : Between(node.cells, 1, k)}
  BY <1>2, <1>3, <1>5, <1>7, ChildOfNode, NoSplitCover
<1>10. home[c] \cap home[d] = {}
  <2>1. SUFFICES ASSUME NEW k, k \in home[c], k \in home[d] PROVE FALSE
    OBVIOUS
  <2>2. PICK s : s = node.cells[1].key
    OBVIOUS
  <2>3. k < s
    BY <1>5, <1>8, <2>1, <2>2 DEF Between
  <2>4. s <= k
    BY <1>9, <2>1, <2>2 DEF Between
  <2>5. s \in Int /\ k \in Int
    BY <1>3, <1>5, <2>1, <2>2, InternalFields, KeyAssumption DEF Homes
  <2> QED
    BY <2>3, <2>4, <2>5
<1> QED
  BY <1>8, <1>9, <1>10 DEF HasTwoChildren

\* A page with n levels of the tree below it is one of 2^(n + 1) - 1 at least.
LEMMA TreeIsLarge ==
  ASSUME NEW content, NEW root \in PageId, NEW home \in Homes, NEW level \in Levels, NEW right,
         SearchTree(content, root, home, level, NoPage, right), AllFit(content),
         NEW Power, PowersOfTwo(Power)
  PROVE  \A p \in PageId : home[p] # {} =>
            Power[level[p] + 1] <= Cardinality(Below(home, level, p)) + 1
<1> DEFINE Large(p) == Power[level[p] + 1] <= Cardinality(Below(home, level, p)) + 1
           T == {n \in Nat : \E p \in PageId : home[p] # {} /\ level[p] = n /\ ~ Large(p)}
<1>0. \A p \in PageId : level[p] \in Nat /\ Power[level[p]] \in Nat /\ Cardinality(Below(home, level, p)) \in Nat
  BY BelowIsFinite DEF Levels, PowersOfTwo
<1>1. SUFFICES ASSUME T # {} PROVE FALSE
  BY <1>0
<1>2. PICK n \in T : \A m \in T : n <= m
  BY <1>1, LeastNatural
<1>3. PICK p \in PageId : home[p] # {} /\ level[p] = n /\ ~ Large(p)
  BY <1>2
<1>4. n \in Nat /\ Power[n] \in Nat /\ Power[n + 1] = 2 * Power[n]
  BY <1>2 DEF PowersOfTwo
<1>5. CASE n = 0
  <2>1. p \in Below(home, level, p)
    <3>1. level[p] <= level[p]
      BY <1>0
    <3> QED
      BY <1>3, <3>1 DEF Below
  <2>2. Cardinality(Below(home, level, p)) # 0
    BY <2>1, BelowIsFinite, FS_EmptySet
  <2>3. Power[n + 1] = 2
    BY <1>4, <1>5 DEF PowersOfTwo
  <2> QED
    BY <1>0, <1>3, <2>2, <2>3
<1>6. CASE n # 0
  <2>1. PICK c, d \in PageId :
           /\ home[c] # {} /\ level[c] = level[p] - 1 /\ home[c] \subseteq home[p]
           /\ home[d] # {} /\ level[d] = level[p] - 1 /\ home[d] \subseteq home[p]
           /\ home[c] \cap home[d] = {}
    <3>1. home[p] # {} /\ level[p] # 0
      BY <1>3, <1>6
    <3>2. HasTwoChildren(home, level, p)
      BY <3>1, TwoChildren
    <3> QED
      BY <3>2 DEF HasTwoChildren
  <2>2. n - 1 \in Nat /\ n - 1 \notin T /\ (n - 1) + 1 = n
    BY <1>2, <1>4, <1>6
  <2>3. Large(c) /\ Large(d)
    BY <1>3, <2>1, <2>2
  <2>4. Cardinality(Below(home, level, c)) + Cardinality(Below(home, level, d)) + 1
           <= Cardinality(Below(home, level, p))
    BY <1>3, <2>1, BelowChildren
  <2>5. PICK a, b, e : /\ a = Cardinality(Below(home, level, c)) /\ b = Cardinality(Below(home, level, d))
                       /\ e = Cardinality(Below(home, level, p))
    OBVIOUS
  <2>6. a \in Nat /\ b \in Nat /\ e \in Nat /\ a + b + 1 <= e
    BY <1>0, <2>4, <2>5
  <2>7. Power[n] <= a + 1 /\ Power[n] <= b + 1
    <3>1. level[c] + 1 = n /\ level[d] + 1 = n
      BY <1>3, <2>1, <2>2
    <3> QED
      BY <2>3, <2>5, <3>1
  <2>8. Power[n + 1] <= e + 1
    BY <1>4, <2>6, <2>7
  <2> QED
    BY <1>3, <2>5, <2>8
<1> QED
  BY <1>5, <1>6

\* No page of the tree is the metadata page, so the whole file has 2^(n + 1)
\* pages at least.
LEMMA FileIsLarge ==
  ASSUME BTreeInv, EachFits, pc = "descend",
         NEW home \in Homes, NEW level \in Levels,
         SearchTree(mem, root_page_id, home, level, NoPage, split.right),
         NEW Power, PowersOfTwo(Power), NEW p \in PageId, home[p] # {}
  PROVE  Power[level[p] + 1] <= MaxPages
<1>1. root_page_id \in PageId /\ AllFit(mem)
  BY DEF BTreeInv, BTreeTypeOK, EachFits
<1>2. Power[level[p] + 1] <= Cardinality(Below(home, level, p)) + 1
  BY <1>1, TreeIsLarge
<1>3. home[0] = {}
  <2>1. 0 \in PageId
    BY BTreeBoundsAssumption DEF PageId
  <2>2. mem[0] = [type |-> "METADATA", root_page_id |-> root_page_id]
    BY WholeState
  <2>3. mem[0].type = "METADATA"
    BY <2>2
  <2>4. home[0] # {} => mem[0].type \in {"LEAF", "INTERNAL"}
    BY <1>1, <2>1, LivePages
  <2> QED
    BY <2>3, <2>4
<1>4. Below(home, level, p) \in SUBSET (1 .. MaxPages - 1)
  <2>1. \A q \in PageId : q # 0 => q \in 1 .. MaxPages - 1
    BY BTreeBoundsAssumption DEF PageId
  <2> QED
    BY <1>3, <2>1 DEF Below
<1>5. IsFiniteSet(1 .. MaxPages - 1) /\ Cardinality(1 .. MaxPages - 1) = MaxPages - 1
  <2>1. 1 \in Int /\ MaxPages - 1 \in Int /\ ~ (1 > MaxPages - 1) /\ (MaxPages - 1) - 1 + 1 = MaxPages - 1
    BY BTreeBoundsAssumption
  <2> QED
    BY <2>1, FS_Interval
<1>6. Cardinality(Below(home, level, p)) <= MaxPages - 1
  BY <1>4, <1>5, FS_Subset
<1>7. Power[level[p] + 1] \in Nat /\ Cardinality(Below(home, level, p)) \in Nat /\ MaxPages \in Nat
  BY BelowIsFinite, BTreeBoundsAssumption DEF PowersOfTwo, Levels
<1> QED
  BY <1>2, <1>6, <1>7

\* With n frames for fewer than 2^n pages no split is refused.
LEMMA NothingRefused ==
  ASSUME BTreeInv, EachFits, NEW Power, PowersOfTwo(Power), \A n \in PoolSizes : Power[n] > MaxPages
  PROVE  ~LeafSplitThrows
<1> SUFFICES ASSUME LeafSplitThrows PROVE FALSE
  OBVIOUS
<1>1. pc = "descend" /\ Len(path) + 1 >= pool_size
  BY DEF LeafSplitThrows
<1>2. BTreeTypeOK
  BY DEF BTreeInv
<1>3. PICK home \in Homes, level \in Levels :
         SearchTree(mem, root_page_id, home, level, NoPage, split.right) /\ PathLeadsDown(home, level)
  BY <1>1, WholeState
<1>4. cur \in PageId /\ pool_size \in Nat /\ pool_size >= 2 /\ Power[pool_size] > MaxPages
  BY <1>2, BTreeBoundsAssumption DEF BTreeTypeOK
<1>5. PICK n \in Nat : n = Len(path)
  BY <1>2, PathPages
<1>6. n >= 1
  BY <1>1, <1>4, <1>5
<1>7. PICK p \in PageId : p = path[1].page
  BY <1>2, <1>5, <1>6, PathPages
<1>8. home[p] # {} /\ level[p] = level[cur] + 1 + n - 1
  BY <1>3, <1>5, <1>6, <1>7 DEF PathLeadsDown
<1>9. level[p] + 1 \in Nat /\ pool_size <= level[p] + 1
  <2>1. PICK c \in Nat : c = level[cur]
    BY <1>4 DEF Levels
  <2>2. level[p] = c + n
    BY <1>8, <2>1
  <2> QED
    BY <1>1, <1>4, <1>5, <2>1, <2>2
<1>10. Power[pool_size] <= Power[level[p] + 1]
  BY <1>4, <1>9, PowersGrow
<1>11. Power[level[p] + 1] <= MaxPages
  BY <1>1, <1>3, <1>8, FileIsLarge
<1>12. Power[pool_size] \in Nat /\ Power[level[p] + 1] \in Nat /\ MaxPages \in Nat
  BY <1>4, <1>9, BTreeBoundsAssumption DEF PowersOfTwo
<1> QED
  BY <1>4, <1>10, <1>11, <1>12

\* In a file of fewer than 2^n pages, for pools of n frames, no node is ever
\* logged with more cells than the fanout: no split is refused, because the
\* guards of a descent are one for each level (InsertRecursive keeps the
\* parents pinned) and a tree with as many levels as the pool has frames does
\* not fit in the file.  The pages that crashes orphan only make the file
\* larger.  32 frames are enough for every file that 32-bit page ids allow,
\* and the 8 of the smallest pool a test opens a tree with for 255 pages.
THEOREM NodesFitInDeepPools ==
  ASSUME NEW Power, PowersOfTwo(Power), \A n \in PoolSizes : Power[n] > MaxPages
  PROVE  Spec => []NodesFit
<1>1. BTreeInv /\ EachFits /\ [Next]_vars => EachFits'
  <2>1. ASSUME BTreeInv, EachFits, [Next]_vars PROVE EachFits'
    BY <2>1, NothingRefused, StepsFit
  <2> QED
    BY <2>1
<1>2. EachFits => NodesFit
  BY DEF EachFits, AllFit, NodesFit
<1> QED
  BY <1>1, <1>2, FitsInitially, TreeCorrect, PTL DEF Spec
=============================================================================
