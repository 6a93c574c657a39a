------------------------------ MODULE MCBTree ------------------------------
(* Small instances of BTree for TLC: the configurations give two keys per   *)
(* node, so that a handful of inserts reaches three levels.                 *)
EXTENDS BTree

\* The pages a search for the key passes, the missing right half included.
Passed(content, root, left, key) ==
    LET here(p) == IF p = left /\ key >= split.key THEN split.right ELSE p
        loop[n \in 0 .. 4, p \in PageId] ==
            IF n = 0 \/ content[p] = NoNode THEN {p}
            ELSE IF content[p].type # "INTERNAL" THEN {p}
            ELSE {p} \cup loop[n - 1, here(ChildAt(content[p], ChildIdx(content[p], key)))]
    IN  loop[4, here(root)]

HomeOf(content, root, left) ==
    LET passed == [k \in Key |-> Passed(content, root, left, k)]
    IN  [p \in PageId |-> {k \in Key : p \in passed[k]}]

LevelOf(content) ==
    LET height[n \in 0 .. 4, p \in PageId] ==
            IF n = 0 \/ content[p] = NoNode THEN 0
            ELSE IF content[p].type # "INTERNAL" THEN 0
            ELSE 1 + height[n - 1, content[p].leftmost_child]
    IN  [p \in PageId |-> height[4, p]]

\* In memory and in the log there is a search tree at every moment, torn or
\* not: the invariant the theorems of BTreeProofs rest on, with its homes and
\* levels.  Before a split begins the log says what the memory says
\* (LogFollowsMemory), and its tree is the one in memory.
TreesAreSound ==
    /\ LogFollowsMemory /\ FreshPages /\ PagesAreSound(mem, logged)
    /\ pc \notin {"closed", "failed"} =>
          \E home \in {HomeOf(mem, root_page_id, LeftHalf)}, level \in {LevelOf(mem)} :
              MemoryIsTree(home, level)
    /\ logged[0] # NoNode /\ pc \notin {"idle", "descend"} =>
          \E home \in {HomeOf(logged, logged[0].root_page_id, NoPage)}, level \in {LevelOf(logged)} :
              LogIsTree(home, level)
=============================================================================
