------------------------------ MODULE Planner ------------------------------
(***************************************************************************)
(* BuildPhysicalPlan's choice of a join order and of a join algorithm      *)
(* (physical_plan.cpp).                                                    *)
(*                                                                         *)
(* A query arrives as the list of its tables in the order they are         *)
(* written (FlattenJoins).  What the planner looks at of a table's ON      *)
(* condition is which tables it names and, when it is one equality of two  *)
(* columns, these columns; the condition itself is evaluated later, by     *)
(* module Executor.  A plan is the sequence of the tables as they are      *)
(* joined, each with the algorithm: every plan is a left-deep tree.        *)
(***************************************************************************)
EXTENDS Integers, Sequences, FiniteSetsExt

CONSTANTS
    Word                    \* 2^64: estimates and costs are of type uint64_t

ASSUME WordAssumption == Word \in Nat \ {0}

VARIABLES
    nodes,                  \* TableNode: [table, alias, refs, equi, rows, condition]
    plan,                   \* the joins decided so far
    left_rows               \* accumulated->EstimatedRows()

planner == <<nodes, plan, left_rows>>

\* The tables of the query, by their place in it, that are joined already.
Consumed == {plan[k].node : k \in 1 .. Len(plan)}
Unconsumed == (1 .. Len(nodes)) \ Consumed
JoinedAliases == {nodes[i].alias : i \in Consumed}

\* Seeded fault: any ON condition that names a table will do.
ConnectedAnyhow(i) == nodes[i].refs # {}

\* The ON condition names the table itself and joined tables only.
Connected(i) == nodes[i].refs \ {nodes[i].alias} \subseteq JoinedAliases

\* best_idx: of the connected tables one with the fewest rows, the first of
\* them; if there is none, the next table in textual order.
BestIdx ==
    LET candidates == {i \in Unconsumed : Connected(i)}
    IN  IF candidates = {} THEN Min(Unconsumed)
        ELSE Min({i \in candidates : \A j \in candidates : nodes[i].rows <= nodes[j].rows})

\* The side of the equality that names the new table; 0 if neither does.
NextRef(node) ==
    IF node.equi = << >> THEN 0
    ELSE IF node.equi[1].table = node.alias THEN 1
    ELSE IF node.equi[2].table = node.alias THEN 2
    ELSE 0

HashCost(node) == (left_rows + node.rows) % Word
NestedCost(node) == (left_rows * node.rows) % Word

UsesHash(node) == NextRef(node) # 0 /\ HashCost(node) <= NestedCost(node)

\* The join of table i: with a hash table of the smaller side's rows, or by
\* testing every pair.
JoinStep(i) ==
    LET node == nodes[i]
        k    == NextRef(node)
    IN  IF UsesHash(node)
        THEN [node |-> i, join |-> "hash",
              build |-> IF left_rows <= node.rows THEN "left" ELSE "right",
              next_ref |-> node.equi[k], acc_ref |-> node.equi[3 - k]]
        ELSE [node |-> i, join |-> "nested"]

\* The base table is always the first one.
StartPlan(ns) ==
    /\ nodes' = ns
    /\ plan' = <<[node |-> 1, join |-> "scan"]>>
    /\ left_rows' = ns[1].rows

\* One round of the loop; a hash join's estimate is the sum of its inputs'.
JoinNext ==
    /\ plan # << >>
    /\ Unconsumed # {}
    /\ plan' = Append(plan, JoinStep(BestIdx))
    /\ left_rows' = IF UsesHash(nodes[BestIdx]) THEN HashCost(nodes[BestIdx])
                    ELSE NestedCost(nodes[BestIdx])
    /\ UNCHANGED nodes

PlanComplete == plan # << >> /\ Unconsumed = {}

\* The plan goes away with the query.
DropPlan ==
    /\ nodes' = << >>
    /\ plan' = << >>
    /\ left_rows' = 0

PlannerInit ==
    /\ nodes = << >>
    /\ plan = << >>
    /\ left_rows = 0

-----------------------------------------------------------------------------

\* What semantic analysis promises of a query: its tables have different
\* aliases and an ON condition names tables up to its own.
NodesOK(ns) ==
    /\ ns # << >>
    /\ \A i \in 1 .. Len(ns) :
          /\ ns[i].rows \in Nat
          /\ ns[i].refs \subseteq {ns[j].alias : j \in 1 .. i}
    /\ \A i, j \in 1 .. Len(ns) : ns[i].alias = ns[j].alias => i = j

\* Whatever order the row counts suggest, a plan joins a table at most once,
\* and only where every table its ON condition names has been joined, so that
\* the condition can be evaluated.  (The fallback to textual order, which the
\* comment in BuildPhysicalPlan explains, is never what decides.)
JoinsAreClosed ==
    /\ \A k, l \in 1 .. Len(plan) : plan[k].node = plan[l].node => k = l
    /\ \A k \in 1 .. Len(plan) :
          nodes[plan[k].node].refs \subseteq {nodes[plan[l].node].alias : l \in 1 .. k}
=============================================================================
