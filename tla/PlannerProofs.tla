--------------------------- MODULE PlannerProofs ---------------------------
(***************************************************************************)
(* Every plan of every query is closed: the planner by itself, given any   *)
(* query that semantic analysis lets through and any row counts.           *)
(***************************************************************************)
EXTENDS Planner, CollectionLemmas, TLAPS

CONSTANTS
    TableNode               \* the tables, with conditions and row counts, of all queries

PlannerNext ==
    \/ plan = << >> /\ \E ns \in Seq(TableNode) : NodesOK(ns) /\ StartPlan(ns)
    \/ JoinNext
    \/ PlanComplete /\ DropPlan

PlannerSpec == PlannerInit /\ [][PlannerNext]_planner

\* A plan is a sequence of joins of the query's tables, the first one first.
PlanOK ==
    /\ nodes \in Seq(TableNode)
    /\ nodes # << >> => NodesOK(nodes)
    /\ plan = << >> <=> nodes = << >>
    /\ DOMAIN plan = 1 .. Len(plan)
    /\ Len(plan) \in Nat
    /\ \A k \in 1 .. Len(plan) : plan[k].node \in 1 .. Len(nodes)

PlannerInv == PlanOK /\ JoinsAreClosed

\* While a table is left, one is connected: the first one, since what its ON
\* condition names comes before it and has been joined.
LEMMA SomeTableIsConnected ==
    ASSUME PlanOK, plan # << >>, Unconsumed # {}
    PROVE  \E i \in Unconsumed : Connected(i)
<1>1. Unconsumed \subseteq 1 .. Len(nodes) /\ Unconsumed \in SUBSET Nat
  BY DEF Unconsumed, PlanOK
<1>. DEFINE m == Min(Unconsumed)
<1>2. m \in Unconsumed /\ \A x \in Unconsumed : m <= x
  BY <1>1, MinOfNaturals
<1>3. \A j \in 1 .. m : j # m => j \in Consumed
  <2>. SUFFICES ASSUME NEW j \in 1 .. m, j # m PROVE j \in Consumed
    OBVIOUS
  <2>. HIDE DEF m
  <2>1. Len(nodes) \in Nat
    BY DEF PlanOK
  <2>2. m \in 1 .. Len(nodes)
    BY <1>1, <1>2
  <2>3. j \in 1 .. Len(nodes) /\ ~(m <= j)
    BY <2>1, <2>2
  <2>. QED  BY <1>2, <2>3 DEF Unconsumed
<1>4. nodes[m].refs \subseteq {nodes[j].alias : j \in 1 .. m}
  BY <1>1, <1>2 DEF PlanOK, NodesOK
<1>5. Connected(m)
  BY <1>3, <1>4 DEF Connected, JoinedAliases
<1>. QED  BY <1>2, <1>5

\* So the choice falls on a connected table that is left.
LEMMA BestIsConnected ==
    ASSUME PlanOK, plan # << >>, Unconsumed # {}
    PROVE  BestIdx \in Unconsumed /\ Connected(BestIdx)
<1>. DEFINE candidates == {i \in Unconsumed : Connected(i)}
            counts == {nodes[i].rows : i \in candidates}
            least == {i \in candidates : \A j \in candidates : nodes[i].rows <= nodes[j].rows}
<1>1. candidates # {}
  BY SomeTableIsConnected
<1>2. candidates \subseteq 1 .. Len(nodes)
  BY DEF Unconsumed
<1>3. \A i \in candidates : nodes[i].rows \in Nat
  BY <1>2 DEF PlanOK, NodesOK
<1>4. counts \in SUBSET Nat /\ counts # {}
  BY <1>1, <1>3
<1>5. Min(counts) \in counts /\ \A c \in counts : Min(counts) <= c
  <2>. HIDE DEF counts
  <2>. QED  BY <1>4, MinOfNaturals
<1>6. PICK i \in candidates : nodes[i].rows = Min(counts)
  BY <1>5
<1>7. i \in least
  BY <1>5, <1>6
<1>8. least \in SUBSET Nat
  BY <1>2 DEF PlanOK
<1>9. Min(least) \in least
  <2>. HIDE DEF least
  <2>. QED  BY <1>7, <1>8, MinOfNaturals
<1>10. BestIdx = Min(least)
  BY <1>1 DEF BestIdx
<1>. QED  BY <1>9, <1>10

\* A round of the loop adds a connected table that has not been joined.
LEMMA JoinNextKeepsInv ==
    ASSUME PlannerInv, JoinNext
    PROVE  PlannerInv'
<1>. DEFINE b == BestIdx
            n == Len(plan)
<1>1. PlanOK /\ plan # << >> /\ Unconsumed # {}
  BY DEF PlannerInv, JoinNext
<1>2. b \in Unconsumed /\ Connected(b)
  BY <1>1, BestIsConnected
<1>3. JoinStep(b).node = b
  BY DEF JoinStep
<1>4. /\ n \in Nat
      /\ plan' = Append(plan, JoinStep(b))
      /\ nodes' = nodes
  BY <1>1 DEF JoinNext, PlanOK
<1>5. /\ Len(plan') = n + 1
      /\ DOMAIN plan' = 1 .. n + 1
      /\ \A k \in 1 .. n : plan'[k] = plan[k]
      /\ plan'[n + 1] = JoinStep(b)
  BY <1>1, <1>4 DEF PlanOK
<1>6. b \in 1 .. Len(nodes) /\ \A k \in 1 .. n : plan[k].node # b
  BY <1>2 DEF Unconsumed, Consumed
<1>7. PlanOK'
  <2>1. \A k \in 1 .. n + 1 : plan'[k].node \in 1 .. Len(nodes)
    BY <1>1, <1>3, <1>4, <1>5, <1>6 DEF PlanOK
  <2>2. plan' # << >> /\ nodes # << >>
    BY <1>1, <1>4, <1>5 DEF PlanOK
  <2>3. nodes' # << >> => NodesOK(nodes)'
    BY <1>1, <1>4 DEF PlanOK, NodesOK
  <2>. QED  BY <1>1, <1>4, <1>5, <2>1, <2>2, <2>3 DEF PlanOK
<1>8. \A k, l \in 1 .. n + 1 : plan'[k].node = plan'[l].node => k = l
  BY <1>3, <1>4, <1>5, <1>6 DEF PlannerInv, JoinsAreClosed
<1>9. \A k \in 1 .. n + 1 :
        nodes[plan'[k].node].refs \subseteq {nodes[plan'[l].node].alias : l \in 1 .. k}
  <2>. SUFFICES ASSUME NEW k \in 1 .. n + 1
       PROVE  nodes[plan'[k].node].refs \subseteq {nodes[plan'[l].node].alias : l \in 1 .. k}
    OBVIOUS
  <2>1. CASE k \in 1 .. n
    BY <2>1, <1>4, <1>5, SMTT(30) DEF PlannerInv, JoinsAreClosed
  <2>2. CASE k = n + 1
    <3>1. nodes[b].refs \ {nodes[b].alias} \subseteq {nodes[plan[l].node].alias : l \in 1 .. n}
      BY <1>2 DEF Connected, JoinedAliases, Consumed
    <3>2. \A l \in 1 .. n : plan'[l] = plan[l] /\ l \in 1 .. k
      BY <1>4, <1>5, <2>2
    <3>3. plan'[k].node = b /\ k \in 1 .. k
      BY <1>3, <1>4, <1>5, <2>2
    <3>. QED  BY <3>1, <3>2, <3>3
  <2>3. k \in 1 .. n \/ k = n + 1
    BY <1>4
  <2>. QED  BY <2>1, <2>2, <2>3
<1>10. JoinsAreClosed'
  <2>. HIDE DEF n
  <2>1. Len(plan') = n + 1 /\ nodes' = nodes
    BY <1>4, <1>5
  <2>. QED  BY <1>8, <1>9, <2>1 DEF JoinsAreClosed
<1>. QED  BY <1>7, <1>10 DEF PlannerInv

\* BuildPhysicalPlan joins every table at most once and evaluates every ON
\* condition where the tables it names are joined, for every query that
\* semantic analysis accepts, with any number of tables and any row counts.
THEOREM PlansAreClosed == PlannerSpec => []JoinsAreClosed
<1>1. PlannerInit => PlannerInv
  BY DEF PlannerInit, PlannerInv, PlanOK, JoinsAreClosed
<1>2. PlannerInv /\ [PlannerNext]_planner => PlannerInv'
  <2>. SUFFICES ASSUME PlannerInv, [PlannerNext]_planner PROVE PlannerInv'
    OBVIOUS
  <2>1. ASSUME NEW ns \in Seq(TableNode), NodesOK(ns), StartPlan(ns)
        PROVE  PlannerInv'
    BY <2>1 DEF StartPlan, PlannerInv, PlanOK, JoinsAreClosed, NodesOK
  <2>2. CASE JoinNext
    BY <2>2, JoinNextKeepsInv
  <2>3. CASE DropPlan
    BY <2>3 DEF DropPlan, PlannerInv, PlanOK, JoinsAreClosed
  <2>4. CASE UNCHANGED planner
    BY <2>4, SMTT(30) DEF planner, PlannerInv, PlanOK, JoinsAreClosed, NodesOK
  <2>. QED  BY <2>1, <2>2, <2>3, <2>4 DEF PlannerNext
<1>3. PlannerInv => JoinsAreClosed
  BY DEF PlannerInv
<1>. QED  BY <1>1, <1>2, <1>3, PTL DEF PlannerSpec
=============================================================================
