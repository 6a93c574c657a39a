------------------------------ MODULE Executor ------------------------------
(***************************************************************************)
(* The pull-based iterators that run a plan (physical_plan.cpp).           *)
(*                                                                         *)
(* A plan of module Planner is a left-deep tree: its k-th iterator joins   *)
(* what the first k - 1 produce, its accumulated side, with a scan of the  *)
(* plan's k-th table; iters[k] has the members of both, the join and the   *)
(* scan.  The calls of Open and Next form a chain down the levels and the  *)
(* rows come back up it: `at' is the level that runs, and `signal' what it *)
(* was called for or what the level below has returned to it.  The level   *)
(* above the last join is ExecuteSelect's loop, in module Engine.          *)
(***************************************************************************)
EXTENDS Planner, ExprEval, SequencesExt

VARIABLES
    tables,     \* what the catalog has of a table: [columns, rows, row_count]
    iters,      \* the iterators' members
    at, signal, \* where control is, and why
    error       \* what was thrown, or "none"

executor == <<iters, at, signal, error>>

\* std::nullopt, where a row is expected.
End == << >>

OpenCall == [kind |-> "open"]
NextCall == [kind |-> "next"]
Opened == [kind |-> "opened"]
Returned(row) == [kind |-> "row", row |-> row]
NoSignal == [kind |-> "none"]

Pass(k, what) ==
    /\ at' = k
    /\ signal' = what

\* An exception leaves every iterator; they are destroyed with the plan.
Raise(what) ==
    /\ error' = what
    /\ iters' = << >>
    /\ Pass(0, NoSignal)

\* A new iterator: the scan's rows_ and cursor_; the join's right_rows_ or
\* hash table, the row of the side it walks, that row's matches and the place
\* in them; and what it awaits a row from below for.
NewIterator == [rows |-> << >>, cursor |-> 1, stored |-> << >>,
                current |-> End, matches |-> << >>, pos |-> 1, awaits |-> "walk"]

ExecutorInit ==
    /\ iters = << >>
    /\ at = 0
    /\ signal = NoSignal
    /\ error = "none"

Running(k, kind) ==
    /\ at = k
    /\ k \in 1 .. Len(plan)
    /\ signal.kind = kind

NodeOf(k) == nodes[plan[k].node]

IsHash(k) == plan[k].join = "hash"
BuildsLeft(k) == IsHash(k) /\ plan[k].build = "left"

-----------------------------------------------------------------------------
(* PhysicalScan. *)

\* Catalog::ScanTable returns the rows in the order of their keys; every
\* value is tagged with the table's alias and the column's name.
ScanTable(k) ==
    LET table   == tables[NodeOf(k).table]
        keys    == SetToSortSeq(DOMAIN table.rows, <)
    IN  [i \in 1 .. Len(keys) |->
            [c \in 1 .. Len(table.columns) |->
                [table |-> NodeOf(k).alias, column |-> table.columns[c].name,
                 value |-> table.rows[keys[i]][c]]]]

ScanOpened(k) == [iters EXCEPT ![k].rows = ScanTable(k), ![k].cursor = 1]

\* The row at the cursor, or none.
ScanRow(it) == IF it.cursor > Len(it.rows) THEN End ELSE it.rows[it.cursor]

ScanOpen(k) ==
    /\ Running(k, "open")
    /\ plan[k].join = "scan"
    /\ iters' = ScanOpened(k)
    /\ Pass(k + 1, Opened)
    /\ UNCHANGED error

ScanNext(k) ==
    /\ Running(k, "next")
    /\ plan[k].join = "scan"
    /\ iters' = [iters EXCEPT ![k].cursor = IF ScanRow(iters[k]) = End THEN @ ELSE @ + 1]
    /\ Pass(k + 1, Returned(ScanRow(iters[k])))
    /\ UNCHANGED error

-----------------------------------------------------------------------------
(* Joins. *)

\* The columns a hash join looks up on its build side and on its probe side.
BuildRef(k) == IF BuildsLeft(k) THEN plan[k].acc_ref ELSE plan[k].next_ref
ProbeRef(k) == IF BuildsLeft(k) THEN plan[k].next_ref ELSE plan[k].acc_ref

KeyOf(row, ref) == Find(row, ref.table, ref.column)

\* Open.  A hash join that builds on the new table reads all of it first,
\* into the hash table; every other join opens its accumulated side first.
JoinOpen(k) ==
    LET rows == ScanTable(k)
        keys == [i \in 1 .. Len(rows) |-> KeyOf(rows[i], BuildRef(k))]
    IN  /\ Running(k, "open")
        /\ plan[k].join # "scan"
        /\ IF ~IsHash(k) \/ BuildsLeft(k)
           THEN Pass(k - 1, OpenCall) /\ UNCHANGED <<iters, error>>
           ELSE IF \E i \in 1 .. Len(rows) : Failed(keys[i])
           THEN Raise("ColumnResolutionError")
           ELSE /\ iters' = [iters EXCEPT ![k].stored =
                                [i \in 1 .. Len(rows) |-> [key |-> keys[i].value, row |-> rows[i]]]]
                /\ Pass(k - 1, OpenCall)
                /\ UNCHANGED error

\* The accumulated side is open.  A nested-loop join reads the right side
\* into memory now.  Then the first row, or the first to build on, is pulled.
AccumulatedOpened(k) ==
    /\ Running(k, "opened")
    /\ iters' = [iters EXCEPT
          ![k].stored = IF IsHash(k) THEN @ ELSE ScanTable(k),
          ![k].awaits = IF BuildsLeft(k) THEN "build" ELSE "first"]
    /\ Pass(k - 1, NextCall)
    /\ UNCHANGED error

\* A row of the accumulated side goes into the hash table.
BuildRow(k) ==
    LET key == KeyOf(signal.row, BuildRef(k))
    IN  /\ Running(k, "row")
        /\ iters[k].awaits = "build"
        /\ signal.row # End
        /\ IF Failed(key) THEN Raise(key.error)
           ELSE /\ iters' = [iters EXCEPT ![k].stored =
                                Append(@, [key |-> key.value, row |-> signal.row])]
                /\ Pass(k - 1, NextCall)
                /\ UNCHANGED error

\* The hash table is complete; the new table is opened and probes it.
BuildDone(k) ==
    LET opened == ScanOpened(k)
    IN  /\ Running(k, "row")
        /\ iters[k].awaits = "build"
        /\ signal.row = End
        /\ iters' = [opened EXCEPT ![k].current = ScanRow(opened[k]), ![k].cursor = 2,
                                   ![k].awaits = "walk"]
        /\ Pass(k + 1, Opened)
        /\ UNCHANGED error

\* Seeded fault: the next row goes on where the last one stopped.
WalkOn(it, row) == [it EXCEPT !.current = row, !.matches = << >>, !.awaits = "walk"]

\* The join turns to a row of the side that it walks.
Walk(it, row) == [it EXCEPT !.current = row, !.matches = << >>, !.pos = 1, !.awaits = "walk"]

\* The accumulated side returns the first row, which ends Open, or another one.
TakeRow(k) ==
    /\ Running(k, "row")
    /\ iters[k].awaits # "build"
    /\ iters' = [iters EXCEPT ![k] = Walk(@, signal.row)]
    /\ IF iters[k].awaits = "first" THEN Pass(k + 1, Opened) ELSE Pass(k, NextCall)
    /\ UNCHANGED error

\* Next of a nested-loop join: every row of the left side is tested with
\* every stored row of the right side.
NestedLoopNext(k) ==
    LET it == iters[k]
        candidate == it.current \o it.stored[it.pos]
        test == EvalBool(NodeOf(k).condition, candidate)
    IN  /\ Running(k, "next")
        /\ plan[k].join = "nested"
        /\ IF it.current = End
           THEN Pass(k + 1, Returned(End)) /\ UNCHANGED <<iters, error>>
           ELSE IF it.pos > Len(it.stored)
           THEN Pass(k - 1, NextCall) /\ UNCHANGED <<iters, error>>
           ELSE IF Failed(test) THEN Raise(test.error)
           ELSE /\ iters' = [iters EXCEPT ![k].pos = @ + 1]
                /\ IF test.value THEN Pass(k + 1, Returned(candidate)) ELSE Pass(k, NextCall)
                /\ UNCHANGED error

\* equal_range.  The order among equal keys is the container's; the model
\* takes the order of insertion.
EqualRange(stored, key) ==
    LET equal == SelectSeq(stored, LAMBDA entry : entry.key = key)
    IN  [i \in 1 .. Len(equal) |-> equal[i].row]

\* Next of a hash join: a probe row's matches are computed when it is first
\* looked at, and returned one after the other; then the next probe row.
HashJoinNext(k) ==
    LET it   == iters[k]
        key  == KeyOf(it.current, ProbeRef(k))
        lazy == it.pos = 1 /\ it.matches = << >>
        matches == IF lazy THEN EqualRange(it.stored, key.value) ELSE it.matches
    IN  /\ Running(k, "next")
        /\ IsHash(k)
        /\ IF it.current = End
           THEN Pass(k + 1, Returned(End)) /\ UNCHANGED <<iters, error>>
           ELSE IF lazy /\ Failed(key) THEN Raise(key.error)
           ELSE /\ UNCHANGED error
                /\ IF it.pos <= Len(matches)
                   THEN /\ iters' = [iters EXCEPT ![k].matches = matches, ![k].pos = @ + 1]
                        /\ Pass(k + 1, Returned(it.current \o matches[it.pos]))
                   ELSE IF BuildsLeft(k)
                   THEN /\ iters' = [iters EXCEPT ![k] = Walk([@ EXCEPT !.cursor = @ + 1],
                                                              ScanRow(@))]
                        /\ Pass(k, NextCall)
                   ELSE Pass(k - 1, NextCall) /\ UNCHANGED iters

ExecutorStep ==
    \E k \in 1 .. Len(plan) :
        \/ ScanOpen(k)
        \/ ScanNext(k)
        \/ JoinOpen(k)
        \/ AccumulatedOpened(k)
        \/ BuildRow(k)
        \/ BuildDone(k)
        \/ TakeRow(k)
        \/ NestedLoopNext(k)
        \/ HashJoinNext(k)

-----------------------------------------------------------------------------
(* PhysicalFilter and PhysicalProject. *)

\* The row passes the WHERE, if there is one.
PassesFilter(where, row) == IF where = NoExpr THEN Ok(TRUE) ELSE EvalBool(where, row)

\* A SELECT list's row: the fields it names, under their output names.
Project(stmt, row) ==
    LET items == stmt.select_items
        found == [i \in 1 .. Len(items) |-> Find(row, items[i].table, items[i].column)]
    IN  IF stmt.is_star THEN Ok(row)
        ELSE IF \E i \in 1 .. Len(items) : Failed(found[i]) THEN Throw("ColumnResolutionError")
        ELSE Ok([i \in 1 .. Len(items) |->
                    [table |-> items[i].table,
                     column |-> IF items[i].alias = Absent THEN items[i].column
                                ELSE items[i].alias,
                     value |-> found[i].value]])
=============================================================================
