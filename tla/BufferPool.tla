----------------------------- MODULE BufferPool -----------------------------
(***************************************************************************)
(* The page cache in front of the data file (buffer_pool.cpp) and the      *)
(* PageGuard handles its callers hold.                                     *)
(*                                                                         *)
(* A guard handle is an element of Guards; guard[g] is what its pool_,     *)
(* page_id_ and frame_ members say, NoGuard for an invalid handle.  Moving *)
(* a PageGuard renames the handle that owns a pin and is not an action.    *)
(* Every operation runs under the pool's latch, and the program has one    *)
(* thread: an operation is one step, and operations on different guards    *)
(* interleave because callers nest guards.                                 *)
(***************************************************************************)
EXTENDS WALManager, SequencesExt

CONSTANTS
    Guards,             \* the PageGuard handles the callers use
    NoGuard,            \* an invalid handle
    PoolSize,           \* pool_size
    NoFrame,            \* INVALID_FRAME_ID
    NoPage,             \* INVALID_PAGE_ID
    MaxBody,            \* bound on the mutations of one page
    MaxRecords,         \* bound on the length of the log
    FlushWhilePinned    \* may a caller flush while it holds a guard?

ASSUME PoolSizeAssumption == PoolSize \in Nat \ {0}
ASSUME GuardsAssumption == IsFiniteSet(Guards)
ASSUME BoundsAssumption == MaxBody \in Nat /\ MaxRecords \in Nat
ASSUME FlushAssumption == FlushWhilePinned \in BOOLEAN

FrameId == 0 .. PoolSize - 1

ASSUME NoFrameAssumption == NoFrame \notin FrameId
ASSUME NoPageAssumption == NoPage \notin PageId

Frame == [page : Image, page_id : PageId \cup {NoPage},
          pin_count : Nat, dirty : BOOLEAN]

Handle == [page_id : PageId, frame : FrameId]

ASSUME NoGuardAssumption == NoGuard \notin Handle

VARIABLES
    frames,         \* frames_
    page_table,     \* page_table_; NoFrame where the map has no entry
    free_list,      \* free_list_
    lru_list,       \* lru_list_, most recently used first
    guard           \* the guards the callers hold

poolVars == <<frames, page_table, free_list, lru_list, guard>>

PoolTypeOK ==
    /\ frames \in [FrameId -> Frame]
    /\ page_table \in [PageId -> FrameId \cup {NoFrame}]
    /\ free_list \in Seq(FrameId)
    /\ lru_list \in Seq(FrameId)
    /\ guard \in [Guards -> Handle \cup {NoGuard}]

ZeroImage == [lsn |-> 0, body |-> 0]

EmptyFrame ==
    [page |-> ZeroImage, page_id |-> NoPage, pin_count |-> 0, dirty |-> FALSE]

\* free_list_ is filled with 0 .. PoolSize - 1.
AllFrames == [i \in 1 .. PoolSize |-> i - 1]

PoolInit ==
    /\ frames = [f \in FrameId |-> EmptyFrame]
    /\ page_table = [p \in PageId |-> NoFrame]
    /\ free_list = AllFrames
    /\ lru_list = << >>
    /\ guard = [g \in Guards |-> NoGuard]

\* BufferPool's constructor; also what is left of a pool when its process
\* has ended.
ConstructPool ==
    /\ frames' = [f \in FrameId |-> EmptyFrame]
    /\ page_table' = [p \in PageId |-> NoFrame]
    /\ free_list' = AllFrames
    /\ lru_list' = << >>
    /\ guard' = [g \in Guards |-> NoGuard]

-----------------------------------------------------------------------------

Cached(p) == page_table[p] # NoFrame

HeldGuards == {g \in Guards : guard[g] # NoGuard}

\* Every held guard appends at most one record when it is released; a bound
\* that leaves room for them keeps Release enabled.
RoomInLog == next_lsn + Cardinality(HeldGuards) < MaxRecords

RemoveFromLRU(lru, f) == RemoveFirst(lru, f)

TouchLRU(lru, f) == <<f>> \o RemoveFromLRU(lru, f)

\* Seeded fault: pinned frames are evicted too.
EvictableEvenPinned == 1 .. Len(lru_list)

\* Positions in the LRU list of the frames that may be evicted.
Evictable == {i \in 1 .. Len(lru_list) : frames[lru_list[i]].pin_count = 0}

\* FindVictimFrame's choice: the back of the free list, else the least
\* recently used frame that is not pinned.
VictimFrame ==
    IF free_list # << >> THEN Last(free_list)
    ELSE IF Evictable # {} THEN lru_list[Max(Evictable)]
    ELSE NoFrame

\* FindVictimFrame's effects: the frame leaves the list it was found in; an
\* evicted one leaves the page table, after a write-back if it is dirty.
FreeListAfter == IF free_list # << >> THEN Front(free_list) ELSE free_list

LruAfter(f) == IF free_list # << >> THEN lru_list ELSE RemoveFromLRU(lru_list, f)

\* Seeded fault: the page table keeps its entry for the evicted page.
TableAfterKeepingEntry(f) == page_table

TableAfter(f) ==
    IF free_list # << >> THEN page_table
    ELSE [page_table EXCEPT ![frames[f].page_id] = NoFrame]

\* Seeded fault: a dirty victim is dropped.
WriteBackNever(f) == UNCHANGED <<file, durable, file_size>>

WriteBack(f) ==
    IF free_list = << >> /\ frames[f].dirty
    THEN WritePage(frames[f].page_id, frames[f].page)
    ELSE UNCHANGED <<file, durable, file_size>>

\* Loading page p with the given content into frame f and handing the pin
\* to guard g: the common tail of FetchPage and NewPage.
Install(g, f, p, image, isDirty) ==
    /\ frames' = [frames EXCEPT ![f] = [page |-> image, page_id |-> p,
                                        pin_count |-> 1, dirty |-> isDirty]]
    /\ page_table' = [TableAfter(f) EXCEPT ![p] = f]
    /\ lru_list' = TouchLRU(LruAfter(f), f)
    /\ free_list' = FreeListAfter
    /\ guard' = [guard EXCEPT ![g] = [page_id |-> p, frame |-> f]]

-----------------------------------------------------------------------------

\* Seeded fault: a hit does not count its pin.
FetchHitUnpinned(g, p) ==
    LET f == page_table[p]
    IN  /\ Cached(p)
        /\ lru_list' = TouchLRU(lru_list, f)
        /\ guard' = [guard EXCEPT ![g] = [page_id |-> p, frame |-> f]]
        /\ UNCHANGED <<frames, page_table, free_list, diskVars, walVars>>

\* FetchPage on a page that is already cached.
FetchHit(g, p) ==
    LET f == page_table[p]
    IN  /\ Cached(p)
        /\ frames' = [frames EXCEPT ![f].pin_count = @ + 1]
        /\ lru_list' = TouchLRU(lru_list, f)
        /\ guard' = [guard EXCEPT ![g] = [page_id |-> p, frame |-> f]]
        /\ UNCHANGED <<page_table, free_list, diskVars, walVars>>

\* FetchPage on a page that has to be read from the file.
FetchMiss(g, p) ==
    /\ ~Cached(p)
    /\ VictimFrame # NoFrame
    /\ Readable(p)
    /\ WriteBack(VictimFrame)
    /\ Install(g, VictimFrame, p, ReadPage(p), FALSE)
    /\ UNCHANGED <<next_page_id, walVars>>

\* FetchPage on a page ReadPage refuses.  The exception leaves after the
\* victim was taken out of its list and of the page table: the frame is in
\* no list any more.  No guard refers to its bytes, which stay unmodelled.
FetchThrows(g, p) ==
    /\ ~Cached(p)
    /\ VictimFrame # NoFrame
    /\ ~Readable(p)
    /\ WriteBack(VictimFrame)
    /\ page_table' = TableAfter(VictimFrame)
    /\ lru_list' = LruAfter(VictimFrame)
    /\ free_list' = FreeListAfter
    /\ UNCHANGED <<frames, guard, next_page_id, walVars>>

\* FetchPage with nothing to evict returns an invalid guard.
FetchExhausted(g, p) ==
    /\ ~Cached(p)
    /\ VictimFrame = NoFrame
    /\ UNCHANGED <<poolVars, diskVars, walVars>>

FetchPage(g, p) ==
    /\ guard[g] = NoGuard
    /\ RoomInLog
    /\ p < next_page_id
    /\ \/ FetchHit(g, p)
       \/ FetchMiss(g, p)
       \/ FetchThrows(g, p)
       \/ FetchExhausted(g, p)

\* NewPage: a zeroed page under a fresh page id, dirty from the start.  With
\* nothing to evict it returns an invalid guard and allocates no id.
NewPage(g) ==
    /\ guard[g] = NoGuard
    /\ RoomInLog
    /\ \/ /\ VictimFrame # NoFrame
          /\ AllocatePage
          /\ WriteBack(VictimFrame)
          /\ Install(g, VictimFrame, next_page_id, ZeroImage, TRUE)
          /\ UNCHANGED walVars
       \/ /\ VictimFrame = NoFrame
          /\ UNCHANGED <<poolVars, diskVars, walVars>>

\* The caller changes the page through page() and calls MarkDirty().
Mutate(g) ==
    LET f == guard[g].frame
        page == frames[f].page
    IN  /\ guard[g] # NoGuard
        /\ page.body < MaxBody
        /\ frames' = [frames EXCEPT
              ![f] = [page |-> [page EXCEPT !.body = page.body + 1],
                      page_id |-> frames[f].page_id,
                      pin_count |-> frames[f].pin_count, dirty |-> TRUE]]
        /\ UNCHANGED <<page_table, free_list, lru_list, guard, diskVars, walVars>>

\* Seeded fault: a dirty page is unpinned without being logged.
UnpinPageUnlogged(p, isDirty) ==
    LET f == page_table[p]
    IN  /\ frames' = [frames EXCEPT ![f].pin_count = @ - 1]
        /\ UNCHANGED walVars

\* UnpinPage on the frame that holds p: a dirty page is logged, which also
\* stamps it, before the pin is given up.
UnpinPage(p, isDirty) ==
    LET f == page_table[p]
        frame == frames[f]
        pins == IF frame.pin_count > 0 THEN frame.pin_count - 1 ELSE frame.pin_count
    IN  IF ~Cached(p)
        THEN UNCHANGED <<frames, walVars>>
        ELSE IF isDirty
        THEN /\ AppendRecord(p, frame.page)
             /\ frames' = [frames EXCEPT
                   ![f] = [page |-> Stamped(frame.page), page_id |-> frame.page_id,
                           pin_count |-> pins, dirty |-> TRUE]]
        ELSE /\ frames' = [frames EXCEPT ![f] = [frame EXCEPT !.pin_count = pins]]
             /\ UNCHANGED walVars

\* ~PageGuard / Release: the dirty flag of the frame the guard points at
\* decides whether UnpinPage logs.
Release(g) ==
    /\ guard[g] # NoGuard
    /\ UnpinPage(guard[g].page_id, frames[guard[g].frame].dirty)
    /\ guard' = [guard EXCEPT ![g] = NoGuard]
    /\ UNCHANGED <<page_table, free_list, lru_list, diskVars>>

\* FlushPage writes the page whether or not it is dirty.  Its only callers
\* are outside the engine; FlushWhilePinned says whether they may call it
\* with a guard in their hands.
FlushPage(p) ==
    LET f == page_table[p]
    IN  /\ FlushWhilePinned \/ HeldGuards = {}
        /\ Cached(p)
        /\ WritePage(p, frames[f].page)
        /\ frames' = [frames EXCEPT ![f].dirty = FALSE]
        /\ UNCHANGED <<next_page_id, page_table, free_list, lru_list, guard, walVars>>

\* FlushAll writes every cached page that is dirty.
FlushAll ==
    LET flushed == {p \in PageId : Cached(p) /\ frames[page_table[p]].dirty}
    IN  /\ FlushWhilePinned \/ HeldGuards = {}
        /\ flushed # {}
        /\ file' = [p \in PageId |-> IF p \in flushed
                                     THEN frames[page_table[p]].page ELSE file[p]]
        /\ durable' = [p \in PageId |-> IF p \in flushed
                                        THEN durable[p] \cup {file'[p], Corrupt}
                                        ELSE durable[p]]
        /\ file_size' = Max({file_size} \cup {p + 1 : p \in flushed})
        /\ frames' = [f \in FrameId |->
                        IF \E p \in flushed : page_table[p] = f
                        THEN [frames[f] EXCEPT !.dirty = FALSE] ELSE frames[f]]
        /\ UNCHANGED <<next_page_id, page_table, free_list, lru_list, guard, walVars>>
=============================================================================
