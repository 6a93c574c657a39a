------------------------------ MODULE Storage ------------------------------
(***************************************************************************)
(* The storage engine as one process: opening a database (the constructors *)
(* of Database and Engine), recovery (recovery.cpp), the life of the       *)
(* buffer pool, and the ways the process can end.                          *)
(*                                                                         *)
(* phase is where the process is: "closed" (no process), "recovering"      *)
(* (inside RunRecovery, with the pages of todo still to be written), or    *)
(* "running".  RunRecovery walks a hash table, so the pages are written in *)
(* any order, and the process may die after any of the writes.             *)
(*                                                                         *)
(* done is not part of the program: done[p] is the content of page p that  *)
(* the last Release of a guard on p returned from, the state of p a caller *)
(* has been told is on disk; NotDone if there is none.                     *)
(***************************************************************************)
EXTENDS BufferPool

CONSTANT
    MaxCrashes      \* bound on the number of crashes

ASSUME MaxCrashesAssumption == MaxCrashes \in Nat

VARIABLES phase, todo, crashes, done

procVars == <<phase, todo, crashes>>
vars == <<diskVars, walVars, poolVars, procVars, done>>

NotDone == -1

StorageTypeOK ==
    /\ DiskTypeOK
    /\ WalTypeOK
    /\ PoolTypeOK
    /\ phase \in {"closed", "recovering", "running"}
    /\ todo \in SUBSET PageId
    /\ crashes \in 0 .. MaxCrashes
    /\ done \in [PageId -> Nat \cup {NotDone}]

Init ==
    /\ DiskInit
    /\ WalInit
    /\ PoolInit
    /\ phase = "closed"
    /\ todo = {}
    /\ crashes = 0
    /\ done = [p \in PageId |-> NotDone]

-----------------------------------------------------------------------------

\* DiskManager's and WALManager's constructors, and RunRecovery's reduction
\* of the log to one record per page.
Open ==
    /\ phase = "closed"
    /\ NextPageIdFromFileSize
    /\ OpenWAL
    /\ phase' = "recovering"
    /\ todo' = {p \in PageId : \E i \in 1 .. next_offset' : wal'[i].page_id = p}
    /\ UNCHANGED <<file, durable, file_size, poolVars, crashes, done>>

\* Seeded fault: the loop does not advance.
ReplayPageForEver(p) ==
    /\ phase = "recovering"
    /\ p \in todo
    /\ WritePage(p, LatestImage(p))
    /\ UNCHANGED <<next_page_id, walVars, poolVars, phase, todo, crashes, done>>

\* RunRecovery writes the latest logged image of one page.
ReplayPage(p) ==
    /\ phase = "recovering"
    /\ p \in todo
    /\ WritePage(p, LatestImage(p))
    /\ todo' = todo \ {p}
    /\ UNCHANGED <<next_page_id, walVars, poolVars, phase, crashes, done>>

\* Seeded fault: the allocation counter is not refreshed.
FinishRecoveryWithoutRefresh ==
    /\ phase = "recovering"
    /\ todo = {}
    /\ Flush
    /\ ConstructPool
    /\ phase' = "running"
    /\ UNCHANGED <<next_page_id, walVars, todo, crashes, done>>

\* The rest of RunRecovery, and the construction of the buffer pool.
FinishRecovery ==
    /\ phase = "recovering"
    /\ todo = {}
    /\ Flush
    /\ NextPageIdFromFileSize
    /\ ConstructPool
    /\ phase' = "running"
    /\ UNCHANGED <<walVars, todo, crashes, done>>

\* The callers' operations on the buffer pool.
PoolFetch(g, p) ==
    phase = "running" /\ FetchPage(g, p) /\ UNCHANGED <<procVars, done>>

PoolNew(g) ==
    phase = "running" /\ NewPage(g) /\ UNCHANGED <<procVars, done>>

PoolMutate(g) ==
    phase = "running" /\ Mutate(g) /\ UNCHANGED <<procVars, done>>

PoolRelease(g) ==
    /\ phase = "running"
    /\ Release(g)
    /\ done' = [done EXCEPT ![guard[g].page_id] = frames[guard[g].frame].page.body]
    /\ UNCHANGED procVars

PoolFlushPage(p) ==
    phase = "running" /\ FlushPage(p) /\ UNCHANGED <<procVars, done>>

PoolFlushAll ==
    phase = "running" /\ FlushAll /\ UNCHANGED <<procVars, done>>

\* A normal exit.  No destructor flushes the pool: what was not evicted is
\* in the log only.
Close ==
    /\ phase = "running"
    /\ HeldGuards = {}
    /\ ConstructPool
    /\ phase' = "closed"
    /\ UNCHANGED <<diskVars, walVars, todo, crashes, done>>

\* The process dies, the machine stays up: the page cache of the operating
\* system keeps what was written to the data file.
Kill ==
    /\ phase # "closed"
    /\ crashes < MaxCrashes
    /\ LoseAppend(HeldGuards # {})
    /\ ConstructPool
    /\ phase' = "closed"
    /\ todo' = {}
    /\ crashes' = crashes + 1
    /\ UNCHANGED <<diskVars, done>>

\* The machine dies: writes to the data file that were not synced may be
\* lost or torn.
PowerLoss ==
    /\ phase # "closed"
    /\ crashes < MaxCrashes
    /\ LoseAppend(HeldGuards # {})
    /\ LoseUnsyncedWrites
    /\ ConstructPool
    /\ phase' = "closed"
    /\ todo' = {}
    /\ crashes' = crashes + 1
    /\ UNCHANGED done

Next ==
    \/ Open
    \/ \E p \in PageId : ReplayPage(p)
    \/ FinishRecovery
    \/ \E g \in Guards : \/ \E p \in PageId : PoolFetch(g, p)
                         \/ PoolNew(g)
                         \/ PoolMutate(g)
                         \/ PoolRelease(g)
    \/ \E p \in PageId : PoolFlushPage(p)
    \/ PoolFlushAll
    \/ Close
    \/ Kill
    \/ PowerLoss

Spec == Init /\ [][Next]_vars

\* A process that is opening a database keeps executing until it is killed.
Fairness ==
    /\ WF_vars(\E p \in PageId : ReplayPage(p))
    /\ WF_vars(FinishRecovery)

FairSpec == Spec /\ Fairness

-----------------------------------------------------------------------------

\* What a caller that pins page p now gets to see.
Visible(p) == IF Cached(p) THEN frames[page_table[p]].page ELSE file[p]

\* Durability (UnpinPage logs a dirty page before Release returns): what a
\* caller was told is on disk is what the next caller finds, whatever was
\* evicted, flushed, lost or recovered in between.  The page may only be
\* ahead of it, by a mutation in progress.
AckedSurvives ==
    phase = "running" =>
        \A p \in PageId : done[p] # NotDone =>
            /\ Visible(p) # Corrupt
            /\ Visible(p).body >= done[p]

\* The write-ahead rule (FindVictimFrame writes back only what UnpinPage has
\* logged): no bytes ever reach the data file that are not the after-image
\* of a record in the log, so recovery can always reproduce them.
WriteAhead ==
    \A p \in PageId : \A content \in durable[p] \cup {file[p]} :
        content # Corrupt =>
            \E i \in 1 .. Len(wal) : /\ wal[i] # Torn
                                     /\ wal[i].page_id = p
                                     /\ wal[i].page = content

\* What recovery would restore, what the file holds and what the cache holds
\* agree wherever the code relies on it: a page outside the cache is in the
\* file as it was last logged (FetchPage on a miss), a clean frame is what
\* both say (it is evicted without a write), an unpinned frame is what was
\* logged (its eviction writes it back unlogged), and a frame is never
\* behind the log.
CacheIsCurrent ==
    phase = "running" =>
        \A p \in PageId :
            IF Cached(p)
            THEN LET frame == frames[page_table[p]]
                 IN  /\ ~frame.dirty => /\ Logged(p)
                                        /\ frame.page = LatestImage(p)
                                        /\ file[p] = LatestImage(p)
                     /\ frame.pin_count = 0 => Logged(p) /\ frame.page = LatestImage(p)
                     /\ Logged(p) => frame.page.body >= LatestImage(p).body
            ELSE file[p] = IF Logged(p) THEN LatestImage(p) ELSE Corrupt

\* Log sequence numbers are positions in the log (OpenWAL resumes counting
\* where the valid records end): RunRecovery's "highest number" is the
\* record appended last, across restarts and torn tails.
LsnIsPosition ==
    \A i \in 1 .. Len(wal) :
        wal[i] # Torn => wal[i].lsn = i - 1 /\ wal[i].page.lsn = i - 1

\* The guards on a frame.
GuardsOn(f) == {g \in HeldGuards : guard[g].frame = f}

\* A guard pins what it points at (PageGuard): its frame holds its page, the
\* page table leads to it, and the pin count is the number of guards on the
\* frame, so that a pinned frame is never a victim.
GuardsArePins ==
    phase = "running" =>
        /\ \A g \in HeldGuards :
              /\ page_table[guard[g].page_id] = guard[g].frame
              /\ frames[guard[g].frame].page_id = guard[g].page_id
        /\ \A f \in FrameId : frames[f].pin_count = Cardinality(GuardsOn(f))

\* The frames' bookkeeping (page_table_, free_list_, lru_list_): no frame
\* holds two pages, the LRU list holds the frames of the page table, once
\* each, and a frame on the free list, once, is in no other place.
FramesAreAccountedFor ==
    phase = "running" =>
        /\ \A p \in PageId : Cached(p) => /\ frames[page_table[p]].page_id = p
                                          /\ page_table[p] \in Range(lru_list)
        /\ \A f \in Range(lru_list) : /\ frames[f].page_id \in PageId
                                       /\ page_table[frames[f].page_id] = f
        /\ \A p \in PageId : page_table[p] \notin Range(free_list)
        /\ IsInjective(lru_list)
        /\ IsInjective(free_list)

\* AllocatePage never hands out a page that exists: the counter is beyond
\* every page in the log and in the cache (RefreshNextPageIdAfterRecovery).
NextPageIdIsFresh ==
    phase = "running" =>
        \A p \in PageId : Logged(p) \/ Cached(p) => p < next_page_id

\* The log only grows: no step loses a valid record, the truncation in
\* WALManager's constructor included.
LogOnlyGrows ==
    [][\A i \in 1 .. Len(wal) : wal[i] # Torn =>
            i \in DOMAIN wal' /\ wal'[i] = wal[i]]_vars

\* Recovery comes to its end (RunRecovery's loop): once begun, either the
\* database is running, or the process was killed in the middle.
RecoveryCompletes ==
    \A n \in 0 .. MaxCrashes :
        phase = "recovering" /\ crashes = n ~> phase = "running" \/ crashes > n

-----------------------------------------------------------------------------
(* The rest of the inductive invariant that CacheIsCurrent and the other    *)
(* safety properties are proved from.                                       *)

\* The valid records are a prefix of the log; a process that has opened the
\* log sees nothing else and continues right after it.
LogShape ==
    /\ Len(wal) <= next_offset + 1
    /\ \A i \in 1 .. Len(wal) : i <= next_offset <=> wal[i] # Torn
    /\ phase # "closed" => next_offset = Len(wal) /\ next_lsn = Len(wal)

\* Readable pages are inside the file.
FileSizeCovers == \A p \in PageId : file[p] # Corrupt => p < file_size

\* What recovery has written so far is current, and the rest is on its list.
ReplayedIsCurrent ==
    phase = "recovering" =>
        \A p \in PageId : IF p \in todo THEN Logged(p)
                          ELSE Logged(p) => file[p] = LatestImage(p)

\* The state of a page callers were told is on disk is its last log record.
DoneIsLogged ==
    \A p \in PageId : done[p] = IF Logged(p) THEN LatestImage(p).body ELSE NotDone

\* The inductive invariant of the storage engine: what DiskManager, WALManager
\* and BufferPool believe of each other, through recovery and every crash.
StorageInv ==
    /\ StorageTypeOK
    /\ LogShape
    /\ LsnIsPosition
    /\ WriteAhead
    /\ FileSizeCovers
    /\ FramesAreAccountedFor
    /\ GuardsArePins
    /\ NextPageIdIsFresh
    /\ ReplayedIsCurrent
    /\ CacheIsCurrent
    /\ DoneIsLogged

-----------------------------------------------------------------------------

\* The engine implements the store of pages of PageStore: a page is stored
\* as its latest log record says, and the shared buffer of a pinned page is
\* the frame it is cached in.
PinnedPage(p) == \E g \in HeldGuards : guard[g].page_id = p

StoredBodies ==
    [p \in PageId |-> IF Logged(p) THEN LatestImage(p).body ELSE NotDone]

BufferBodies ==
    [p \in PageId |-> IF PinnedPage(p) THEN frames[page_table[p]].page.body ELSE NotDone]

HeldPages ==
    [g \in Guards |-> IF guard[g] = NoGuard THEN NotDone ELSE guard[g].page_id]

Store == INSTANCE PageStore WITH
    Page <- PageId,
    Handle <- Guards,
    Body <- 0 .. MaxBody,
    Nothing <- NotDone,
    stored <- StoredBodies,
    buffer <- BufferBodies,
    holds <- HeldPages

\* Behind the cache, the log, the data file and recovery, callers have a
\* page store without any of them (BufferPool's contract: "a mutation is
\* never considered done until it is safely logged").
ImplementsPageStore == Store!StoreSpec
=============================================================================
