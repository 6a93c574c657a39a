--------------------------- MODULE StorageLemmas ---------------------------
(***************************************************************************)
(* Lemmas about the operators the storage engine is built from: what the   *)
(* log says of a page, what pins mean, and what FindVictimFrame and the    *)
(* LRU list do to the bookkeeping of frames.                               *)
(***************************************************************************)
EXTENDS Storage, CollectionLemmas, FiniteSetTheorems

-----------------------------------------------------------------------------
(* The log. *)

\* Of the first n records of a log whose sequence numbers are positions,
\* recovery picks the last one of a page.
LEMMA LatestIsLast ==
  ASSUME NEW log \in Seq(Record \cup {Torn}), NEW n \in 0 .. Len(log), NEW p,
         \A i \in 1 .. n : log[i] # Torn /\ log[i].lsn = i - 1,
         RecordsIn(log, n, p) # {}
  PROVE  /\ LatestIn(log, n, p) \in RecordsIn(log, n, p)
         /\ LatestIn(log, n, p) \in 1 .. n
         /\ log[LatestIn(log, n, p)] \in Record
         /\ log[LatestIn(log, n, p)].page \in Image
         /\ \A i \in RecordsIn(log, n, p) : i <= LatestIn(log, n, p)
<1>1. RecordsIn(log, n, p) \in SUBSET (0 .. n) /\ n \in Nat
  BY DEF RecordsIn
<1>3. PICK m \in RecordsIn(log, n, p) : \A j \in RecordsIn(log, n, p) : m >= j
  BY <1>1, MaxOfBounded
<1>4. \A i \in RecordsIn(log, n, p) : /\ i \in 1 .. n /\ i \in Int
                                      /\ log[i] \in Record /\ log[i].lsn = i - 1
  BY DEF RecordsIn
<1>5. \A j \in RecordsIn(log, n, p) : \/ log[j].lsn < log[m].lsn
                                      \/ log[j].lsn = log[m].lsn /\ m <= j
  BY <1>3, <1>4
<1> DEFINE k == LatestIn(log, n, p)
<1>6. /\ k \in RecordsIn(log, n, p)
      /\ \A j \in RecordsIn(log, n, p) : \/ log[j].lsn < log[k].lsn
                                         \/ log[j].lsn = log[k].lsn /\ k <= j
  BY <1>3, <1>5 DEF LatestIn
<1> HIDE DEF k
<1>7. ASSUME NEW j \in RecordsIn(log, n, p) PROVE j <= k
  <2>1. j \in Int /\ k \in Int /\ log[j].lsn = j - 1 /\ log[k].lsn = k - 1
    BY <1>4, <1>6
  <2>2. log[j].lsn < log[k].lsn \/ log[j].lsn = log[k].lsn
    BY <1>6
  <2>3. j - 1 < k - 1 \/ j - 1 = k - 1
    BY <2>1, <2>2
  <2> QED
    BY <2>1, <2>3
<1>8. k \in 1 .. n /\ log[k] \in Record /\ log[k].page \in Image
  BY <1>4, <1>6 DEF Record
<1> QED
  BY <1>6, <1>7, <1>8 DEF k

\* The invariant's conjuncts about the log, in the form the lemma needs.
LEMMA ValidRecords ==
  ASSUME WalTypeOK, LogShape, LsnIsPosition
  PROVE  /\ wal \in Seq(Record \cup {Torn})
         /\ next_offset \in 0 .. Len(wal) /\ Len(wal) \in Nat
         /\ \A i \in 1 .. next_offset :
               wal[i] # Torn /\ wal[i].lsn = i - 1 /\ wal[i] \in Record
BY DEF WalTypeOK, LogShape, LsnIsPosition

\* The image recovery would write for a logged page is a page image.
LEMMA LatestImageType ==
  ASSUME WalTypeOK, LogShape, LsnIsPosition, NEW p \in PageId, Logged(p)
  PROVE  LatestImage(p) \in Image
BY ValidRecords, LatestIsLast DEF Logged, LatestImage

\* If a step leaves the valid records alone, it leaves alone what they say.
LEMMA SameRecords ==
  ASSUME WalTypeOK, LogShape, LsnIsPosition,
         wal' \in Seq(Record \cup {Torn}), next_offset' = next_offset,
         next_offset \in 0 .. Len(wal'),
         \A i \in 1 .. next_offset : wal'[i] = wal[i],
         NEW p \in PageId
  PROVE  /\ Logged(p)' <=> Logged(p)
         /\ Logged(p) => LatestImage(p)' = LatestImage(p)
<1> DEFINE n == next_offset
<1>1. RecordsIn(wal', n, p) = RecordsIn(wal, n, p)
  BY DEF RecordsIn
<1>2. Logged(p)' <=> Logged(p)
  BY <1>1 DEF Logged
<1>3. ASSUME Logged(p) PROVE LatestImage(p)' = LatestImage(p)
  <2>0. /\ wal \in Seq(Record \cup {Torn}) /\ n \in 0 .. Len(wal) /\ n \in 0 .. Len(wal')
        /\ \A i \in 1 .. n : wal[i] # Torn /\ wal[i].lsn = i - 1
        /\ \A i \in 1 .. n : wal'[i] # Torn /\ wal'[i].lsn = i - 1
    BY ValidRecords
  <2>1. /\ LatestIn(wal, n, p) \in RecordsIn(wal, n, p)
        /\ LatestIn(wal, n, p) \in 1 .. n
        /\ \A i \in RecordsIn(wal, n, p) : i <= LatestIn(wal, n, p)
    BY <1>3, <2>0, LatestIsLast DEF Logged
  <2>2. /\ LatestIn(wal', n, p) \in RecordsIn(wal', n, p)
        /\ LatestIn(wal', n, p) \in 1 .. n
        /\ \A i \in RecordsIn(wal', n, p) : i <= LatestIn(wal', n, p)
    BY <1>1, <1>3, <2>0, LatestIsLast DEF Logged
  <2>3. LatestIn(wal', n, p) = LatestIn(wal, n, p)
    BY <1>1, <2>1, <2>2
  <2> QED
    BY <2>1, <2>3 DEF LatestImage
<1> QED
  BY <1>2, <1>3

\* After AppendRecord the new record is the latest one of its page, and no
\* other page is affected.
LEMMA RecordAppended ==
  ASSUME WalTypeOK, LogShape, LsnIsPosition, phase # "closed",
         NEW p \in PageId, NEW image \in Image, AppendRecord(p, image)
  PROVE  /\ wal' \in Seq(Record \cup {Torn})
         /\ Len(wal') = Len(wal) + 1 /\ next_offset' = Len(wal') /\ next_lsn' = Len(wal')
         /\ next_lsn = Len(wal) /\ next_offset = Len(wal)
         /\ Stamped(image) \in Image
         /\ wal'[Len(wal')] = [lsn |-> next_lsn, page_id |-> p, page |-> Stamped(image)]
         /\ \A i \in 1 .. Len(wal) : wal'[i] = wal[i]
         /\ Logged(p)' /\ LatestImage(p)' = Stamped(image)
         /\ \A q \in PageId \ {p} :
               /\ Logged(q)' <=> Logged(q)
               /\ Logged(q) => LatestImage(q)' = LatestImage(q)
<1> DEFINE n == Len(wal)
           rec == [lsn |-> next_lsn, page_id |-> p, page |-> Stamped(image)]
<1>1. /\ wal \in Seq(Record \cup {Torn}) /\ n \in Nat
      /\ next_offset = n /\ next_lsn = n
      /\ \A i \in 1 .. n : wal[i] # Torn /\ wal[i].lsn = i - 1
  BY ValidRecords DEF LogShape
<1>2. Stamped(image) \in Image
  BY <1>1 DEF Stamped, Image
<1>3. rec \in Record
  BY <1>1, <1>2 DEF Record
<1>4. wal' = Append(wal, rec)
  BY <1>1, SubSeqFull DEF AppendRecord
<1>5. /\ wal' \in Seq(Record \cup {Torn}) /\ Len(wal') = n + 1
      /\ wal'[n + 1] = rec /\ \A i \in 1 .. n : wal'[i] = wal[i]
      /\ next_offset' = n + 1 /\ next_lsn' = n + 1
  BY <1>1, <1>3, <1>4, AppendProperties DEF AppendRecord
<1>6. rec # Torn /\ rec.lsn = n /\ rec.page_id = p
  BY <1>1, <1>3, TornAssumption
<1>7. \A i \in 1 .. n + 1 : wal'[i] # Torn /\ wal'[i].lsn = i - 1
  BY <1>1, <1>5, <1>6
<1>8. Logged(p)' /\ LatestImage(p)' = Stamped(image)
  <2>1. n + 1 \in RecordsIn(wal', n + 1, p)
    BY <1>1, <1>5, <1>6 DEF RecordsIn
  <2>2. /\ LatestIn(wal', n + 1, p) \in 1 .. n + 1
        /\ n + 1 <= LatestIn(wal', n + 1, p)
    BY <1>1, <1>5, <1>7, <2>1, LatestIsLast
  <2>3. LatestIn(wal', n + 1, p) = n + 1
    BY <1>1, <2>2
  <2> QED
    BY <1>5, <2>1, <2>3 DEF Logged, LatestImage
<1>9. ASSUME NEW q \in PageId \ {p}
      PROVE  /\ Logged(q)' <=> Logged(q)
             /\ Logged(q) => LatestImage(q)' = LatestImage(q)
  <2>1. RecordsIn(wal', n + 1, q) = RecordsIn(wal, n, q)
    BY <1>1, <1>5, <1>6 DEF RecordsIn
  <2>2. Logged(q)' <=> Logged(q)
    BY <1>1, <1>5, <2>1 DEF Logged
  <2>3. ASSUME Logged(q) PROVE LatestImage(q)' = LatestImage(q)
    <3>1. RecordsIn(wal, n, q) # {}
      BY <1>1, <2>3 DEF Logged
    <3>2. /\ LatestIn(wal, n, q) \in RecordsIn(wal, n, q)
          /\ LatestIn(wal, n, q) \in 1 .. n
          /\ \A i \in RecordsIn(wal, n, q) : i <= LatestIn(wal, n, q)
      BY <1>1, <3>1, LatestIsLast
    <3>3. /\ LatestIn(wal', n + 1, q) \in RecordsIn(wal', n + 1, q)
          /\ LatestIn(wal', n + 1, q) \in 1 .. n + 1
          /\ \A i \in RecordsIn(wal', n + 1, q) : i <= LatestIn(wal', n + 1, q)
      BY <1>1, <1>5, <1>7, <2>1, <3>1, LatestIsLast
    <3>4. LatestIn(wal', n + 1, q) = LatestIn(wal, n, q)
      BY <2>1, <3>2, <3>3
    <3> QED
      BY <1>1, <1>5, <3>2, <3>4 DEF LatestImage
  <2> QED
    BY <2>2, <2>3
<1> QED
  BY <1>1, <1>2, <1>5, <1>8, <1>9

-----------------------------------------------------------------------------
(* Pins. *)

\* A frame has finitely many guards, so that they can be counted.
LEMMA GuardsOnFinite ==
  ASSUME NEW f
  PROVE  IsFiniteSet(GuardsOn(f)) /\ Cardinality(GuardsOn(f)) \in Nat
<1>1. GuardsOn(f) \subseteq Guards
  BY DEF GuardsOn, HeldGuards
<1> QED
  BY <1>1, GuardsAssumption, FS_Subset, FS_CardinalityType

\* A frame with pin count 0 is in nobody's hands.
LEMMA UnpinnedIsFree ==
  ASSUME GuardsArePins, phase = "running", NEW f \in FrameId, frames[f].pin_count = 0,
         NEW g \in HeldGuards
  PROVE  guard[g].frame # f
<1>1. Cardinality(GuardsOn(f)) = 0
  BY DEF GuardsArePins
<1>2. GuardsOn(f) = {}
  BY <1>1, GuardsOnFinite, FS_EmptySet
<1> QED
  BY <1>2 DEF GuardsOn

-----------------------------------------------------------------------------
(* FindVictimFrame. *)

\* What FindVictimFrame's choice means: the frame is pinned by nobody, and
\* the page it held, if any, is as it was logged.
LEMMA VictimIsReplaceable ==
  ASSUME StorageInv, phase = "running", NEW v, v = VictimFrame, v # NoFrame
  PROVE  /\ v \in FrameId
         /\ \A g \in HeldGuards : guard[g].frame # v
         /\ \A p \in PageId : page_table[p] = v =>
               /\ free_list = << >>
               /\ frames[v].page_id = p
               /\ Logged(p)
               /\ frames[v].page = LatestImage(p)
               /\ ~frames[v].dirty => file[p] = LatestImage(p)
         /\ free_list = << >> => /\ frames[v].page_id \in PageId
                                 /\ page_table[frames[v].page_id] = v
                                 /\ v \in Range(lru_list)
<1> USE DEF StorageInv
<1>1. CASE free_list # << >>
  <2>0. free_list \in Seq(FrameId) /\ IsInjective(free_list)
    BY DEF StorageTypeOK, PoolTypeOK, FramesAreAccountedFor
  <2>1. v \in FrameId /\ v \in Range(free_list)
    BY <1>1, <2>0, FrontElements DEF VictimFrame
  <2>2. \A p \in PageId : page_table[p] # v
    BY <2>1 DEF FramesAreAccountedFor
  <2>3. \A g \in HeldGuards : guard[g].page_id \in PageId
    BY DEF HeldGuards, StorageTypeOK, PoolTypeOK, Handle
  <2>4. \A g \in HeldGuards : guard[g].frame # v
    BY <2>2, <2>3 DEF GuardsArePins
  <2> QED
    BY <1>1, <2>1, <2>2, <2>4
<1>2. CASE free_list = << >>
  <2> DEFINE m == Max(Evictable)
  <2>1. Evictable # {} /\ v = lru_list[m]
    BY <1>2 DEF VictimFrame
  <2>2. Len(lru_list) \in Nat /\ Evictable \in SUBSET (0 .. Len(lru_list))
    BY DEF Evictable, StorageTypeOK, PoolTypeOK
  <2>3. m \in Evictable
    BY <2>1, <2>2, MaxOfBounded
  <2> HIDE DEF m
  <2>4. /\ m \in 1 .. Len(lru_list) /\ v \in FrameId /\ v \in Range(lru_list)
        /\ frames[v].pin_count = 0
    BY <2>1, <2>3, RangeElements DEF Evictable, StorageTypeOK, PoolTypeOK
  <2>5. frames[v].page_id \in PageId /\ page_table[frames[v].page_id] = v
    BY <2>1, <2>4 DEF FramesAreAccountedFor
  <2>6. \A g \in HeldGuards : guard[g].frame # v
    BY <2>4, UnpinnedIsFree
  <2>7. ASSUME NEW p \in PageId, page_table[p] = v
        PROVE  /\ frames[v].page_id = p
               /\ Logged(p)
               /\ frames[v].page = LatestImage(p)
               /\ ~frames[v].dirty => file[p] = LatestImage(p)
    <3>1. Cached(p)
      BY <2>4, <2>7, NoFrameAssumption DEF Cached
    <3>2. frames[v].page_id = p
      BY <2>7, <3>1 DEF FramesAreAccountedFor
    <3> QED
      BY <2>4, <2>7, <3>1, <3>2 DEF CacheIsCurrent
  <2> QED
    BY <1>2, <2>1, <2>4, <2>5, <2>6, <2>7
<1> QED
  BY <1>1, <1>2

\* FindVictimFrame's effect on the bookkeeping.
LEMMA VictimTaken ==
  ASSUME StorageInv, phase = "running", NEW v, v = VictimFrame, v # NoFrame
  PROVE  /\ TableAfter(v) \in [PageId -> FrameId \cup {NoFrame}]
         /\ \A p \in PageId : TableAfter(v)[p] =
               IF page_table[p] = v THEN NoFrame ELSE page_table[p]
         /\ FreeListAfter \in Seq(FrameId)
         /\ IsInjective(FreeListAfter)
         /\ v \notin Range(FreeListAfter)
         /\ \A p \in PageId : page_table[p] \notin Range(FreeListAfter)
         /\ LruAfter(v) \in Seq(FrameId)
         /\ IsInjective(LruAfter(v))
         /\ Range(LruAfter(v)) = Range(lru_list) \ {v}
<1> USE DEF StorageInv
<1>0. /\ v \in FrameId
      /\ page_table \in [PageId -> FrameId \cup {NoFrame}]
      /\ lru_list \in Seq(FrameId) /\ free_list \in Seq(FrameId)
      /\ IsInjective(lru_list) /\ IsInjective(free_list)
      /\ \A p \in PageId : page_table[p] \notin Range(free_list)
  BY VictimIsReplaceable DEF StorageTypeOK, PoolTypeOK, FramesAreAccountedFor
<1>1. CASE free_list # << >>
  <2>1. /\ v = Last(free_list) /\ FreeListAfter = Front(free_list)
        /\ TableAfter(v) = page_table /\ LruAfter(v) = lru_list
    BY <1>1 DEF VictimFrame, FreeListAfter, TableAfter, LruAfter
  <2>2. /\ v \in Range(free_list)
        /\ FreeListAfter \in Seq(FrameId) /\ IsInjective(FreeListAfter)
        /\ Range(FreeListAfter) = Range(free_list) \ {v}
    BY <1>0, <1>1, <2>1, FrontElements
  <2>3. \A p \in PageId : page_table[p] # v
    BY <1>0, <2>2
  <2>4. v \notin Range(lru_list)
    BY <2>3 DEF FramesAreAccountedFor
  <2> QED
    BY <1>0, <2>1, <2>2, <2>3, <2>4
<1>2. CASE free_list = << >>
  <2>1. frames[v].page_id \in PageId /\ page_table[frames[v].page_id] = v
    BY <1>2, VictimIsReplaceable
  <2>2. \A p \in PageId : page_table[p] = v => p = frames[v].page_id
    BY VictimIsReplaceable
  <2>3. TableAfter(v) = [page_table EXCEPT ![frames[v].page_id] = NoFrame]
    BY <1>2 DEF TableAfter
  <2>4. /\ TableAfter(v) \in [PageId -> FrameId \cup {NoFrame}]
        /\ \A p \in PageId : TableAfter(v)[p] =
              IF page_table[p] = v THEN NoFrame ELSE page_table[p]
    BY <1>0, <2>1, <2>2, <2>3
  <2>5. FreeListAfter = free_list /\ v \notin Range(free_list)
    BY <1>0, <2>1, <1>2 DEF FreeListAfter
  <2>6. LruAfter(v) = RemoveFirst(lru_list, v)
    BY <1>2 DEF LruAfter, RemoveFromLRU
  <2>7. /\ RemoveFirst(lru_list, v) \in Seq(FrameId)
        /\ IsInjective(RemoveFirst(lru_list, v))
        /\ Range(RemoveFirst(lru_list, v)) = Range(lru_list) \ {v}
    BY <1>0, RemoveFirstElements
  <2> QED
    BY <1>0, <2>4, <2>5, <2>6, <2>7
<1> QED
  BY <1>1, <1>2

\* The image recovery would restore is the after-image of a valid record.
LEMMA LatestIsLogged ==
  ASSUME StorageInv, NEW p \in PageId, Logged(p)
  PROVE  \E i \in 1 .. Len(wal) : /\ wal[i] # Torn
                                  /\ wal[i].page_id = p
                                  /\ wal[i].page = LatestImage(p)
<1> USE DEF StorageInv
<1>1. /\ LatestIn(wal, next_offset, p) \in RecordsIn(wal, next_offset, p)
      /\ LatestIn(wal, next_offset, p) \in 1 .. next_offset
  BY ValidRecords, LatestIsLast DEF Logged, StorageTypeOK
<1> QED
  BY <1>1, ValidRecords DEF RecordsIn, LatestImage, StorageTypeOK

\* Writing a page as the log has it respects the write-ahead rule.
LEMMA LoggedPageWritten ==
  ASSUME StorageInv, UNCHANGED walVars,
         NEW q \in PageId, Logged(q), WritePage(q, LatestImage(q))
  PROVE  /\ file' \in [PageId -> Image \cup {Corrupt}]
         /\ durable' \in [PageId -> SUBSET (Image \cup {Corrupt})]
         /\ file_size' \in 0 .. MaxPages
         /\ WriteAhead'
         /\ FileSizeCovers'
         /\ \A p \in PageId : file'[p] = IF p = q THEN LatestImage(p) ELSE file[p]
<1> USE DEF StorageInv
<1> DEFINE image == LatestImage(q)
<1>0. /\ file \in [PageId -> Image \cup {Corrupt}]
      /\ durable \in [PageId -> SUBSET (Image \cup {Corrupt})]
      /\ file_size \in 0 .. MaxPages /\ MaxPages \in Nat
      /\ WalTypeOK
      /\ wal' = wal /\ next_offset' = next_offset
  BY MaxPagesAssumption DEF StorageTypeOK, DiskTypeOK, walVars
<1>1. image \in Image
  BY <1>0, LatestImageType
<1>2. /\ file' = [file EXCEPT ![q] = image]
      /\ durable' = [durable EXCEPT ![q] = @ \cup {image, Corrupt}]
      /\ file_size' = IF q < file_size THEN file_size ELSE q + 1
  BY DEF WritePage
<1>3. q \in Nat /\ q < MaxPages
  BY <1>0 DEF PageId
<1>4. file' \in [PageId -> Image \cup {Corrupt}] /\ file_size' \in 0 .. MaxPages
  BY <1>0, <1>1, <1>2, <1>3
<1>5. durable' \in [PageId -> SUBSET (Image \cup {Corrupt})]
  BY <1>0, <1>1, <1>2
<1>6. \E i \in 1 .. Len(wal) : wal[i] # Torn /\ wal[i].page_id = q /\ wal[i].page = image
  BY LatestIsLogged
<1>7. \A p \in PageId : file'[p] = IF p = q THEN LatestImage(p) ELSE file[p]
  BY <1>0, <1>2
<1> HIDE DEF image
<1>8. WriteAhead'
  <2> SUFFICES ASSUME NEW p \in PageId,
                      NEW content \in durable'[p] \cup {file'[p]}, content # Corrupt
               PROVE  \E i \in 1 .. Len(wal) : /\ wal[i] # Torn
                                               /\ wal[i].page_id = p
                                               /\ wal[i].page = content
    BY <1>0 DEF WriteAhead
  <2>1. CASE p = q /\ content = image
    BY <1>6, <2>1
  <2>2. CASE ~(p = q /\ content = image)
    <3>1. content \in durable[p] \cup {file[p]}
      BY <1>0, <1>2, <2>2
    <3> QED
      BY <3>1 DEF WriteAhead
  <2> QED
    BY <2>1, <2>2
<1>9. FileSizeCovers'
  BY <1>0, <1>2, <1>3 DEF FileSizeCovers, PageId
<1> QED
  BY <1>4, <1>5, <1>7, <1>8, <1>9

\* The write-back of the victim leaves the page it held in the file as it
\* was logged and touches no other page.
LEMMA VictimWrittenBack ==
  ASSUME StorageInv, phase = "running", NEW v, v = VictimFrame, v # NoFrame,
         WriteBack(v), UNCHANGED walVars
  PROVE  /\ file' \in [PageId -> Image \cup {Corrupt}]
         /\ durable' \in [PageId -> SUBSET (Image \cup {Corrupt})]
         /\ file_size' \in 0 .. MaxPages
         /\ WriteAhead'
         /\ FileSizeCovers'
         /\ \A p \in PageId :
               file'[p] = IF page_table[p] = v THEN LatestImage(p) ELSE file[p]
<1>1. CASE free_list = << >> /\ frames[v].dirty
  <2> DEFINE q == frames[v].page_id
  <2>1. /\ q \in PageId /\ page_table[q] = v /\ Logged(q)
        /\ frames[v].page = LatestImage(q)
        /\ \A p \in PageId : page_table[p] = v => p = q
    BY <1>1, VictimIsReplaceable
  <2>2. WritePage(q, LatestImage(q))
    BY <1>1, <2>1 DEF WriteBack
  <2> HIDE DEF q
  <2>3. /\ file' \in [PageId -> Image \cup {Corrupt}]
        /\ durable' \in [PageId -> SUBSET (Image \cup {Corrupt})]
        /\ file_size' \in 0 .. MaxPages
        /\ WriteAhead'
        /\ FileSizeCovers'
        /\ \A p \in PageId : file'[p] = IF p = q THEN LatestImage(p) ELSE file[p]
    BY <2>1, <2>2, LoggedPageWritten
  <2> QED
    BY <2>1, <2>3
<1>2. CASE ~(free_list = << >> /\ frames[v].dirty)
  <2>0. /\ file \in [PageId -> Image \cup {Corrupt}]
        /\ durable \in [PageId -> SUBSET (Image \cup {Corrupt})]
        /\ file_size \in 0 .. MaxPages
        /\ wal' = wal
    BY DEF StorageInv, StorageTypeOK, DiskTypeOK, walVars
  <2>1. file' = file /\ durable' = durable /\ file_size' = file_size
    BY <1>2 DEF WriteBack
  <2>2. \A p \in PageId : page_table[p] = v => file[p] = LatestImage(p)
    BY <1>2, VictimIsReplaceable
  <2> QED
    BY <2>0, <2>1, <2>2 DEF StorageInv, WriteAhead, FileSizeCovers
<1> QED
  BY <1>1, <1>2

\* Moving a frame to the front of the LRU list.
LEMMA Touched ==
  ASSUME NEW lru \in Seq(FrameId), IsInjective(lru), NEW f \in FrameId
  PROVE  /\ TouchLRU(lru, f) \in Seq(FrameId)
         /\ IsInjective(TouchLRU(lru, f))
         /\ Range(TouchLRU(lru, f)) = Range(lru) \cup {f}
<1> DEFINE r == RemoveFirst(lru, f)
<1>1. r \in Seq(FrameId) /\ IsInjective(r) /\ Range(r) = Range(lru) \ {f}
  BY RemoveFirstElements
<1>2. TouchLRU(lru, f) = <<f>> \o r
  BY DEF TouchLRU, RemoveFromLRU
<1> HIDE DEF r
<1>3. /\ <<f>> \o r \in Seq(FrameId)
      /\ IsInjective(<<f>> \o r)
      /\ Range(<<f>> \o r) = Range(r) \cup {f}
  BY <1>1, PrependElements
<1> QED
  BY <1>1, <1>2, <1>3
-----------------------------------------------------------------------------
(* Steps that leave part of the state alone. *)

\* A step that does not touch the log.
LEMMA LogUnchanged ==
  ASSUME StorageInv, UNCHANGED walVars, phase # "closed" \/ phase' = "closed"
  PROVE  /\ WalTypeOK' /\ LogShape' /\ LsnIsPosition'
         /\ wal' = wal /\ next_offset' = next_offset /\ next_lsn' = next_lsn
         /\ \A p \in PageId : /\ Logged(p)' <=> Logged(p)
                              /\ LatestImage(p)' = LatestImage(p)
         /\ done' = done => DoneIsLogged'
<1>1. wal' = wal /\ next_offset' = next_offset /\ next_lsn' = next_lsn
  BY DEF walVars
<1>2. WalTypeOK' /\ LogShape' /\ LsnIsPosition'
  BY <1>1 DEF StorageInv, StorageTypeOK, WalTypeOK, LogShape, LsnIsPosition
<1>3. \A p \in PageId : /\ Logged(p)' <=> Logged(p)
                        /\ LatestImage(p)' = LatestImage(p)
  BY <1>1 DEF Logged, LatestImage
<1>4. done' = done => DoneIsLogged'
  BY <1>3 DEF StorageInv, DoneIsLogged
<1> QED
  BY <1>1, <1>2, <1>3, <1>4

\* A content of the file, now or after a power loss, was logged.
LEMMA UnloggedIsCorrupt ==
  ASSUME StorageInv, NEW p \in PageId, ~Logged(p)
  PROVE  file[p] = Corrupt
<1>1. ASSUME file[p] # Corrupt PROVE FALSE
  <2>1. PICK i \in 1 .. Len(wal) : wal[i] # Torn /\ wal[i].page_id = p
    BY <1>1 DEF StorageInv, WriteAhead
  <2>2. i \in 1 .. next_offset
    BY <2>1 DEF StorageInv, StorageTypeOK, WalTypeOK, LogShape
  <2> QED
    BY <2>1, <2>2 DEF Logged, RecordsIn
<1> QED
  BY <1>1

\* A guard is taken.
LEMMA GuardTaken ==
  ASSUME PoolTypeOK, NEW g \in Guards, guard[g] = NoGuard,
         NEW p \in PageId, NEW f \in FrameId,
         guard' = [guard EXCEPT ![g] = [page_id |-> p, frame |-> f]]
  PROVE  /\ guard' \in [Guards -> Handle \cup {NoGuard}]
         /\ HeldGuards' = HeldGuards \cup {g} /\ g \notin HeldGuards
         /\ guard'[g].page_id = p /\ guard'[g].frame = f
         /\ \A h \in HeldGuards : guard'[h] = guard[h]
         /\ Cardinality(GuardsOn(f)') = Cardinality(GuardsOn(f)) + 1
         /\ \A e \in FrameId \ {f} : GuardsOn(e)' = GuardsOn(e)
<1> DEFINE h == [page_id |-> p, frame |-> f]
<1>1. h \in Handle /\ h # NoGuard /\ h.page_id = p /\ h.frame = f
  BY NoGuardAssumption DEF Handle
<1> HIDE DEF h
<1>2. guard \in [Guards -> Handle \cup {NoGuard}] /\ guard' = [guard EXCEPT ![g] = h]
  BY DEF PoolTypeOK, h
<1>3. guard' \in [Guards -> Handle \cup {NoGuard}] /\ guard'[g] = h
  BY <1>1, <1>2
<1>4. HeldGuards' = HeldGuards \cup {g} /\ g \notin HeldGuards
  BY <1>1, <1>2 DEF HeldGuards
<1>5. \A k \in HeldGuards : guard'[k] = guard[k]
  BY <1>2 DEF HeldGuards
<1>6. GuardsOn(f)' = GuardsOn(f) \cup {g} /\ g \notin GuardsOn(f)
  BY <1>1, <1>3, <1>4, <1>5 DEF GuardsOn
<1>7. Cardinality(GuardsOn(f)') = Cardinality(GuardsOn(f)) + 1
  BY <1>6, GuardsOnFinite, FS_AddElement
<1>8. \A e \in FrameId \ {f} : GuardsOn(e)' = GuardsOn(e)
  BY <1>1, <1>3, <1>4, <1>5 DEF GuardsOn
<1> QED
  BY <1>1, <1>3, <1>4, <1>5, <1>7, <1>8

\* A guard is given up.
LEMMA GuardDropped ==
  ASSUME PoolTypeOK, NEW g \in Guards, guard[g] # NoGuard,
         NEW f, f = guard[g].frame,
         guard' = [guard EXCEPT ![g] = NoGuard]
  PROVE  /\ guard' \in [Guards -> Handle \cup {NoGuard}]
         /\ HeldGuards' = HeldGuards \ {g}
         /\ \A h \in HeldGuards' : guard'[h] = guard[h] /\ h \in HeldGuards
         /\ Cardinality(GuardsOn(f)) \in Nat \ {0}
         /\ Cardinality(GuardsOn(f)') = Cardinality(GuardsOn(f)) - 1
         /\ \A e \in FrameId \ {f} : GuardsOn(e)' = GuardsOn(e)
<1>1. guard \in [Guards -> Handle \cup {NoGuard}]
  BY DEF PoolTypeOK
<1>2. guard' \in [Guards -> Handle \cup {NoGuard}] /\ HeldGuards' = HeldGuards \ {g}
  BY <1>1 DEF HeldGuards
<1>3. \A h \in HeldGuards' : guard'[h] = guard[h] /\ h \in HeldGuards
  BY <1>1, <1>2 DEF HeldGuards
<1>4. GuardsOn(f)' = GuardsOn(f) \ {g} /\ g \in GuardsOn(f)
  BY <1>2, <1>3 DEF GuardsOn, HeldGuards
<1>5. Cardinality(GuardsOn(f)') = Cardinality(GuardsOn(f)) - 1
  BY <1>4, GuardsOnFinite, FS_RemoveElement, ZenonT(60)
<1>6. Cardinality(GuardsOn(f)) # 0
  BY <1>4, GuardsOnFinite, FS_EmptySet
<1>7. \A e \in FrameId \ {f} : GuardsOn(e)' = GuardsOn(e)
  BY <1>2, <1>3 DEF GuardsOn, HeldGuards
<1> QED
  BY <1>2, <1>3, <1>5, <1>6, <1>7, GuardsOnFinite

-----------------------------------------------------------------------------

\* Loading an uncached page into the victim: the bookkeeping stays right,
\* and of the other cached pages only the victim's is affected.
LEMMA Installed ==
  ASSUME StorageInv, phase = "running", phase' = "running",
         NEW v, v = VictimFrame, v # NoFrame,
         NEW g \in Guards, guard[g] = NoGuard,
         NEW p \in PageId, ~Cached(p),
         NEW image \in Image, NEW isDirty \in BOOLEAN,
         Install(g, v, p, image, isDirty)
  PROVE  /\ PoolTypeOK'
         /\ FramesAreAccountedFor'
         /\ GuardsArePins'
         /\ page_table'[p] = v /\ v \in FrameId
         /\ frames'[v] = [page |-> image, page_id |-> p, pin_count |-> 1, dirty |-> isDirty]
         /\ \A q \in PageId \ {p} : /\ page_table[q] = v => page_table'[q] = NoFrame
                                    /\ page_table[q] # v => page_table'[q] = page_table[q]
         /\ \A f \in FrameId \ {v} : frames'[f] = frames[f]
<1> USE DEF StorageInv
<1> DEFINE new == [page |-> image, page_id |-> p, pin_count |-> 1, dirty |-> isDirty]
<1>1. /\ frames \in [FrameId -> Frame]
      /\ page_table \in [PageId -> FrameId \cup {NoFrame}]
      /\ PoolTypeOK /\ v \in FrameId
      /\ \A h \in HeldGuards : guard[h].frame # v
  BY VictimIsReplaceable DEF StorageTypeOK, PoolTypeOK
<1>2. /\ TableAfter(v) \in [PageId -> FrameId \cup {NoFrame}]
      /\ \A q \in PageId : TableAfter(v)[q] =
            IF page_table[q] = v THEN NoFrame ELSE page_table[q]
      /\ FreeListAfter \in Seq(FrameId)
      /\ IsInjective(FreeListAfter)
      /\ v \notin Range(FreeListAfter)
      /\ \A q \in PageId : page_table[q] \notin Range(FreeListAfter)
      /\ LruAfter(v) \in Seq(FrameId)
      /\ IsInjective(LruAfter(v))
      /\ Range(LruAfter(v)) = Range(lru_list) \ {v}
  BY VictimTaken
<1>3. /\ lru_list' \in Seq(FrameId) /\ IsInjective(lru_list')
      /\ Range(lru_list') = Range(lru_list) \cup {v}
  <2>1. lru_list' = TouchLRU(LruAfter(v), v)
    BY DEF Install
  <2>2. /\ TouchLRU(LruAfter(v), v) \in Seq(FrameId)
        /\ IsInjective(TouchLRU(LruAfter(v), v))
        /\ Range(TouchLRU(LruAfter(v), v)) = Range(LruAfter(v)) \cup {v}
    BY <1>1, <1>2, Touched
  <2> QED
    BY <1>2, <2>1, <2>2
<1>4. /\ free_list' = FreeListAfter
      /\ frames' = [frames EXCEPT ![v] = new]
      /\ page_table' = [TableAfter(v) EXCEPT ![p] = v]
      /\ guard' = [guard EXCEPT ![g] = [page_id |-> p, frame |-> v]]
  BY DEF Install
<1>5. new \in Frame /\ new.page_id = p /\ new.pin_count = 1
  BY DEF Frame
<1> HIDE DEF new
<1>6. /\ frames' \in [FrameId -> Frame] /\ frames'[v] = new
      /\ \A f \in FrameId \ {v} : frames'[f] = frames[f]
  BY <1>1, <1>4, <1>5
<1>7. /\ page_table' \in [PageId -> FrameId \cup {NoFrame}] /\ page_table'[p] = v
      /\ \A q \in PageId \ {p} : /\ page_table[q] = v => page_table'[q] = NoFrame
                                 /\ page_table[q] # v => page_table'[q] = page_table[q]
  BY <1>1, <1>2, <1>4
<1>8. /\ guard' \in [Guards -> Handle \cup {NoGuard}]
      /\ HeldGuards' = HeldGuards \cup {g} /\ g \notin HeldGuards
      /\ guard'[g].page_id = p /\ guard'[g].frame = v
      /\ \A h \in HeldGuards : guard'[h] = guard[h]
      /\ Cardinality(GuardsOn(v)') = Cardinality(GuardsOn(v)) + 1
      /\ \A e \in FrameId \ {v} : GuardsOn(e)' = GuardsOn(e)
  BY <1>1, <1>4, GuardTaken, ZenonT(60)
<1>9. PoolTypeOK'
  BY <1>2, <1>3, <1>4, <1>6, <1>7, <1>8 DEF PoolTypeOK
<1>10. GuardsArePins'
  <2>1. GuardsOn(v) = {}
    BY <1>1 DEF GuardsOn
  <2>2. Cardinality(GuardsOn(v)') = 1
    BY <1>8, <2>1, FS_EmptySet
  <2>3. \A f \in FrameId : frames'[f].pin_count = Cardinality(GuardsOn(f)')
    BY <1>5, <1>6, <1>8, <2>2 DEF GuardsArePins
  <2>4. ASSUME NEW h \in HeldGuards
        PROVE  /\ page_table'[guard'[h].page_id] = guard'[h].frame
               /\ frames'[guard'[h].frame].page_id = guard'[h].page_id
    <3>1. /\ guard'[h] = guard[h] /\ guard[h].frame # v
          /\ guard[h].page_id \in PageId /\ guard[h].frame \in FrameId
      BY <1>1, <1>8 DEF HeldGuards, PoolTypeOK, Handle
    <3>2. page_table[guard[h].page_id] = guard[h].frame
      BY DEF GuardsArePins
    <3>3. guard[h].page_id # p
      BY <3>1, <3>2, NoFrameAssumption DEF Cached
    <3> QED
      BY <1>6, <1>7, <3>1, <3>2, <3>3 DEF GuardsArePins
  <2> QED
    BY <1>5, <1>6, <1>7, <1>8, <2>3, <2>4 DEF GuardsArePins
<1>11. FramesAreAccountedFor'
  <2>1. ASSUME NEW q \in PageId, page_table'[q] # NoFrame
        PROVE  /\ frames'[page_table'[q]].page_id = q
               /\ page_table'[q] \in Range(lru_list')
               /\ page_table'[q] \notin Range(free_list')
    <3>1. CASE q = p
      BY <1>2, <1>3, <1>4, <1>5, <1>6, <1>7, <3>1
    <3>2. CASE q # p
      <4>1. page_table[q] # v /\ page_table'[q] = page_table[q] /\ page_table[q] \in FrameId
        BY <1>1, <1>7, <2>1, <3>2
      <4> QED
        BY <1>2, <1>3, <1>4, <1>6, <2>1, <4>1 DEF FramesAreAccountedFor, Cached
    <3> QED
      BY <3>1, <3>2
  <2>2. NoFrame \notin Range(free_list')
    BY <1>2, <1>4, NoFrameAssumption, RangeElements
  <2>3. ASSUME NEW f \in Range(lru_list')
        PROVE  frames'[f].page_id \in PageId /\ page_table'[frames'[f].page_id] = f
    <3>1. CASE f = v
      BY <1>5, <1>6, <1>7, <3>1
    <3>2. CASE f # v
      <4>1. f \in Range(lru_list) /\ f \in FrameId
        BY <1>3, <3>2, RangeElements
      <4>2. frames'[f] = frames[f] /\ frames[f].page_id \in PageId
            /\ page_table[frames[f].page_id] = f
        BY <1>6, <3>2, <4>1 DEF FramesAreAccountedFor
      <4>3. frames[f].page_id # p
        BY <4>1, <4>2, NoFrameAssumption DEF Cached
      <4> QED
        BY <1>7, <3>2, <4>2, <4>3
    <3> QED
      BY <3>1, <3>2
  <2> QED
    BY <1>2, <1>3, <1>4, <2>1, <2>2, <2>3 DEF FramesAreAccountedFor, Cached
<1> QED
  BY <1>1, <1>6, <1>7, <1>9, <1>10, <1>11 DEF new
=============================================================================
