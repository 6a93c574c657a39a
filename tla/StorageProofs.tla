--------------------------- MODULE StorageProofs ---------------------------
(***************************************************************************)
(* Proof that StorageInv is an invariant of the storage engine when        *)
(* callers do not flush while they hold a guard, and of the properties     *)
(* that follow from it: type correctness, the write-ahead rule, the        *)
(* durability of released pages, and that Storage implements PageStore.    *)
(***************************************************************************)
EXTENDS StorageLemmas

-----------------------------------------------------------------------------
(* The process starts and ends. *)

\* An empty pool: every frame is on the free list, nothing is cached.
LEMMA EmptyPool ==
  /\ AllFrames \in Seq(FrameId)
  /\ IsInjective(AllFrames)
  /\ EmptyFrame \in Frame /\ EmptyFrame.pin_count = 0
<1>1. PoolSize \in Nat
  BY PoolSizeAssumption
<1>2. AllFrames \in Seq(FrameId) /\ DOMAIN AllFrames = 1 .. PoolSize
  BY <1>1 DEF AllFrames, FrameId
<1>3. IsInjective(AllFrames)
  BY <1>1, <1>2 DEF IsInjective, AllFrames
<1>4. EmptyFrame \in Frame /\ EmptyFrame.pin_count = 0
  BY DEF EmptyFrame, Frame, ZeroImage, Image
<1> QED
  BY <1>2, <1>3, <1>4

\* What ConstructPool leaves behind.
LEMMA PoolConstructed ==
  ASSUME ConstructPool
  PROVE  /\ PoolTypeOK'
         /\ FramesAreAccountedFor'
         /\ GuardsArePins'
         /\ \A p \in PageId : ~Cached(p)'
<1>1. PoolTypeOK'
  BY EmptyPool DEF ConstructPool, PoolTypeOK
<1>2. \A p \in PageId : page_table'[p] = NoFrame
  BY DEF ConstructPool
<1>3. lru_list' = << >> /\ Range(<< >>) = {} /\ IsInjective(<< >>)
  BY DEF ConstructPool, Range, IsInjective
<1>4. free_list' = AllFrames /\ NoFrame \notin Range(AllFrames)
  BY EmptyPool, RangeElements, NoFrameAssumption DEF ConstructPool
<1>5. FramesAreAccountedFor'
  BY <1>2, <1>3, <1>4, EmptyPool DEF FramesAreAccountedFor, Cached
<1>6. HeldGuards' = {}
  BY DEF ConstructPool, HeldGuards
<1>7. \A f \in FrameId : frames'[f].pin_count = 0 /\ GuardsOn(f)' = {}
  BY <1>6, EmptyPool DEF ConstructPool, GuardsOn
<1>8. GuardsArePins'
  BY <1>6, <1>7, FS_EmptySet DEF GuardsArePins
<1> QED
  BY <1>1, <1>2, <1>5, <1>8 DEF Cached

\* An empty database file, an empty log and an empty pool satisfy it.
LEMMA InitInv == Init => StorageInv
<1> SUFFICES ASSUME Init PROVE StorageInv
  OBVIOUS
<1> USE DEF Init, DiskInit, WalInit, PoolInit
<1>1. DiskTypeOK
  BY MaxPagesAssumption DEF DiskTypeOK
<1>2. WalTypeOK /\ Len(wal) = 0
  BY DEF WalTypeOK
<1>3. PoolTypeOK
  BY EmptyPool DEF PoolTypeOK
<1>4. StorageTypeOK
  BY <1>1, <1>2, <1>3, MaxCrashesAssumption DEF StorageTypeOK, NotDone
<1>5. LogShape /\ LsnIsPosition
  BY <1>2 DEF LogShape, LsnIsPosition
<1>6. WriteAhead /\ FileSizeCovers
  BY DEF WriteAhead, FileSizeCovers
<1>7. \A p \in PageId : ~Logged(p)
  BY DEF Logged, RecordsIn
<1>8. DoneIsLogged
  BY <1>7 DEF DoneIsLogged
<1>9. /\ FramesAreAccountedFor /\ GuardsArePins /\ NextPageIdIsFresh
      /\ ReplayedIsCurrent /\ CacheIsCurrent
  BY DEF FramesAreAccountedFor, GuardsArePins, NextPageIdIsFresh,
         ReplayedIsCurrent, CacheIsCurrent
<1> QED
  BY <1>4, <1>5, <1>6, <1>8, <1>9 DEF StorageInv

\* The constructor's scan ends where the valid records end.
LEMMA ScanFindsTheEnd ==
  ASSUME WalTypeOK, LogShape
  PROVE  ScanEnd(wal) = next_offset
<1> DEFINE OK(n) == /\ \A i \in 1 .. n : wal[i] # Torn
                    /\ n < Len(wal) => wal[n + 1] = Torn
<1>1. /\ next_offset \in 0 .. Len(wal) /\ Len(wal) \in Nat
      /\ \A i \in 1 .. Len(wal) : i <= next_offset <=> wal[i] # Torn
  BY DEF WalTypeOK, LogShape
<1>2. OK(next_offset)
  <2>1. \A i \in 1 .. next_offset : wal[i] # Torn
    BY <1>1
  <2>2. ASSUME next_offset < Len(wal) PROVE wal[next_offset + 1] = Torn
    <3>1. next_offset + 1 \in 1 .. Len(wal) /\ ~(next_offset + 1 <= next_offset)
      BY <1>1, <2>2
    <3> QED
      BY <1>1, <3>1
  <2> QED
    BY <2>1, <2>2
<1>3. ASSUME NEW n \in 0 .. Len(wal), OK(n) PROVE n = next_offset
  <2>1. CASE n < next_offset
    <3>1. n + 1 \in 1 .. Len(wal) /\ n + 1 <= next_offset /\ n < Len(wal)
      BY <1>1, <2>1
    <3> QED
      BY <1>1, <1>3, <3>1
  <2>2. CASE next_offset < n
    <3>1. next_offset + 1 \in 1 .. n /\ next_offset + 1 \in 1 .. Len(wal)
          /\ ~(next_offset + 1 <= next_offset)
      BY <1>1, <2>2
    <3> QED
      BY <1>1, <1>3, <3>1
  <2> QED
    BY <1>1, <2>1, <2>2
<1> HIDE DEF OK
<1>4. ScanEnd(wal) = CHOOSE n \in 0 .. Len(wal) : OK(n)
  BY DEF ScanEnd, OK
<1> QED
  BY <1>1, <1>2, <1>3, <1>4

\* The truncation in WALManager's constructor keeps the valid records.
LEMMA ScanKeepsRecords ==
  ASSUME StorageInv, OpenWAL
  PROVE  /\ wal' \in Seq(Record \cup {Torn}) /\ Len(wal') = next_offset
         /\ next_offset' = next_offset
         /\ \A i \in 1 .. next_offset : wal'[i] = wal[i]
<1> USE DEF StorageInv
<1> DEFINE n == next_offset
<1>1. /\ wal \in Seq(Record \cup {Torn}) /\ n \in 0 .. Len(wal) /\ Len(wal) \in Nat
      /\ n \in Nat
  BY ValidRecords DEF StorageTypeOK
<1>2. ScanEnd(wal) = n
  BY ScanFindsTheEnd DEF StorageTypeOK
<1>3. wal' = SubSeq(wal, 1, n) /\ next_offset' = n
  BY <1>2 DEF OpenWAL
<1>4. /\ 1 \in Int /\ n \in Int /\ n - 1 + 1 = n
      /\ \A i \in 1 .. n : wal[i] \in Record \cup {Torn} /\ 1 + i - 1 = i
      /\ ~(1 <= n) => n = 0
  BY <1>1
<1> QED
  BY <1>3, <1>4, SubSeqProperties

\* Opening a database: nothing valid is lost, and counting resumes at the
\* position after the last valid record.
LEMMA OpenInv == StorageInv /\ Open => StorageInv'
<1> SUFFICES ASSUME StorageInv, Open PROVE StorageInv'
  OBVIOUS
<1> USE DEF StorageInv
<1> DEFINE n == next_offset
<1>1. /\ wal \in Seq(Record \cup {Torn}) /\ n \in 0 .. Len(wal) /\ Len(wal) \in Nat
      /\ n \in Nat /\ \A i \in 1 .. n : wal[i] # Torn /\ wal[i].lsn = i - 1 /\ wal[i] \in Record
  BY ValidRecords DEF StorageTypeOK
<1>2. ScanEnd(wal) = n
  BY ScanFindsTheEnd DEF StorageTypeOK
<1>3. next_offset' = n
  BY <1>2 DEF Open, OpenWAL
<1>4. /\ wal' \in Seq(Record \cup {Torn}) /\ Len(wal') = n
      /\ \A i \in 1 .. n : wal'[i] = wal[i]
  BY ScanKeepsRecords DEF Open
<1>5. next_lsn' = n
  <2> DEFINE S == {0} \cup {wal[i].lsn + 1 : i \in 1 .. n}
  <2>1. \A i \in 1 .. n : wal[i].lsn + 1 = i
    BY <1>1
  <2>2. S = 0 .. n
    BY <1>1, <2>1
  <2>3. next_lsn' = Max(S)
    BY <1>2 DEF Open, OpenWAL
  <2> HIDE DEF S
  <2>4. n \in S /\ S # {} /\ S \in SUBSET (0 .. n)
    BY <1>1, <2>2, SMTT(30)
  <2>5. Max(S) \in S /\ \A y \in S : Max(S) >= y
    BY <1>1, <2>4, MaxOfBounded
  <2>6. Max(S) \in 0 .. n /\ Max(S) >= n
    BY <2>2, <2>4, <2>5
  <2> QED
    BY <1>1, <2>3, <2>6
<1>6. phase' = "recovering" /\ next_page_id' = file_size
      /\ file' = file /\ durable' = durable /\ file_size' = file_size
      /\ UNCHANGED poolVars /\ crashes' = crashes /\ done' = done
      /\ todo' = {p \in PageId : \E i \in 1 .. n : wal'[i].page_id = p}
  BY <1>3 DEF Open, NextPageIdFromFileSize
<1>7. \A p \in PageId : /\ Logged(p)' <=> Logged(p)
                        /\ Logged(p) => LatestImage(p)' = LatestImage(p)
  BY <1>1, <1>3, <1>4, SameRecords DEF StorageTypeOK
<1>8. WalTypeOK' /\ LogShape' /\ LsnIsPosition'
  <2>1. WalTypeOK'
    BY <1>1, <1>3, <1>4, <1>5 DEF WalTypeOK
  <2>2. LogShape'
    BY <1>1, <1>3, <1>4, <1>5 DEF LogShape
  <2>3. LsnIsPosition'
    <3>1. ASSUME NEW i \in 1 .. n PROVE wal'[i].lsn = i - 1 /\ wal'[i].page.lsn = i - 1
      BY <1>1, <1>4, <3>1, SMTT(30) DEF LsnIsPosition
    <3> QED
      BY <1>1, <1>3, <1>4, <1>5, <3>1 DEF LsnIsPosition
  <2> QED
    BY <2>1, <2>2, <2>3
<1>9. StorageTypeOK'
  BY <1>6, <1>8 DEF StorageTypeOK, DiskTypeOK, PoolTypeOK, poolVars
<1>10. WriteAhead'
  <2> SUFFICES ASSUME NEW p \in PageId,
                      NEW content \in durable[p] \cup {file[p]}, content # Corrupt
               PROVE  \E i \in 1 .. Len(wal') : /\ wal'[i] # Torn
                                                /\ wal'[i].page_id = p
                                                /\ wal'[i].page = content
    BY <1>6 DEF WriteAhead
  <2>1. PICK i \in 1 .. Len(wal) : /\ wal[i] # Torn
                                   /\ wal[i].page_id = p
                                   /\ wal[i].page = content
    BY DEF WriteAhead
  <2>2. i \in 1 .. n
    BY <1>1, <2>1 DEF LogShape
  <2> QED
    BY <1>4, <2>1, <2>2
<1>11. FileSizeCovers'
  BY <1>6 DEF FileSizeCovers
<1>12. DoneIsLogged'
  BY <1>6, <1>7 DEF DoneIsLogged
<1>13. ReplayedIsCurrent'
  BY <1>3, <1>6 DEF ReplayedIsCurrent, Logged, RecordsIn
<1>14. FramesAreAccountedFor' /\ GuardsArePins' /\ NextPageIdIsFresh' /\ CacheIsCurrent'
  BY <1>6 DEF FramesAreAccountedFor, GuardsArePins, NextPageIdIsFresh, CacheIsCurrent
<1> QED
  BY <1>8, <1>9, <1>10, <1>11, <1>12, <1>13, <1>14

\* Recovery writes one page as the log has it.
LEMMA ReplayInv == StorageInv /\ (\E p \in PageId : ReplayPage(p)) => StorageInv'
<1> SUFFICES ASSUME StorageInv, NEW p \in PageId, ReplayPage(p) PROVE StorageInv'
  OBVIOUS
<1> USE DEF StorageInv
<1>1. /\ phase = "recovering" /\ phase' = "recovering" /\ p \in todo /\ todo' = todo \ {p}
      /\ WritePage(p, LatestImage(p)) /\ UNCHANGED walVars /\ UNCHANGED poolVars
      /\ next_page_id' = next_page_id /\ crashes' = crashes /\ done' = done
  BY DEF ReplayPage
<1>2. Logged(p)
  BY <1>1 DEF ReplayedIsCurrent
<1>3. /\ file' \in [PageId -> Image \cup {Corrupt}]
      /\ durable' \in [PageId -> SUBSET (Image \cup {Corrupt})]
      /\ file_size' \in 0 .. MaxPages
      /\ WriteAhead'
      /\ FileSizeCovers'
      /\ \A q \in PageId : file'[q] = IF q = p THEN LatestImage(q) ELSE file[q]
  BY <1>1, <1>2, LoggedPageWritten
<1>4. /\ WalTypeOK' /\ LogShape' /\ LsnIsPosition' /\ DoneIsLogged'
      /\ \A q \in PageId : (Logged(q)' <=> Logged(q)) /\ LatestImage(q)' = LatestImage(q)
  BY <1>1, LogUnchanged
<1>5. StorageTypeOK'
  BY <1>1, <1>3, <1>4 DEF StorageTypeOK, DiskTypeOK, PoolTypeOK, poolVars
<1>6. ReplayedIsCurrent'
  BY <1>1, <1>3, <1>4 DEF ReplayedIsCurrent
<1>7. FramesAreAccountedFor' /\ GuardsArePins' /\ NextPageIdIsFresh' /\ CacheIsCurrent'
  BY <1>1 DEF FramesAreAccountedFor, GuardsArePins, NextPageIdIsFresh, CacheIsCurrent
<1> QED
  BY <1>3, <1>4, <1>5, <1>6, <1>7

\* When recovery is done, the file is what the log says, page by page.
LEMMA FinishInv == StorageInv /\ FinishRecovery => StorageInv'
<1> SUFFICES ASSUME StorageInv, FinishRecovery PROVE StorageInv'
  OBVIOUS
<1> USE DEF StorageInv
<1>1. /\ phase = "recovering" /\ phase' = "running" /\ todo = {} /\ todo' = todo
      /\ UNCHANGED walVars /\ ConstructPool /\ next_page_id' = file_size
      /\ file' = file /\ file_size' = file_size /\ durable' = [p \in PageId |-> {file[p]}]
      /\ crashes' = crashes /\ done' = done
  BY DEF FinishRecovery, Flush, NextPageIdFromFileSize
<1>2. /\ PoolTypeOK' /\ FramesAreAccountedFor' /\ GuardsArePins'
      /\ \A p \in PageId : ~Cached(p)'
  BY <1>1, PoolConstructed
<1>3. /\ WalTypeOK' /\ LogShape' /\ LsnIsPosition' /\ DoneIsLogged' /\ wal' = wal
      /\ \A q \in PageId : (Logged(q)' <=> Logged(q)) /\ LatestImage(q)' = LatestImage(q)
  BY <1>1, LogUnchanged
<1>4. DiskTypeOK'
  BY <1>1 DEF StorageTypeOK, DiskTypeOK
<1>5. StorageTypeOK'
  BY <1>1, <1>2, <1>3, <1>4 DEF StorageTypeOK
<1>6. WriteAhead' /\ FileSizeCovers'
  BY <1>1, <1>3 DEF WriteAhead, FileSizeCovers
<1>7. \A p \in PageId : file[p] = IF Logged(p) THEN LatestImage(p) ELSE Corrupt
  BY <1>1, UnloggedIsCorrupt DEF ReplayedIsCurrent
<1>8. CacheIsCurrent'
  BY <1>1, <1>2, <1>3, <1>7 DEF CacheIsCurrent
<1>9. NextPageIdIsFresh'
  <2>1. ASSUME NEW p \in PageId, Logged(p) PROVE p < file_size
    <3>1. file[p] \in Image
      BY <1>7, <2>1, LatestImageType DEF StorageTypeOK
    <3> QED
      BY <3>1, CorruptAssumption DEF FileSizeCovers
  <2> QED
    BY <1>1, <1>2, <1>3, <2>1 DEF NextPageIdIsFresh
<1>10. ReplayedIsCurrent'
  BY <1>1 DEF ReplayedIsCurrent
<1> QED
  BY <1>2, <1>3, <1>5, <1>6, <1>8, <1>9, <1>10

\* A normal exit.
LEMMA CloseInv == StorageInv /\ Close => StorageInv'
<1> SUFFICES ASSUME StorageInv, Close PROVE StorageInv'
  OBVIOUS
<1> USE DEF StorageInv
<1>1. /\ phase' = "closed" /\ todo' = todo /\ crashes' = crashes /\ done' = done
      /\ UNCHANGED walVars /\ ConstructPool
      /\ file' = file /\ file_size' = file_size /\ durable' = durable
      /\ next_page_id' = next_page_id
  BY DEF Close, diskVars
<1>2. PoolTypeOK'
  BY <1>1, PoolConstructed
<1>3. WalTypeOK' /\ LogShape' /\ LsnIsPosition' /\ DoneIsLogged' /\ wal' = wal
  BY <1>1, LogUnchanged
<1>4. StorageTypeOK'
  BY <1>1, <1>2, <1>3 DEF StorageTypeOK, DiskTypeOK
<1>5. WriteAhead' /\ FileSizeCovers'
  BY <1>1, <1>3 DEF WriteAhead, FileSizeCovers
<1>6. /\ FramesAreAccountedFor' /\ GuardsArePins' /\ NextPageIdIsFresh'
      /\ CacheIsCurrent' /\ ReplayedIsCurrent'
  BY <1>1 DEF FramesAreAccountedFor, GuardsArePins, NextPageIdIsFresh,
              CacheIsCurrent, ReplayedIsCurrent
<1> QED
  BY <1>3, <1>4, <1>5, <1>6

\* A torn record at the end of the log changes nothing that was logged.
LEMMA AppendLost ==
  ASSUME StorageInv, phase # "closed", phase' = "closed", NEW b \in BOOLEAN, LoseAppend(b)
  PROVE  /\ WalTypeOK' /\ LogShape' /\ LsnIsPosition'
         /\ \A i \in 1 .. Len(wal) : i \in 1 .. Len(wal') /\ wal'[i] = wal[i]
         /\ done' = done => DoneIsLogged'
<1> USE DEF StorageInv
<1> DEFINE n == Len(wal)
<1>1. /\ wal \in Seq(Record \cup {Torn}) /\ n \in Nat /\ next_offset = n /\ next_lsn = n
      /\ next_offset' = next_offset /\ next_lsn' = next_lsn
      /\ wal' = wal \/ wal' = Append(wal, Torn)
      /\ \A i \in 1 .. n : wal[i] # Torn
  BY ValidRecords DEF StorageTypeOK, LogShape, LoseAppend
<1>2. /\ wal' \in Seq(Record \cup {Torn}) /\ Len(wal') \in {n, n + 1}
      /\ \A i \in 1 .. n : wal'[i] = wal[i]
      /\ Len(wal') = n + 1 => wal'[n + 1] = Torn
  BY <1>1, AppendProperties
<1>3. WalTypeOK'
  BY <1>1, <1>2 DEF WalTypeOK
<1>4. ASSUME NEW i \in 1 .. Len(wal')
      PROVE  \/ i \in 1 .. n /\ i <= n /\ wal'[i] = wal[i] /\ wal[i] # Torn
             \/ i = n + 1 /\ ~(i <= n) /\ wal'[i] = Torn
  <2>1. CASE i \in 1 .. n
    BY <1>1, <1>2, <2>1
  <2>2. CASE i \notin 1 .. n
    <3>1. i = n + 1 /\ Len(wal') = n + 1
      BY <1>1, <1>2, <2>2
    <3> QED
      BY <1>1, <1>2, <3>1
  <2> QED
    BY <2>1, <2>2
<1>5. LogShape' /\ LsnIsPosition'
  BY <1>1, <1>2, <1>4 DEF LogShape, LsnIsPosition
<1>6. \A i \in 1 .. n : i \in 1 .. Len(wal') /\ wal'[i] = wal[i]
  BY <1>1, <1>2
<1>7. ASSUME NEW p \in PageId
      PROVE  (Logged(p)' <=> Logged(p)) /\ (Logged(p) => LatestImage(p)' = LatestImage(p))
  <2>1. next_offset \in 0 .. Len(wal') /\ \A i \in 1 .. next_offset : wal'[i] = wal[i]
    BY <1>1, <1>2
  <2> QED
    BY <1>1, <1>2, <2>1, SameRecords DEF StorageTypeOK
<1>8. done' = done => DoneIsLogged'
  BY <1>7 DEF DoneIsLogged
<1> QED
  BY <1>3, <1>5, <1>6, <1>8

\* The death of the process, which may tear the record being appended.
LEMMA KillInv == StorageInv /\ Kill => StorageInv'
<1> SUFFICES ASSUME StorageInv, Kill PROVE StorageInv'
  OBVIOUS
<1> USE DEF StorageInv
<1>1. /\ phase # "closed" /\ phase' = "closed" /\ todo' = {} /\ done' = done
      /\ crashes' = crashes + 1 /\ crashes < MaxCrashes
      /\ LoseAppend(HeldGuards # {}) /\ ConstructPool
      /\ file' = file /\ file_size' = file_size /\ durable' = durable
      /\ next_page_id' = next_page_id
  BY DEF Kill, diskVars
<1>2. PoolTypeOK'
  BY <1>1, PoolConstructed
<1>3. /\ WalTypeOK' /\ LogShape' /\ LsnIsPosition' /\ DoneIsLogged'
      /\ \A i \in 1 .. Len(wal) : i \in 1 .. Len(wal') /\ wal'[i] = wal[i]
  BY <1>1, AppendLost
<1>4. StorageTypeOK'
  BY <1>1, <1>2, <1>3, MaxCrashesAssumption DEF StorageTypeOK, DiskTypeOK
<1>5. WriteAhead' /\ FileSizeCovers'
  BY <1>1, <1>3 DEF WriteAhead, FileSizeCovers
<1>6. /\ FramesAreAccountedFor' /\ GuardsArePins' /\ NextPageIdIsFresh'
      /\ CacheIsCurrent' /\ ReplayedIsCurrent'
  BY <1>1 DEF FramesAreAccountedFor, GuardsArePins, NextPageIdIsFresh,
              CacheIsCurrent, ReplayedIsCurrent
<1> QED
  BY <1>3, <1>4, <1>5, <1>6

\* After a power loss the file holds, slot by slot, something it may have
\* held before: logged bytes or bytes that fail their checksum.
LEMMA PowerLossInv == StorageInv /\ PowerLoss => StorageInv'
<1> SUFFICES ASSUME StorageInv, PowerLoss PROVE StorageInv'
  OBVIOUS
<1> USE DEF StorageInv
<1>1. /\ phase # "closed" /\ phase' = "closed" /\ todo' = {} /\ done' = done
      /\ crashes' = crashes + 1 /\ crashes < MaxCrashes
      /\ LoseAppend(HeldGuards # {}) /\ ConstructPool
  BY DEF PowerLoss
<1>2. PICK size \in 0 .. file_size :
         \E survivor \in [PageId -> UNION {durable[p] : p \in PageId}] :
            /\ \A p \in PageId : survivor[p] \in durable[p]
            /\ \A p \in PageId : p >= size => survivor[p] = Corrupt
            /\ file' = survivor
            /\ durable' = [p \in PageId |-> {survivor[p]}]
            /\ file_size' = size
            /\ next_page_id' = next_page_id
  BY DEF PowerLoss, LoseUnsyncedWrites
<1>3. PICK survivor \in [PageId -> UNION {durable[p] : p \in PageId}] :
            /\ \A p \in PageId : survivor[p] \in durable[p]
            /\ \A p \in PageId : p >= size => survivor[p] = Corrupt
            /\ file' = survivor
            /\ durable' = [p \in PageId |-> {survivor[p]}]
            /\ file_size' = size
            /\ next_page_id' = next_page_id
  BY <1>2
<1>4. PoolTypeOK'
  BY <1>1, PoolConstructed
<1>5. /\ WalTypeOK' /\ LogShape' /\ LsnIsPosition' /\ DoneIsLogged'
      /\ \A i \in 1 .. Len(wal) : i \in 1 .. Len(wal') /\ wal'[i] = wal[i]
  BY <1>1, AppendLost
<1>6. \A p \in PageId : file'[p] \in durable[p] /\ durable'[p] = {file'[p]}
                        /\ durable[p] \in SUBSET (Image \cup {Corrupt})
  BY <1>3 DEF StorageTypeOK, DiskTypeOK
<1>7. DiskTypeOK'
  <2>1. file' \in [PageId -> Image \cup {Corrupt}]
    BY <1>3, <1>6
  <2>2. durable' \in [PageId -> SUBSET (Image \cup {Corrupt})]
    BY <1>3, <1>6
  <2>3. file_size' \in 0 .. MaxPages /\ next_page_id' \in 0 .. MaxPages
    BY <1>3, MaxPagesAssumption DEF StorageTypeOK, DiskTypeOK
  <2> QED
    BY <2>1, <2>2, <2>3 DEF DiskTypeOK
<1>8. StorageTypeOK'
  BY <1>1, <1>4, <1>5, <1>7, MaxCrashesAssumption DEF StorageTypeOK
<1>9. WriteAhead'
  BY <1>5, <1>6 DEF WriteAhead
<1>10. FileSizeCovers'
  BY <1>3, MaxPagesAssumption DEF FileSizeCovers, PageId, StorageTypeOK, DiskTypeOK
<1>11. /\ FramesAreAccountedFor' /\ GuardsArePins' /\ NextPageIdIsFresh'
       /\ CacheIsCurrent' /\ ReplayedIsCurrent'
  BY <1>1 DEF FramesAreAccountedFor, GuardsArePins, NextPageIdIsFresh,
              CacheIsCurrent, ReplayedIsCurrent
<1> QED
  BY <1>5, <1>8, <1>9, <1>10, <1>11
-----------------------------------------------------------------------------
(* FetchPage and NewPage. *)

\* FetchPage of a cached page: one more pin, off the LRU list.
LEMMA FetchHitInv ==
  ASSUME StorageInv, phase = "running", NEW g \in Guards, NEW p \in PageId,
         guard[g] = NoGuard, FetchHit(g, p), UNCHANGED <<procVars, done>>
  PROVE  StorageInv'
<1> USE DEF StorageInv
<1>0. PICK f : f = page_table[p]
  OBVIOUS
<1> DEFINE new == [frames[f] EXCEPT !.pin_count = @ + 1]
<1>1. /\ Cached(p) /\ frames' = [frames EXCEPT ![f].pin_count = @ + 1]
      /\ lru_list' = TouchLRU(lru_list, f)
      /\ guard' = [guard EXCEPT ![g] = [page_id |-> p, frame |-> f]]
      /\ page_table' = page_table /\ free_list' = free_list
      /\ UNCHANGED walVars /\ UNCHANGED diskVars
  BY <1>0 DEF FetchHit
<1>2. /\ phase' = "running" /\ todo' = todo /\ crashes' = crashes /\ done' = done
      /\ file' = file /\ durable' = durable /\ file_size' = file_size
      /\ next_page_id' = next_page_id
  BY <1>1 DEF procVars, diskVars
<1>3. /\ PoolTypeOK /\ frames \in [FrameId -> Frame]
      /\ page_table \in [PageId -> FrameId \cup {NoFrame}] /\ f \in FrameId
      /\ lru_list \in Seq(FrameId) /\ IsInjective(lru_list)
      /\ f \in Range(lru_list) /\ frames[f].page_id = p
  BY <1>0, <1>1 DEF StorageTypeOK, PoolTypeOK, Cached, FramesAreAccountedFor
<1>4. /\ new \in Frame /\ new.pin_count = frames[f].pin_count + 1
      /\ new.page_id = frames[f].page_id /\ new.page = frames[f].page
      /\ new.dirty = frames[f].dirty
  <2>1. frames[f] \in Frame
    BY <1>3
  <2> QED
    BY <2>1 DEF Frame
<1>5. frames' = [frames EXCEPT ![f] = new]
  BY <1>1, <1>3 DEF Frame
<1> HIDE DEF new
<1>6. /\ frames' \in [FrameId -> Frame]
      /\ \A e \in FrameId : /\ frames'[e].page_id = frames[e].page_id
                            /\ frames'[e].page = frames[e].page
                            /\ frames'[e].dirty = frames[e].dirty
                            /\ frames'[e].pin_count = frames[e].pin_count + (IF e = f THEN 1 ELSE 0)
  <2>1. frames' \in [FrameId -> Frame] /\ frames'[f] = new
        /\ \A e \in FrameId \ {f} : frames'[e] = frames[e]
    BY <1>3, <1>4, <1>5
  <2>2. \A e \in FrameId : frames[e].pin_count \in Nat
    BY <1>3 DEF Frame
  <2> QED
    BY <1>3, <1>4, <2>1, <2>2
<1>7. /\ lru_list' \in Seq(FrameId) /\ IsInjective(lru_list')
      /\ Range(lru_list') = Range(lru_list)
  <2>1. /\ TouchLRU(lru_list, f) \in Seq(FrameId) /\ IsInjective(TouchLRU(lru_list, f))
        /\ Range(TouchLRU(lru_list, f)) = Range(lru_list) \cup {f}
    BY <1>3, Touched
  <2> QED
    BY <1>1, <1>3, <2>1
<1>8. /\ guard' \in [Guards -> Handle \cup {NoGuard}]
      /\ HeldGuards' = HeldGuards \cup {g} /\ g \notin HeldGuards
      /\ guard'[g].page_id = p /\ guard'[g].frame = f
      /\ \A h \in HeldGuards : guard'[h] = guard[h]
      /\ Cardinality(GuardsOn(f)') = Cardinality(GuardsOn(f)) + 1
      /\ \A e \in FrameId \ {f} : GuardsOn(e)' = GuardsOn(e)
  BY <1>1, <1>3, GuardTaken
<1>9. PoolTypeOK'
  BY <1>1, <1>3, <1>6, <1>7, <1>8 DEF PoolTypeOK
<1>10. GuardsArePins'
  <2>1. \A e \in FrameId : frames'[e].pin_count = Cardinality(GuardsOn(e)')
    BY <1>6, <1>8, GuardsOnFinite DEF GuardsArePins
  <2>2. \A h \in HeldGuards : guard[h].frame \in FrameId
    BY <1>3 DEF HeldGuards, PoolTypeOK, Handle
  <2>3. \A h \in HeldGuards' : /\ page_table'[guard'[h].page_id] = guard'[h].frame
                               /\ frames'[guard'[h].frame].page_id = guard'[h].page_id
    BY <1>0, <1>1, <1>3, <1>6, <1>8, <2>2 DEF GuardsArePins
  <2> QED
    BY <2>1, <2>3 DEF GuardsArePins
<1>11. FramesAreAccountedFor'
  <2>1. \A e \in Range(lru_list) : e \in FrameId
    BY <1>3, RangeElements
  <2>2. \A q \in PageId : Cached(q)' <=> Cached(q)
    BY <1>1 DEF Cached
  <2>3. \A q \in PageId : Cached(q) => page_table[q] \in FrameId
    BY <1>3 DEF Cached
  <2> QED
    BY <1>1, <1>2, <1>6, <1>7, <2>1, <2>2, <2>3 DEF FramesAreAccountedFor
<1>12. /\ WalTypeOK' /\ LogShape' /\ LsnIsPosition' /\ DoneIsLogged' /\ wal' = wal
       /\ \A q \in PageId : (Logged(q)' <=> Logged(q)) /\ LatestImage(q)' = LatestImage(q)
  BY <1>1, <1>2, LogUnchanged
<1>13. StorageTypeOK'
  BY <1>2, <1>9, <1>12 DEF StorageTypeOK, DiskTypeOK
<1>14. WriteAhead' /\ FileSizeCovers' /\ ReplayedIsCurrent'
  BY <1>2, <1>12 DEF WriteAhead, FileSizeCovers, ReplayedIsCurrent
<1>15. NextPageIdIsFresh'
  BY <1>1, <1>2, <1>12 DEF NextPageIdIsFresh, Cached
<1>16. CacheIsCurrent'
  <2> SUFFICES ASSUME NEW q \in PageId
      PROVE IF Cached(q)'
            THEN LET frame == frames'[page_table'[q]]
                 IN  /\ ~frame.dirty => /\ Logged(q)'
                                        /\ frame.page = LatestImage(q)'
                                        /\ file'[q] = LatestImage(q)'
                     /\ frame.pin_count = 0 => Logged(q)' /\ frame.page = LatestImage(q)'
                     /\ Logged(q)' => frame.page.body >= LatestImage(q)'.body
            ELSE file'[q] = IF Logged(q)' THEN LatestImage(q)' ELSE Corrupt
    BY DEF CacheIsCurrent
  <2>1. CASE ~Cached(q)
    BY <1>1, <1>2, <1>12, <2>1 DEF CacheIsCurrent, Cached
  <2>2. CASE Cached(q)
    <3> DEFINE e == page_table[q]
    <3>1. e \in FrameId /\ Cached(q)' /\ page_table'[q] = e /\ frames[e].pin_count \in Nat
      BY <1>1, <1>3, <2>2 DEF Cached, Frame
    <3>2. /\ frames'[e].page = frames[e].page /\ frames'[e].dirty = frames[e].dirty
          /\ frames'[e].pin_count = 0 => frames[e].pin_count = 0
      BY <1>6, <3>1
    <3> HIDE DEF e
    <3>3. /\ ~frames[e].dirty => /\ Logged(q)
                                 /\ frames[e].page = LatestImage(q)
                                 /\ file[q] = LatestImage(q)
          /\ frames[e].pin_count = 0 => Logged(q) /\ frames[e].page = LatestImage(q)
          /\ Logged(q) => frames[e].page.body >= LatestImage(q).body
      BY <2>2 DEF CacheIsCurrent, e
    <3> QED
      BY <1>2, <1>12, <3>1, <3>2, <3>3
  <2> QED
    BY <2>1, <2>2
<1> QED
  BY <1>10, <1>11, <1>12, <1>13, <1>14, <1>15, <1>16

\* The part FetchPage's miss and NewPage have in common: an uncached page
\* enters the cache, either as the file has it or as a fresh page nobody has
\* logged yet.
LEMMA InstallInv ==
  ASSUME StorageInv, phase = "running", UNCHANGED <<procVars, done>>,
         NEW v, v = VictimFrame, v # NoFrame, WriteBack(v), UNCHANGED walVars,
         NEW g \in Guards, guard[g] = NoGuard,
         NEW p \in PageId, ~Cached(p),
         NEW image \in Image, NEW isDirty \in BOOLEAN,
         Install(g, v, p, image, isDirty),
         Logged(p) => image = LatestImage(p),
         Logged(p) \/ isDirty,
         next_page_id' \in next_page_id .. MaxPages,
         p < next_page_id'
  PROVE  StorageInv'
<1> USE DEF StorageInv
<1>1. /\ phase' = "running" /\ todo' = todo /\ crashes' = crashes /\ done' = done
  BY DEF procVars
<1>2. /\ PoolTypeOK' /\ FramesAreAccountedFor' /\ GuardsArePins'
      /\ page_table'[p] = v /\ v \in FrameId
      /\ frames'[v] = [page |-> image, page_id |-> p, pin_count |-> 1, dirty |-> isDirty]
      /\ \A q \in PageId \ {p} : /\ page_table[q] = v => page_table'[q] = NoFrame
                                 /\ page_table[q] # v => page_table'[q] = page_table[q]
      /\ \A f \in FrameId \ {v} : frames'[f] = frames[f]
  BY <1>1, Installed
<1>3. /\ file' \in [PageId -> Image \cup {Corrupt}]
      /\ durable' \in [PageId -> SUBSET (Image \cup {Corrupt})]
      /\ file_size' \in 0 .. MaxPages
      /\ WriteAhead'
      /\ FileSizeCovers'
      /\ \A q \in PageId :
            file'[q] = IF page_table[q] = v THEN LatestImage(q) ELSE file[q]
  BY VictimWrittenBack
<1>4. /\ WalTypeOK' /\ LogShape' /\ LsnIsPosition' /\ DoneIsLogged' /\ wal' = wal
      /\ \A q \in PageId : (Logged(q)' <=> Logged(q)) /\ LatestImage(q)' = LatestImage(q)
  BY <1>1, LogUnchanged
<1>5. next_page_id \in 0 .. MaxPages /\ MaxPages \in Nat
  BY MaxPagesAssumption DEF StorageTypeOK, DiskTypeOK
<1>6. StorageTypeOK'
  BY <1>1, <1>2, <1>3, <1>4, <1>5 DEF StorageTypeOK, DiskTypeOK
<1>7. ReplayedIsCurrent'
  BY <1>1 DEF ReplayedIsCurrent
<1>8. NextPageIdIsFresh'
  <2> SUFFICES ASSUME NEW q \in PageId, Logged(q) \/ Cached(q)' PROVE q < next_page_id'
    BY <1>4 DEF NextPageIdIsFresh
  <2>1. CASE q = p
    BY <2>1
  <2>2. CASE q # p
    <3>1. Logged(q) \/ Cached(q)
      BY <1>2, <2>2 DEF Cached
    <3>2. q < next_page_id
      BY <3>1 DEF NextPageIdIsFresh
    <3> QED
      BY <1>5, <3>2 DEF PageId
  <2> QED
    BY <2>1, <2>2
<1>9. CacheIsCurrent'
  <2> SUFFICES ASSUME NEW q \in PageId
      PROVE IF Cached(q)'
            THEN LET frame == frames'[page_table'[q]]
                 IN  /\ ~frame.dirty => /\ Logged(q)'
                                        /\ frame.page = LatestImage(q)'
                                        /\ file'[q] = LatestImage(q)'
                     /\ frame.pin_count = 0 => Logged(q)' /\ frame.page = LatestImage(q)'
                     /\ Logged(q)' => frame.page.body >= LatestImage(q)'.body
            ELSE file'[q] = IF Logged(q)' THEN LatestImage(q)' ELSE Corrupt
    BY <1>1 DEF CacheIsCurrent
  <2>1. CASE q = p
    <3>1. Cached(p)' /\ frames'[page_table'[p]].pin_count = 1
          /\ frames'[page_table'[p]].page = image /\ frames'[page_table'[p]].dirty = isDirty
      BY <1>2 DEF Cached
    <3>2. page_table[p] = NoFrame /\ file'[p] = file[p]
      BY <1>3 DEF Cached
    <3>3. Logged(p) => file[p] = LatestImage(p)
      BY DEF CacheIsCurrent
    <3>4. image.body \in Nat
      BY DEF Image
    <3> QED
      BY <1>4, <2>1, <3>1, <3>2, <3>3, <3>4
  <2>2. CASE q # p /\ page_table[q] = v
    <3>1. ~Cached(q)' /\ file'[q] = LatestImage(q) /\ Logged(q)
      BY <1>2, <1>3, <2>2, VictimIsReplaceable DEF Cached
    <3> QED
      BY <1>4, <3>1
  <2>3. CASE q # p /\ page_table[q] # v
    <3>1. page_table'[q] = page_table[q] /\ file'[q] = file[q]
      BY <1>2, <1>3, <2>3
    <3>2. CASE ~Cached(q)
      BY <1>4, <3>1, <3>2 DEF CacheIsCurrent, Cached
    <3>3. CASE Cached(q)
      <4> DEFINE e == page_table[q]
      <4>1. e \in FrameId /\ Cached(q)' /\ page_table'[q] = e
        BY <3>1, <3>3 DEF Cached, StorageTypeOK, PoolTypeOK
      <4>2. frames'[e] = frames[e]
        BY <1>2, <2>3, <4>1
      <4>3. /\ ~frames[e].dirty => /\ Logged(q)
                                   /\ frames[e].page = LatestImage(q)
                                   /\ file[q] = LatestImage(q)
            /\ frames[e].pin_count = 0 => Logged(q) /\ frames[e].page = LatestImage(q)
            /\ Logged(q) => frames[e].page.body >= LatestImage(q).body
        BY <3>3 DEF CacheIsCurrent
      <4> HIDE DEF e
      <4> QED
        BY <1>4, <3>1, <4>1, <4>2, <4>3
    <3> QED
      BY <3>2, <3>3
  <2> QED
    BY <2>1, <2>2, <2>3
<1> QED
  BY <1>2, <1>3, <1>4, <1>6, <1>7, <1>8, <1>9

\* FetchPage of a page that is not cached: a victim is written back and
\* its frame takes the page as the file has it.
LEMMA FetchMissInv ==
  ASSUME StorageInv, phase = "running", NEW g \in Guards, NEW p \in PageId,
         guard[g] = NoGuard, p < next_page_id, FetchMiss(g, p), UNCHANGED <<procVars, done>>
  PROVE  StorageInv'
<1> DEFINE v == VictimFrame
<1>1. /\ ~Cached(p) /\ v # NoFrame /\ file[p] # Corrupt /\ WriteBack(v)
      /\ Install(g, v, p, file[p], FALSE)
      /\ next_page_id' = next_page_id /\ UNCHANGED walVars
  BY DEF FetchMiss, Readable, ReadPage
<1>2. Logged(p) /\ file[p] = LatestImage(p)
  BY <1>1 DEF StorageInv, CacheIsCurrent
<1>3. file[p] \in Image
  BY <1>1 DEF StorageInv, StorageTypeOK, DiskTypeOK
<1>4. next_page_id' \in next_page_id .. MaxPages /\ p < next_page_id'
  BY <1>1 DEF StorageInv, StorageTypeOK, DiskTypeOK
<1> HIDE DEF v
<1>5. v = VictimFrame
  BY DEF v
<1> QED
  BY <1>1, <1>2, <1>3, <1>4, <1>5, InstallInv

\* NewPage: the same, with a zeroed page the disk manager has just allocated.
LEMMA NewPageInv ==
  ASSUME StorageInv, phase = "running", NEW g \in Guards,
         guard[g] = NoGuard, VictimFrame # NoFrame, AllocatePage, WriteBack(VictimFrame),
         Install(g, VictimFrame, next_page_id, ZeroImage, TRUE),
         UNCHANGED walVars, UNCHANGED <<procVars, done>>
  PROVE  StorageInv'
<1> DEFINE v == VictimFrame
           p == next_page_id
<1>1. /\ p \in PageId /\ next_page_id' \in next_page_id .. MaxPages /\ p < next_page_id'
  BY MaxPagesAssumption DEF AllocatePage, StorageInv, StorageTypeOK, DiskTypeOK, PageId
<1>2. ~Logged(p) /\ ~Cached(p)
  BY <1>1 DEF StorageInv, NextPageIdIsFresh, PageId
<1>3. ZeroImage \in Image
  BY DEF ZeroImage, Image
<1>4. Install(g, v, p, ZeroImage, TRUE) /\ WriteBack(v) /\ v # NoFrame
  OBVIOUS
<1> HIDE DEF v, p
<1>5. v = VictimFrame
  BY DEF v
<1> QED
  BY <1>1, <1>2, <1>3, <1>4, <1>5, InstallInv

\* ReadPage throws: the victim is gone from every list, and nothing else.
LEMMA FetchThrowsInv ==
  ASSUME StorageInv, phase = "running", NEW g \in Guards, NEW p \in PageId,
         FetchThrows(g, p), UNCHANGED <<procVars, done>>
  PROVE  StorageInv'
<1> USE DEF StorageInv
<1> DEFINE v == VictimFrame
<1>1. /\ v # NoFrame /\ WriteBack(v) /\ page_table' = TableAfter(v)
      /\ lru_list' = LruAfter(v) /\ free_list' = FreeListAfter
      /\ frames' = frames /\ guard' = guard /\ next_page_id' = next_page_id
      /\ UNCHANGED walVars
  BY DEF FetchThrows
<1>2. /\ phase' = "running" /\ todo' = todo /\ crashes' = crashes /\ done' = done
  BY DEF procVars
<1> HIDE DEF v
<1>3. v = VictimFrame
  BY DEF v
<1>4. /\ page_table' \in [PageId -> FrameId \cup {NoFrame}]
      /\ \A q \in PageId : page_table'[q] =
            IF page_table[q] = v THEN NoFrame ELSE page_table[q]
      /\ free_list' \in Seq(FrameId) /\ IsInjective(free_list')
      /\ \A q \in PageId : page_table[q] \notin Range(free_list')
      /\ lru_list' \in Seq(FrameId) /\ IsInjective(lru_list')
      /\ Range(lru_list') = Range(lru_list) \ {v}
  BY <1>1, <1>3, VictimTaken
<1>5. /\ file' \in [PageId -> Image \cup {Corrupt}]
      /\ durable' \in [PageId -> SUBSET (Image \cup {Corrupt})]
      /\ file_size' \in 0 .. MaxPages
      /\ WriteAhead'
      /\ FileSizeCovers'
      /\ \A q \in PageId :
            file'[q] = IF page_table[q] = v THEN LatestImage(q) ELSE file[q]
  BY <1>1, <1>3, VictimWrittenBack
<1>6. /\ WalTypeOK' /\ LogShape' /\ LsnIsPosition' /\ DoneIsLogged' /\ wal' = wal
      /\ \A q \in PageId : (Logged(q)' <=> Logged(q)) /\ LatestImage(q)' = LatestImage(q)
  BY <1>1, <1>2, LogUnchanged
<1>7. StorageTypeOK'
  BY <1>1, <1>2, <1>4, <1>5, <1>6 DEF StorageTypeOK, DiskTypeOK, PoolTypeOK
<1>8. NoFrame \notin Range(free_list')
  BY <1>4, NoFrameAssumption, RangeElements
<1>9. FramesAreAccountedFor'
  <2>1. ASSUME NEW q \in PageId, page_table'[q] # NoFrame
        PROVE  frames[page_table'[q]].page_id = q /\ page_table'[q] \in Range(lru_list')
    BY <1>4, <2>1 DEF FramesAreAccountedFor, Cached
  <2>2. \A q \in PageId : page_table'[q] \notin Range(free_list')
    BY <1>4, <1>8
  <2>3. ASSUME NEW f \in Range(lru_list')
        PROVE  frames[f].page_id \in PageId /\ page_table'[frames[f].page_id] = f
    BY <1>4 DEF FramesAreAccountedFor
  <2> QED
    BY <1>1, <1>4, <2>1, <2>2, <2>3 DEF FramesAreAccountedFor, Cached
<1>10. GuardsArePins'
  <2>1. HeldGuards' = HeldGuards /\ \A f \in FrameId : GuardsOn(f)' = GuardsOn(f)
    BY <1>1 DEF HeldGuards, GuardsOn
  <2>2. \A h \in HeldGuards : guard[h].frame # v /\ guard[h].page_id \in PageId
    BY <1>1, <1>3, VictimIsReplaceable DEF HeldGuards, StorageTypeOK, PoolTypeOK, Handle
  <2>3. \A h \in HeldGuards : page_table'[guard[h].page_id] = guard[h].frame
    BY <1>4, <2>2 DEF GuardsArePins
  <2> QED
    BY <1>1, <2>1, <2>3 DEF GuardsArePins
<1>11. NextPageIdIsFresh'
  BY <1>1, <1>4, <1>6 DEF NextPageIdIsFresh, Cached
<1>12. ReplayedIsCurrent'
  BY <1>2 DEF ReplayedIsCurrent
<1>13. CacheIsCurrent'
  <2> SUFFICES ASSUME NEW q \in PageId
      PROVE IF Cached(q)'
            THEN LET frame == frames'[page_table'[q]]
                 IN  /\ ~frame.dirty => /\ Logged(q)'
                                        /\ frame.page = LatestImage(q)'
                                        /\ file'[q] = LatestImage(q)'
                     /\ frame.pin_count = 0 => Logged(q)' /\ frame.page = LatestImage(q)'
                     /\ Logged(q)' => frame.page.body >= LatestImage(q)'.body
            ELSE file'[q] = IF Logged(q)' THEN LatestImage(q)' ELSE Corrupt
    BY <1>2 DEF CacheIsCurrent
  <2>1. CASE page_table[q] = v
    <3>1. ~Cached(q)' /\ file'[q] = LatestImage(q) /\ Logged(q)
      BY <1>1, <1>3, <1>4, <1>5, <2>1, VictimIsReplaceable DEF Cached
    <3> QED
      BY <1>6, <3>1
  <2>2. CASE page_table[q] # v
    <3>1. page_table'[q] = page_table[q] /\ file'[q] = file[q]
      BY <1>4, <1>5, <2>2
    <3> QED
      BY <1>1, <1>6, <3>1 DEF CacheIsCurrent, Cached
  <2> QED
    BY <2>1, <2>2
<1> QED
  BY <1>5, <1>6, <1>7, <1>9, <1>10, <1>11, <1>12, <1>13

\* A step that changes nothing, and FetchPage and NewPage with nothing to
\* evict.
LEMMA UnchangedInv == StorageInv /\ UNCHANGED vars => StorageInv'
<1> SUFFICES ASSUME StorageInv, UNCHANGED vars PROVE StorageInv'
  OBVIOUS
<1> USE DEF StorageInv, vars, diskVars, walVars, poolVars, procVars
<1>1. StorageTypeOK'
  BY DEF StorageTypeOK, DiskTypeOK, WalTypeOK, PoolTypeOK
<1>2. LogShape' /\ LsnIsPosition'
  BY DEF LogShape, LsnIsPosition
<1>7. WriteAhead' /\ FileSizeCovers'
  BY DEF WriteAhead, FileSizeCovers
<1>3. FramesAreAccountedFor'
  BY DEF FramesAreAccountedFor, Cached
<1>4. GuardsArePins'
  BY DEF GuardsArePins, HeldGuards, GuardsOn
<1>5. NextPageIdIsFresh' /\ ReplayedIsCurrent' /\ DoneIsLogged'
  BY DEF NextPageIdIsFresh, ReplayedIsCurrent, DoneIsLogged, Logged, LatestImage, Cached
<1>6. CacheIsCurrent'
  BY DEF CacheIsCurrent, Logged, LatestImage, Cached
<1> QED
  BY <1>1, <1>2, <1>3, <1>4, <1>5, <1>6, <1>7

\* FetchPage as a whole: hit, miss, exhausted pool, unreadable page.
LEMMA FetchInv ==
  ASSUME StorageInv, NEW g \in Guards, NEW p \in PageId, PoolFetch(g, p)
  PROVE  StorageInv'
<1>1. /\ phase = "running" /\ guard[g] = NoGuard /\ p < next_page_id
      /\ UNCHANGED <<procVars, done>>
  BY DEF PoolFetch, FetchPage
<1>2. CASE FetchHit(g, p)
  BY <1>1, <1>2, FetchHitInv
<1>3. CASE FetchMiss(g, p)
  BY <1>1, <1>3, FetchMissInv
<1>4. CASE FetchThrows(g, p)
  BY <1>1, <1>4, FetchThrowsInv
<1>5. CASE FetchExhausted(g, p)
  BY <1>1, <1>5, UnchangedInv DEF FetchExhausted, vars
<1> QED
  BY <1>2, <1>3, <1>4, <1>5 DEF PoolFetch, FetchPage

\* NewPage as a whole.
LEMMA NewInv ==
  ASSUME StorageInv, NEW g \in Guards, PoolNew(g)
  PROVE  StorageInv'
<1>1. phase = "running" /\ guard[g] = NoGuard /\ UNCHANGED <<procVars, done>>
  BY DEF PoolNew, NewPage
<1>2. CASE /\ VictimFrame # NoFrame /\ AllocatePage /\ WriteBack(VictimFrame)
           /\ Install(g, VictimFrame, next_page_id, ZeroImage, TRUE)
           /\ UNCHANGED walVars
  BY <1>1, <1>2, NewPageInv
<1>3. CASE UNCHANGED <<poolVars, diskVars, walVars>>
  BY <1>1, <1>3, UnchangedInv DEF vars
<1> QED
  BY <1>2, <1>3 DEF PoolNew, NewPage

-----------------------------------------------------------------------------
(* Changing, releasing and flushing pages. *)

\* A frame that holds a page which a step replaces by frames'[f], keeping
\* its page id: the bookkeeping does not depend on the rest of the frame.
LEMMA FrameRewritten ==
  ASSUME StorageInv, phase = "running", phase' = "running",
         page_table' = page_table, lru_list' = lru_list, free_list' = free_list,
         \A f \in FrameId : frames'[f].page_id = frames[f].page_id
  PROVE  /\ FramesAreAccountedFor'
         /\ \A q \in PageId : Cached(q)' <=> Cached(q)
         /\ \A q \in PageId : Cached(q) => /\ page_table[q] \in FrameId
                                           /\ frames[page_table[q]].page_id = q
<1> USE DEF StorageInv
<1>1. /\ lru_list \in Seq(FrameId)
      /\ page_table \in [PageId -> FrameId \cup {NoFrame}]
  BY DEF StorageTypeOK, PoolTypeOK
<1>2. \A f \in Range(lru_list) : f \in FrameId
  BY <1>1, RangeElements
<1>3. \A q \in PageId : Cached(q)' <=> Cached(q)
  BY DEF Cached
<1>4. \A q \in PageId : Cached(q) => page_table[q] \in FrameId
  BY <1>1 DEF Cached
<1>5. FramesAreAccountedFor'
  BY <1>2, <1>3, <1>4 DEF FramesAreAccountedFor
<1> QED
  BY <1>3, <1>4, <1>5 DEF FramesAreAccountedFor

\* A caller changes the page under its guard and marks the guard dirty.
LEMMA MutateInv ==
  ASSUME StorageInv, NEW g \in Guards, PoolMutate(g)
  PROVE  StorageInv'
<1> USE DEF StorageInv
<1>0. PICK f : f = guard[g].frame
  OBVIOUS
<1> DEFINE image == [frames[f].page EXCEPT !.body = frames[f].page.body + 1]
           new == [page |-> image, page_id |-> frames[f].page_id,
                   pin_count |-> frames[f].pin_count, dirty |-> TRUE]
<1>1. /\ phase = "running" /\ guard[g] # NoGuard
      /\ frames' = [frames EXCEPT ![f] = new]
      /\ page_table' = page_table /\ free_list' = free_list /\ lru_list' = lru_list
      /\ guard' = guard /\ UNCHANGED walVars
      /\ file' = file /\ durable' = durable /\ file_size' = file_size
      /\ next_page_id' = next_page_id
      /\ phase' = "running" /\ todo' = todo /\ crashes' = crashes /\ done' = done
  BY <1>0 DEF PoolMutate, Mutate, diskVars, procVars
<1>2. /\ frames \in [FrameId -> Frame] /\ f \in FrameId /\ g \in HeldGuards
      /\ page_table \in [PageId -> FrameId \cup {NoFrame}]
  BY <1>0, <1>1 DEF StorageTypeOK, PoolTypeOK, Handle, HeldGuards
<1>3. /\ new \in Frame /\ new.dirty = TRUE
      /\ new.page_id = frames[f].page_id /\ new.pin_count = frames[f].pin_count
      /\ new.page.body = frames[f].page.body + 1 /\ frames[f].page.body \in Nat
  <2>1. frames[f] \in Frame
    BY <1>2
  <2>2. frames[f].page \in Image /\ frames[f].page_id \in PageId \cup {NoPage}
        /\ frames[f].pin_count \in Nat
    BY <2>1 DEF Frame
  <2>3. image \in Image /\ image.body = frames[f].page.body + 1 /\ frames[f].page.body \in Nat
    BY <2>2 DEF Image
  <2> HIDE DEF image
  <2> QED
    BY <2>2, <2>3 DEF Frame
<1>4. frames' = [frames EXCEPT ![f] = new]
  BY <1>1
<1> HIDE DEF new
<1>5. /\ frames' \in [FrameId -> Frame] /\ frames'[f] = new
      /\ \A e \in FrameId \ {f} : frames'[e] = frames[e]
      /\ \A e \in FrameId : /\ frames'[e].page_id = frames[e].page_id
                            /\ frames'[e].pin_count = frames[e].pin_count
  BY <1>2, <1>3, <1>4
<1>6. frames[f].pin_count # 0
  BY <1>0, <1>1, <1>2, UnpinnedIsFree
<1>7. /\ FramesAreAccountedFor' /\ \A q \in PageId : Cached(q)' <=> Cached(q)
      /\ \A q \in PageId : Cached(q) => page_table[q] \in FrameId
  BY <1>1, <1>5, FrameRewritten
<1>8. GuardsArePins'
  <2>1. HeldGuards' = HeldGuards /\ \A e \in FrameId : GuardsOn(e)' = GuardsOn(e)
    BY <1>1 DEF HeldGuards, GuardsOn
  <2>2. \A h \in HeldGuards : guard[h].frame \in FrameId
    BY DEF HeldGuards, StorageTypeOK, PoolTypeOK, Handle
  <2> QED
    BY <1>1, <1>5, <2>1, <2>2 DEF GuardsArePins
<1>9. /\ WalTypeOK' /\ LogShape' /\ LsnIsPosition' /\ DoneIsLogged' /\ wal' = wal
      /\ \A q \in PageId : (Logged(q)' <=> Logged(q)) /\ LatestImage(q)' = LatestImage(q)
  BY <1>1, LogUnchanged
<1>10. StorageTypeOK'
  BY <1>1, <1>5, <1>9 DEF StorageTypeOK, DiskTypeOK, PoolTypeOK
<1>11. WriteAhead' /\ FileSizeCovers' /\ ReplayedIsCurrent'
  BY <1>1, <1>9 DEF WriteAhead, FileSizeCovers, ReplayedIsCurrent
<1>12. NextPageIdIsFresh'
  BY <1>1, <1>7, <1>9 DEF NextPageIdIsFresh
<1>13. CacheIsCurrent'
  <2> SUFFICES ASSUME NEW q \in PageId
      PROVE IF Cached(q)
            THEN LET frame == frames'[page_table[q]]
                 IN  /\ ~frame.dirty => /\ Logged(q)
                                        /\ frame.page = LatestImage(q)
                                        /\ file[q] = LatestImage(q)
                     /\ frame.pin_count = 0 => Logged(q) /\ frame.page = LatestImage(q)
                     /\ Logged(q) => frame.page.body >= LatestImage(q).body
            ELSE file[q] = IF Logged(q) THEN LatestImage(q) ELSE Corrupt
    BY <1>1, <1>7, <1>9 DEF CacheIsCurrent
  <2>1. CASE ~Cached(q)
    BY <1>1, <2>1 DEF CacheIsCurrent
  <2>2. CASE Cached(q) /\ page_table[q] # f
    <3>1. frames'[page_table[q]] = frames[page_table[q]]
      BY <1>5, <1>7, <2>2
    <3> QED
      BY <1>1, <2>2, <3>1 DEF CacheIsCurrent
  <2>3. CASE Cached(q) /\ page_table[q] = f
    <3>1. Logged(q) => frames[f].page.body >= LatestImage(q).body
      BY <1>1, <2>3 DEF CacheIsCurrent
    <3>2. Logged(q) => LatestImage(q).body \in Nat
      BY LatestImageType DEF StorageTypeOK, Image
    <3>3. Logged(q) => new.page.body >= LatestImage(q).body
      BY <1>3, <3>1, <3>2
    <3> QED
      BY <1>3, <1>5, <1>6, <2>3, <3>3
  <2> QED
    BY <2>1, <2>2, <2>3
<1> QED
  BY <1>7, <1>8, <1>9, <1>10, <1>11, <1>12, <1>13
\* Release: a dirty page is logged before its pin is given up, so that the
\* caller may rely on it; a clean page was logged before.
LEMMA ReleaseInv ==
  ASSUME StorageInv, NEW g \in Guards, PoolRelease(g)
  PROVE  StorageInv'
<1> USE DEF StorageInv
<1>0. PICK f, p : f = guard[g].frame /\ p = guard[g].page_id
  OBVIOUS
<1>1. /\ phase = "running" /\ guard[g] # NoGuard
      /\ UnpinPage(p, frames[f].dirty)
      /\ guard' = [guard EXCEPT ![g] = NoGuard]
      /\ done' = [done EXCEPT ![p] = frames[f].page.body]
      /\ page_table' = page_table /\ free_list' = free_list /\ lru_list' = lru_list
      /\ file' = file /\ durable' = durable /\ file_size' = file_size
      /\ next_page_id' = next_page_id
      /\ phase' = "running" /\ todo' = todo /\ crashes' = crashes
  BY <1>0 DEF PoolRelease, Release, diskVars, procVars
<1>2. /\ PoolTypeOK /\ frames \in [FrameId -> Frame] /\ f \in FrameId /\ p \in PageId
      /\ g \in HeldGuards /\ page_table \in [PageId -> FrameId \cup {NoFrame}]
      /\ done \in [PageId -> Nat \cup {NotDone}]
  BY <1>0, <1>1 DEF StorageTypeOK, PoolTypeOK, Handle, HeldGuards
<1>3. page_table[p] = f /\ Cached(p)
  BY <1>0, <1>1, <1>2, NoFrameAssumption DEF GuardsArePins, Cached
<1>4. /\ guard' \in [Guards -> Handle \cup {NoGuard}]
      /\ HeldGuards' = HeldGuards \ {g}
      /\ \A h \in HeldGuards' : guard'[h] = guard[h] /\ h \in HeldGuards
      /\ Cardinality(GuardsOn(f)) \in Nat \ {0}
      /\ Cardinality(GuardsOn(f)') = Cardinality(GuardsOn(f)) - 1
      /\ \A e \in FrameId \ {f} : GuardsOn(e)' = GuardsOn(e)
  BY <1>0, <1>1, <1>2, GuardDropped
<1>5. frames[f].pin_count = Cardinality(GuardsOn(f)) /\ frames[f].pin_count \in Nat \ {0}
  BY <1>1, <1>2, <1>4 DEF GuardsArePins
<1>6. /\ frames[f] \in Frame /\ frames[f].page \in Image /\ frames[f].page.body \in Nat
      /\ frames[f].dirty \in BOOLEAN
      /\ frames[f].page_id = p
  BY <1>1, <1>2, <1>3 DEF Frame, Image, FramesAreAccountedFor
<1> DEFINE image == IF frames[f].dirty THEN Stamped(frames[f].page) ELSE frames[f].page
           new == [page |-> image, page_id |-> p,
                   pin_count |-> frames[f].pin_count - 1, dirty |-> frames[f].dirty]
<1>7. /\ image \in Image /\ image.body = frames[f].page.body
      /\ frames' = [frames EXCEPT ![f] = new]
      /\ \A q \in PageId \ {p} : /\ Logged(q)' <=> Logged(q)
                                 /\ Logged(q) => LatestImage(q)' = LatestImage(q)
      /\ Logged(p)' /\ LatestImage(p)' = image
      /\ ~frames[f].dirty => file[p] = image
      /\ WalTypeOK' /\ LogShape' /\ LsnIsPosition'
      /\ \A i \in 1 .. Len(wal) : i \in 1 .. Len(wal') /\ wal'[i] = wal[i]
  <2>1. CASE frames[f].dirty
    <3>1. /\ AppendRecord(p, frames[f].page)
          /\ frames' = [frames EXCEPT
                ![f] = [page |-> Stamped(frames[f].page), page_id |-> frames[f].page_id,
                        pin_count |-> frames[f].pin_count - 1, dirty |-> TRUE]]
      BY <1>1, <1>3, <1>5, <2>1 DEF UnpinPage
    <3>2. /\ wal' \in Seq(Record \cup {Torn})
          /\ Len(wal') = Len(wal) + 1 /\ next_offset' = Len(wal') /\ next_lsn' = Len(wal')
          /\ next_lsn = Len(wal) /\ next_offset = Len(wal)
          /\ Stamped(frames[f].page) \in Image
          /\ wal'[Len(wal')] = [lsn |-> next_lsn, page_id |-> p,
                                page |-> Stamped(frames[f].page)]
          /\ \A i \in 1 .. Len(wal) : wal'[i] = wal[i]
          /\ Logged(p)' /\ LatestImage(p)' = Stamped(frames[f].page)
          /\ \A q \in PageId \ {p} :
                /\ Logged(q)' <=> Logged(q)
                /\ Logged(q) => LatestImage(q)' = LatestImage(q)
      BY <1>1, <1>2, <1>6, <3>1, RecordAppended DEF StorageTypeOK
    <3>3. /\ Stamped(frames[f].page).body = frames[f].page.body
          /\ Stamped(frames[f].page).lsn = next_lsn
      BY <1>6 DEF Stamped, Image
    <3>4. frames' = [frames EXCEPT ![f] = new]
      BY <1>6, <2>1, <3>1
    <3> DEFINE n == Len(wal)
               rec == [lsn |-> next_lsn, page_id |-> p, page |-> Stamped(frames[f].page)]
    <3>5. /\ n \in Nat /\ \A i \in 1 .. n : wal[i] # Torn
          /\ \A i \in 1 .. n : wal[i].lsn = i - 1 /\ wal[i].page.lsn = i - 1
      BY <1>1, ValidRecords DEF StorageTypeOK, LogShape, LsnIsPosition
    <3>6. rec # Torn /\ rec.lsn = n /\ rec.page.lsn = n
      <4>1. rec \in Record
        BY <1>2, <3>2, <3>5 DEF Record
      <4> QED
        BY <3>2, <3>3, <4>1, TornAssumption
    <3>7. wal'[n + 1] = rec /\ Len(wal') = n + 1
      BY <3>2
    <3> HIDE DEF rec
    <3>8. ASSUME NEW i \in 1 .. n + 1
          PROVE  wal'[i] # Torn /\ wal'[i].lsn = i - 1 /\ wal'[i].page.lsn = i - 1
      <4>1. CASE i = n + 1
        BY <3>5, <3>6, <3>7, <4>1
      <4>2. CASE i # n + 1
        <5>1. i \in 1 .. n /\ wal'[i] = wal[i]
          BY <3>2, <3>5, <4>2
        <5> QED
          BY <3>5, <5>1
      <4> QED
        BY <4>1, <4>2
    <3>9. WalTypeOK' /\ LogShape' /\ LsnIsPosition'
      BY <3>2, <3>5, <3>7, <3>8 DEF WalTypeOK, LogShape, LsnIsPosition
    <3>10. \A i \in 1 .. Len(wal) : i \in 1 .. Len(wal') /\ wal'[i] = wal[i]
      BY <3>2, <3>5
    <3> QED
      BY <2>1, <3>2, <3>3, <3>4, <3>9, <3>10
  <2>2. CASE ~frames[f].dirty
    <3>1. /\ UNCHANGED walVars
          /\ frames' = [frames EXCEPT
                ![f] = [frames[f] EXCEPT !.pin_count = frames[f].pin_count - 1]]
      BY <1>1, <1>3, <1>5, <2>2 DEF UnpinPage
    <3>2. frames' = [frames EXCEPT ![f] = new]
      <4>1. [frames[f] EXCEPT !.pin_count = frames[f].pin_count - 1] = new
        BY <1>5, <1>6, <2>2 DEF Frame
      <4> QED
        BY <1>2, <3>1, <4>1
    <3>3. /\ WalTypeOK' /\ LogShape' /\ LsnIsPosition' /\ wal' = wal
          /\ \A q \in PageId : (Logged(q)' <=> Logged(q)) /\ LatestImage(q)' = LatestImage(q)
      BY <1>1, <3>1, LogUnchanged
    <3>4. Logged(p) /\ frames[f].page = LatestImage(p) /\ file[p] = LatestImage(p)
      BY <1>1, <1>2, <1>3, <2>2 DEF CacheIsCurrent
    <3> QED
      BY <1>2, <1>6, <2>2, <3>2, <3>3, <3>4
  <2> QED
    BY <1>6, <2>1, <2>2
<1> HIDE DEF image
<1>8. /\ new \in Frame /\ new.page_id = p /\ new.page = image
      /\ new.pin_count = frames[f].pin_count - 1 /\ new.dirty = frames[f].dirty
  BY <1>2, <1>5, <1>6, <1>7 DEF Frame
<1> HIDE DEF new
<1>9. /\ frames' \in [FrameId -> Frame] /\ frames'[f] = new
      /\ \A e \in FrameId \ {f} : frames'[e] = frames[e]
      /\ \A e \in FrameId : frames'[e].page_id = frames[e].page_id
  BY <1>2, <1>6, <1>7, <1>8
<1>10. /\ FramesAreAccountedFor' /\ \A q \in PageId : Cached(q)' <=> Cached(q)
       /\ \A q \in PageId : Cached(q) => /\ page_table[q] \in FrameId
                                         /\ frames[page_table[q]].page_id = q
  BY <1>1, <1>9, FrameRewritten
<1>11. GuardsArePins'
  <2>1. \A e \in FrameId : frames'[e].pin_count = Cardinality(GuardsOn(e)')
    <3>1. frames'[f].pin_count = Cardinality(GuardsOn(f)')
      BY <1>4, <1>5, <1>8, <1>9
    <3>2. \A e \in FrameId \ {f} : frames'[e].pin_count = Cardinality(GuardsOn(e)')
      BY <1>1, <1>4, <1>9 DEF GuardsArePins
    <3> QED
      BY <3>1, <3>2
  <2>2. \A h \in HeldGuards : guard[h].frame \in FrameId
    BY DEF HeldGuards, StorageTypeOK, PoolTypeOK, Handle
  <2>3. \A h \in HeldGuards' : /\ page_table'[guard'[h].page_id] = guard'[h].frame
                               /\ frames'[guard'[h].frame].page_id = guard'[h].page_id
    BY <1>1, <1>4, <1>9, <2>2 DEF GuardsArePins
  <2> QED
    BY <2>1, <2>3 DEF GuardsArePins
<1>12. done' \in [PageId -> Nat \cup {NotDone}]
  BY <1>1, <1>2, <1>6
<1>13. StorageTypeOK'
  BY <1>1, <1>4, <1>7, <1>9, <1>12 DEF StorageTypeOK, DiskTypeOK, PoolTypeOK
<1>14. WriteAhead' /\ FileSizeCovers' /\ ReplayedIsCurrent'
  <2>1. WriteAhead'
    BY <1>1, <1>7 DEF WriteAhead
  <2> QED
    BY <1>1, <2>1 DEF FileSizeCovers, ReplayedIsCurrent
<1>15. NextPageIdIsFresh'
  BY <1>1, <1>3, <1>7, <1>10 DEF NextPageIdIsFresh
<1>16. DoneIsLogged'
  BY <1>1, <1>2, <1>7 DEF DoneIsLogged
<1>17. CacheIsCurrent'
  <2> SUFFICES ASSUME NEW q \in PageId
      PROVE IF Cached(q)
            THEN LET frame == frames'[page_table[q]]
                 IN  /\ ~frame.dirty => /\ Logged(q)'
                                        /\ frame.page = LatestImage(q)'
                                        /\ file[q] = LatestImage(q)'
                     /\ frame.pin_count = 0 => Logged(q)' /\ frame.page = LatestImage(q)'
                     /\ Logged(q)' => frame.page.body >= LatestImage(q)'.body
            ELSE file[q] = IF Logged(q)' THEN LatestImage(q)' ELSE Corrupt
    BY <1>1, <1>10 DEF CacheIsCurrent
  <2>1. CASE q = p
    BY <1>3, <1>6, <1>7, <1>8, <1>9, <2>1
  <2>2. CASE q # p /\ ~Cached(q)
    BY <1>1, <1>7, <2>2 DEF CacheIsCurrent
  <2>3. CASE q # p /\ Cached(q)
    <3>1. page_table[q] # f /\ frames'[page_table[q]] = frames[page_table[q]]
      BY <1>6, <1>9, <1>10, <2>3
    <3> QED
      BY <1>1, <1>7, <2>3, <3>1 DEF CacheIsCurrent
  <2> QED
    BY <2>1, <2>2, <2>3
<1> QED
  BY <1>7, <1>10, <1>11, <1>13, <1>14, <1>15, <1>16, <1>17
\* With no guard held, every cached page is as it was last logged.
LEMMA UnpinnedIsLogged ==
  ASSUME StorageInv, phase = "running", HeldGuards = {},
         NEW q \in PageId, Cached(q)
  PROVE  /\ page_table[q] \in FrameId /\ frames[page_table[q]].page_id = q
         /\ Logged(q) /\ frames[page_table[q]].page = LatestImage(q)
<1> USE DEF StorageInv
<1>1. PICK f : f = page_table[q]
  OBVIOUS
<1>2. f \in FrameId /\ frames[f].page_id = q
  BY <1>1 DEF StorageTypeOK, PoolTypeOK, Cached, FramesAreAccountedFor
<1>3. GuardsOn(f) = {}
  BY DEF GuardsOn
<1>4. frames[f].pin_count = 0
  BY <1>2, <1>3, FS_EmptySet DEF GuardsArePins
<1> QED
  BY <1>1, <1>2, <1>4 DEF CacheIsCurrent

\* The part FlushPage and FlushAll have in common: the frames of F become
\* clean, and the file has their pages as they were logged.
LEMMA FramesCleaned ==
  ASSUME StorageInv, phase = "running", HeldGuards = {}, NEW F \in SUBSET FrameId,
         frames' = [f \in FrameId |-> IF f \in F THEN [frames[f] EXCEPT !.dirty = FALSE]
                                      ELSE frames[f]],
         \A q \in PageId : file'[q] = IF Cached(q) /\ page_table[q] \in F
                                      THEN LatestImage(q) ELSE file[q],
         file' \in [PageId -> Image \cup {Corrupt}],
         durable' \in [PageId -> SUBSET (Image \cup {Corrupt})],
         file_size' \in 0 .. MaxPages, WriteAhead', FileSizeCovers',
         UNCHANGED <<next_page_id, page_table, free_list, lru_list, guard, walVars>>,
         UNCHANGED <<procVars, done>>
  PROVE  StorageInv'
<1> USE DEF StorageInv
<1>1. /\ page_table' = page_table /\ free_list' = free_list /\ lru_list' = lru_list
      /\ guard' = guard /\ UNCHANGED walVars /\ next_page_id' = next_page_id
      /\ phase' = "running" /\ todo' = todo /\ crashes' = crashes /\ done' = done
  BY DEF procVars
<1>2. \A f \in FrameId : frames[f] \in Frame
  BY DEF StorageTypeOK, PoolTypeOK
<1>3. ASSUME NEW f \in FrameId
      PROVE  /\ frames'[f] \in Frame /\ frames'[f].page_id = frames[f].page_id
             /\ frames'[f].page = frames[f].page
             /\ frames'[f].pin_count = frames[f].pin_count
             /\ f \notin F => frames'[f] = frames[f]
  BY <1>2 DEF Frame
<1>4. frames' \in [FrameId -> Frame]
  BY <1>3
<1>5. /\ FramesAreAccountedFor' /\ \A q \in PageId : Cached(q)' <=> Cached(q)
  BY <1>1, <1>3, FrameRewritten
<1>6. GuardsArePins'
  <2>1. HeldGuards' = {} /\ \A f \in FrameId : GuardsOn(f)' = GuardsOn(f)
    BY <1>1 DEF HeldGuards, GuardsOn
  <2> QED
    BY <1>1, <1>3, <2>1 DEF GuardsArePins
<1>7. /\ WalTypeOK' /\ LogShape' /\ LsnIsPosition' /\ DoneIsLogged'
      /\ \A q \in PageId : (Logged(q)' <=> Logged(q)) /\ LatestImage(q)' = LatestImage(q)
  BY <1>1, LogUnchanged
<1>8. StorageTypeOK'
  BY <1>1, <1>4, <1>7 DEF StorageTypeOK, DiskTypeOK, PoolTypeOK
<1>9. NextPageIdIsFresh' /\ ReplayedIsCurrent'
  BY <1>1, <1>5, <1>7 DEF NextPageIdIsFresh, ReplayedIsCurrent
<1>10. CacheIsCurrent'
  <2> SUFFICES ASSUME NEW q \in PageId
      PROVE IF Cached(q)
            THEN LET frame == frames'[page_table[q]]
                 IN  /\ ~frame.dirty => /\ Logged(q)
                                        /\ frame.page = LatestImage(q)
                                        /\ file'[q] = LatestImage(q)
                     /\ frame.pin_count = 0 => Logged(q) /\ frame.page = LatestImage(q)
                     /\ Logged(q) => frame.page.body >= LatestImage(q).body
            ELSE file'[q] = IF Logged(q) THEN LatestImage(q) ELSE Corrupt
    BY <1>1, <1>5, <1>7 DEF CacheIsCurrent
  <2>1. CASE ~Cached(q)
    BY <2>1 DEF CacheIsCurrent
  <2>2. CASE Cached(q)
    <3>1. PICK f : f = page_table[q]
      OBVIOUS
    <3>2. f \in FrameId /\ Logged(q) /\ frames[f].page = LatestImage(q)
      BY <2>2, <3>1, UnpinnedIsLogged
    <3>3. LatestImage(q).body \in Nat
      BY <3>2, LatestImageType DEF StorageTypeOK, Image
    <3>4. ~frames'[f].dirty => file'[q] = LatestImage(q)
      <4>1. CASE f \in F
        BY <2>2, <3>1, <4>1
      <4>2. CASE f \notin F
        BY <1>3, <2>2, <3>1, <3>2, <4>2 DEF CacheIsCurrent
      <4> QED
        BY <4>1, <4>2
    <3>5. frames'[f].page = LatestImage(q)
      BY <1>3, <3>2
    <3> QED
      BY <2>2, <3>1, <3>2, <3>3, <3>4, <3>5
  <2> QED
    BY <2>1, <2>2
<1> QED
  BY <1>5, <1>6, <1>7, <1>8, <1>9, <1>10

\* FlushPage, called while no guard is held.
LEMMA FlushPageInv ==
  ASSUME StorageInv, FlushWhilePinned = FALSE, NEW p \in PageId, PoolFlushPage(p)
  PROVE  StorageInv'
<1>1. /\ phase = "running" /\ HeldGuards = {} /\ Cached(p)
      /\ WritePage(p, frames[page_table[p]].page)
      /\ frames' = [frames EXCEPT ![page_table[p]].dirty = FALSE]
      /\ UNCHANGED <<next_page_id, page_table, free_list, lru_list, guard, walVars>>
      /\ UNCHANGED <<procVars, done>>
  BY DEF PoolFlushPage, FlushPage
<1>2. PICK f : f = page_table[p]
  OBVIOUS
<1>3. f \in FrameId /\ Logged(p) /\ frames[f].page = LatestImage(p) /\ frames[f].page_id = p
  BY <1>1, <1>2, UnpinnedIsLogged
<1>4. /\ file' \in [PageId -> Image \cup {Corrupt}]
      /\ durable' \in [PageId -> SUBSET (Image \cup {Corrupt})]
      /\ file_size' \in 0 .. MaxPages
      /\ WriteAhead'
      /\ FileSizeCovers'
      /\ \A q \in PageId : file'[q] = IF q = p THEN LatestImage(q) ELSE file[q]
  BY <1>1, <1>2, <1>3, LoggedPageWritten
<1>5. \A q \in PageId : Cached(q) => frames[page_table[q]].page_id = q
  BY <1>1, UnpinnedIsLogged
<1>6. \A q \in PageId : file'[q] = IF Cached(q) /\ page_table[q] \in {f}
                                   THEN LatestImage(q) ELSE file[q]
  BY <1>1, <1>2, <1>3, <1>4, <1>5
<1>7. frames \in [FrameId -> Frame]
  BY DEF StorageInv, StorageTypeOK, PoolTypeOK
<1>8. frames' = [e \in FrameId |-> IF e \in {f} THEN [frames[e] EXCEPT !.dirty = FALSE]
                                   ELSE frames[e]]
  BY <1>1, <1>2, <1>3, <1>7
<1> QED
  BY <1>1, <1>3, <1>4, <1>6, <1>8, FramesCleaned

\* FlushAll, called while no guard is held.
LEMMA FlushAllInv ==
  ASSUME StorageInv, FlushWhilePinned = FALSE, PoolFlushAll
  PROVE  StorageInv'
<1> USE DEF StorageInv
<1>0. PICK flushed : flushed = {p \in PageId : Cached(p) /\ frames[page_table[p]].dirty}
  OBVIOUS
<1>1. /\ phase = "running" /\ HeldGuards = {}
      /\ file' = [p \in PageId |-> IF p \in flushed
                                   THEN frames[page_table[p]].page ELSE file[p]]
      /\ durable' = [p \in PageId |-> IF p \in flushed
                                      THEN durable[p] \cup {file'[p], Corrupt}
                                      ELSE durable[p]]
      /\ file_size' = Max({file_size} \cup {p + 1 : p \in flushed})
      /\ frames' = [f \in FrameId |->
                      IF \E p \in flushed : page_table[p] = f
                      THEN [frames[f] EXCEPT !.dirty = FALSE] ELSE frames[f]]
      /\ UNCHANGED <<next_page_id, page_table, free_list, lru_list, guard, walVars>>
      /\ UNCHANGED <<procVars, done>>
  BY <1>0 DEF PoolFlushAll, FlushAll
<1>2. \A q \in PageId : Cached(q) =>
         /\ page_table[q] \in FrameId /\ frames[page_table[q]].page_id = q
         /\ Logged(q) /\ frames[page_table[q]].page = LatestImage(q)
  BY <1>1, UnpinnedIsLogged
<1>3. \A q \in flushed : /\ q \in PageId /\ Cached(q) /\ Logged(q)
                         /\ LatestImage(q) \in Image
                         /\ file'[q] = LatestImage(q)
  <2>1. \A q \in flushed : q \in PageId /\ Cached(q) /\ Logged(q) /\ file'[q] = LatestImage(q)
    BY <1>0, <1>1, <1>2
  <2>2. \A q \in flushed : LatestImage(q) \in Image
    BY <2>1, LatestImageType DEF StorageTypeOK
  <2> QED
    BY <2>1, <2>2
<1>4. /\ file \in [PageId -> Image \cup {Corrupt}]
      /\ durable \in [PageId -> SUBSET (Image \cup {Corrupt})]
      /\ file_size \in 0 .. MaxPages /\ MaxPages \in Nat
      /\ wal' = wal
  BY <1>1, MaxPagesAssumption DEF StorageTypeOK, DiskTypeOK, walVars
<1>5. \A q \in PageId \ flushed : file'[q] = file[q] /\ durable'[q] = durable[q]
  BY <1>1
<1>6. file' \in [PageId -> Image \cup {Corrupt}]
  <2>1. \A q \in PageId : file'[q] \in Image \cup {Corrupt}
    BY <1>3, <1>4, <1>5
  <2> QED
    BY <1>1, <2>1
<1>7. durable' \in [PageId -> SUBSET (Image \cup {Corrupt})]
  <2>1. \A q \in flushed : durable'[q] = durable[q] \cup {LatestImage(q), Corrupt}
    BY <1>1, <1>3
  <2>2. \A q \in PageId : durable'[q] \in SUBSET (Image \cup {Corrupt})
    BY <1>3, <1>4, <1>5, <2>1
  <2> QED
    BY <1>1, <2>2
<1>8. file_size' \in 0 .. MaxPages /\ file_size' >= file_size
      /\ \A q \in flushed : file_size' >= q + 1
  <2> DEFINE S == {file_size} \cup {p + 1 : p \in flushed}
  <2>1. S \in SUBSET (0 .. MaxPages) /\ S # {}
    BY <1>3, <1>4 DEF PageId
  <2>2. file_size \in S /\ \A q \in flushed : q + 1 \in S
    OBVIOUS
  <2>3. file_size' = Max(S)
    BY <1>1
  <2> HIDE DEF S
  <2>4. Max(S) \in S /\ \A y \in S : Max(S) >= y
    BY <1>4, <2>1, MaxOfBounded
  <2> QED
    BY <2>1, <2>2, <2>3, <2>4
<1>9. WriteAhead'
  <2> SUFFICES ASSUME NEW p \in PageId,
                      NEW content \in durable'[p] \cup {file'[p]}, content # Corrupt
               PROVE  \E i \in 1 .. Len(wal) : /\ wal[i] # Torn
                                               /\ wal[i].page_id = p
                                               /\ wal[i].page = content
    BY <1>4 DEF WriteAhead
  <2>1. CASE p \in flushed /\ content = LatestImage(p)
    BY <1>3, <2>1, LatestIsLogged
  <2>2. CASE ~(p \in flushed /\ content = LatestImage(p))
    <3>1. content \in durable[p] \cup {file[p]}
      BY <1>1, <1>3, <1>5, <2>2
    <3> QED
      BY <3>1 DEF WriteAhead
  <2> QED
    BY <2>1, <2>2
<1>10. FileSizeCovers'
  <2> SUFFICES ASSUME NEW q \in PageId, file'[q] # Corrupt PROVE q < file_size'
    BY DEF FileSizeCovers
  <2>1. CASE q \in flushed
    BY <1>8, <2>1 DEF PageId
  <2>2. CASE q \notin flushed
    <3>1. q < file_size
      BY <1>5, <2>2 DEF FileSizeCovers
    <3> QED
      BY <1>4, <1>8, <3>1 DEF PageId
  <2> QED
    BY <2>1, <2>2
<1>11. PICK F : F = {f \in FrameId : \E p \in flushed : page_table[p] = f}
  OBVIOUS
<1>12. F \in SUBSET FrameId
  BY <1>11
<1>13. frames' = [f \in FrameId |-> IF f \in F THEN [frames[f] EXCEPT !.dirty = FALSE]
                                    ELSE frames[f]]
  BY <1>1, <1>11
<1>14. ASSUME NEW q \in PageId
       PROVE  file'[q] = IF Cached(q) /\ page_table[q] \in F
                         THEN LatestImage(q) ELSE file[q]
  <2>1. CASE q \in flushed
    BY <1>2, <1>3, <1>11, <2>1
  <2>2. CASE q \notin flushed
    <3>1. ~(Cached(q) /\ page_table[q] \in F)
      <4>1. ASSUME Cached(q), page_table[q] \in F PROVE FALSE
        <5>1. PICK p \in flushed : page_table[p] = page_table[q]
          BY <1>11, <4>1
        <5>2. p = q
          BY <1>2, <1>3, <4>1, <5>1
        <5> QED
          BY <2>2, <5>1, <5>2
      <4> QED
        BY <4>1
    <3> QED
      BY <1>5, <2>2, <3>1
  <2> QED
    BY <2>1, <2>2
<1> QED
  BY <1>1, <1>6, <1>7, <1>8, <1>9, <1>10, <1>12, <1>13, <1>14, FramesCleaned

-----------------------------------------------------------------------------

\* Every step preserves the invariant.
LEMMA NextInv ==
  ASSUME FlushWhilePinned = FALSE
  PROVE  StorageInv /\ [Next]_vars => StorageInv'
<1> SUFFICES ASSUME StorageInv, [Next]_vars PROVE StorageInv'
  OBVIOUS
<1>1. CASE Open
  BY <1>1, OpenInv
<1>2. CASE \E p \in PageId : ReplayPage(p)
  BY <1>2, ReplayInv
<1>3. CASE FinishRecovery
  BY <1>3, FinishInv
<1>4. CASE \E g \in Guards, p \in PageId : PoolFetch(g, p)
  BY <1>4, FetchInv
<1>5. CASE \E g \in Guards : PoolNew(g)
  BY <1>5, NewInv
<1>6. CASE \E g \in Guards : PoolMutate(g)
  BY <1>6, MutateInv
<1>7. CASE \E g \in Guards : PoolRelease(g)
  BY <1>7, ReleaseInv
<1>8. CASE \E p \in PageId : PoolFlushPage(p)
  BY <1>8, FlushPageInv
<1>9. CASE PoolFlushAll
  BY <1>9, FlushAllInv
<1>10. CASE Close
  BY <1>10, CloseInv
<1>11. CASE Kill
  BY <1>11, KillInv
<1>12. CASE PowerLoss
  BY <1>12, PowerLossInv
<1>13. CASE UNCHANGED vars
  BY <1>13, UnchangedInv
<1> QED
  BY <1>1, <1>2, <1>3, <1>4, <1>5, <1>6, <1>7, <1>8, <1>9, <1>10, <1>11, <1>12, <1>13
     DEF Next

\* What was released is what is visible: the invariant implies durability.
LEMMA InvDurable == StorageInv => AckedSurvives
<1> USE DEF StorageInv
<1> SUFFICES ASSUME StorageInv, phase = "running", NEW p \in PageId, done[p] # NotDone
             PROVE  Visible(p) # Corrupt /\ Visible(p).body >= done[p]
  BY DEF AckedSurvives
<1>1. Logged(p) /\ done[p] = LatestImage(p).body
  BY DEF DoneIsLogged
<1>2. LatestImage(p) \in Image
  BY <1>1, LatestImageType DEF StorageTypeOK
<1>3. CASE Cached(p)
  <2>1. PICK f : f = page_table[p]
    OBVIOUS
  <2>2. f \in FrameId /\ frames[f] \in Frame
    BY <1>3, <2>1 DEF Cached, StorageTypeOK, PoolTypeOK
  <2>3. frames[f].page \in Image
    BY <2>2 DEF Frame
  <2>4. frames[f].page.body >= LatestImage(p).body
    BY <1>1, <1>3, <2>1 DEF CacheIsCurrent
  <2>5. Visible(p) = frames[f].page
    BY <1>3, <2>1 DEF Visible
  <2> QED
    BY <1>1, <2>3, <2>4, <2>5, CorruptAssumption
<1>4. CASE ~Cached(p)
  <2>1. Visible(p) = LatestImage(p)
    BY <1>1, <1>4 DEF Visible, CacheIsCurrent
  <2>2. LatestImage(p).body \in Nat
    BY <1>2 DEF Image
  <2> QED
    BY <1>1, <1>2, <2>1, <2>2, CorruptAssumption
<1> QED
  BY <1>3, <1>4

\* The inductive invariant: whatever is called, evicted, flushed between
\* operations, lost or recovered, in a file and a pool of any size, the log,
\* the file, the frames and the guards agree as StorageInv says.
THEOREM StorageInvariance ==
  ASSUME FlushWhilePinned = FALSE
  PROVE  Spec => []StorageInv
<1>1. Init => StorageInv
  BY InitInv
<1>2. StorageInv /\ [Next]_vars => StorageInv'
  BY NextInv
<1> QED
  BY <1>1, <1>2, PTL DEF Spec

\* Durability: a page whose guard was released (UnpinPage has logged it) is
\* never lost by an eviction, a kill, a power loss or recovery.
THEOREM Durability ==
  ASSUME FlushWhilePinned = FALSE
  PROVE  Spec => []AckedSurvives
BY StorageInvariance, InvDurable, PTL

\* The write-ahead rule: nothing reaches the data file before the log.
THEOREM WriteAheadRule ==
  ASSUME FlushWhilePinned = FALSE
  PROVE  Spec => []WriteAhead
<1>1. StorageInv => WriteAhead
  BY DEF StorageInv
<1> QED
  BY <1>1, StorageInvariance, PTL

\* A page outside the cache, a clean frame and an unpinned frame are what
\* the log says, which is what makes eviction without logging correct.
THEOREM CacheCoherence ==
  ASSUME FlushWhilePinned = FALSE
  PROVE  Spec => []CacheIsCurrent
<1>1. StorageInv => CacheIsCurrent
  BY DEF StorageInv
<1> QED
  BY <1>1, StorageInvariance, PTL

\* A pinned frame is never a victim and is never handed to another page.
THEOREM PinsHold ==
  ASSUME FlushWhilePinned = FALSE
  PROVE  Spec => []GuardsArePins
<1>1. StorageInv => GuardsArePins
  BY DEF StorageInv
<1> QED
  BY <1>1, StorageInvariance, PTL

\* The pool's bookkeeping: every cached page is in one frame, every used
\* frame holds one page and no frame is both used and free.
THEOREM FramesHold ==
  ASSUME FlushWhilePinned = FALSE
  PROVE  Spec => []FramesAreAccountedFor
<1>1. StorageInv => FramesAreAccountedFor
  BY DEF StorageInv
<1> QED
  BY <1>1, StorageInvariance, PTL

\* AllocatePage's counter is beyond every page, after a recovery too.
THEOREM PageIdsAreFresh ==
  ASSUME FlushWhilePinned = FALSE
  PROVE  Spec => []NextPageIdIsFresh
<1>1. StorageInv => NextPageIdIsFresh
  BY DEF StorageInv
<1> QED
  BY <1>1, StorageInvariance, PTL

\* No step loses a valid record of the log: not an append, which writes
\* after the last of them, not a crash, not the truncation of a torn tail.
THEOREM LogIsAppendOnly ==
  ASSUME FlushWhilePinned = FALSE
  PROVE  Spec => LogOnlyGrows
<1> DEFINE Kept == \A i \in 1 .. Len(wal) : wal[i] # Torn =>
                      i \in DOMAIN wal' /\ wal'[i] = wal[i]
<1>1. ASSUME StorageInv, [Next]_vars PROVE Kept \/ UNCHANGED vars
  <2>0. wal \in Seq(Record \cup {Torn})
    BY <1>1 DEF StorageInv, StorageTypeOK, WalTypeOK
  <2>1. CASE Open
    <3>1. /\ Len(wal') = next_offset /\ wal' \in Seq(Record \cup {Torn})
          /\ \A i \in 1 .. next_offset : wal'[i] = wal[i]
      BY <1>1, <2>1, ScanKeepsRecords DEF Open
    <3>2. \A i \in 1 .. Len(wal) : wal[i] # Torn => i \in 1 .. next_offset
      BY <1>1 DEF StorageInv, StorageTypeOK, WalTypeOK, LogShape
    <3> QED
      BY <3>1, <3>2
  <2>2. CASE \E g \in Guards : PoolRelease(g)
    <3>1. PICK g \in Guards : PoolRelease(g)
      BY <2>2
    <3>2. PICK f, p : f = guard[g].frame /\ p = guard[g].page_id
      OBVIOUS
    <3>3. /\ phase = "running" /\ guard[g] # NoGuard /\ UnpinPage(p, frames[f].dirty)
      BY <3>1, <3>2 DEF PoolRelease, Release
    <3>4. p \in PageId /\ f \in FrameId /\ g \in HeldGuards
      BY <1>1, <3>2, <3>3 DEF StorageInv, StorageTypeOK, PoolTypeOK, Handle, HeldGuards
    <3>5. page_table[p] = f /\ frames[f].page \in Image
      BY <1>1, <3>2, <3>3, <3>4
         DEF StorageInv, StorageTypeOK, PoolTypeOK, GuardsArePins, Frame
    <3>6. CASE wal' = wal
      BY <2>0, <3>6
    <3>7. CASE AppendRecord(p, frames[f].page)
      <4>1. /\ wal' \in Seq(Record \cup {Torn}) /\ Len(wal') = Len(wal) + 1
            /\ \A i \in 1 .. Len(wal) : wal'[i] = wal[i]
        BY <1>1, <3>3, <3>4, <3>5, <3>7, RecordAppended DEF StorageInv, StorageTypeOK
      <4> QED
        BY <2>0, <4>1
    <3> QED
      BY <3>3, <3>5, <3>6, <3>7 DEF UnpinPage, walVars
  <2>3. CASE Kill \/ PowerLoss
    <3>1. /\ \A i \in 1 .. Len(wal) : i \in 1 .. Len(wal') /\ wal'[i] = wal[i]
          /\ WalTypeOK'
      BY <1>1, <2>3, AppendLost DEF Kill, PowerLoss
    <3> QED
      BY <3>1 DEF WalTypeOK
  <2>4. CASE wal' = wal
    BY <2>0, <2>4
  <2>5. ASSUME \E g \in Guards : \E p \in PageId : PoolFetch(g, p) PROVE wal' = wal
    BY <2>5 DEF PoolFetch, FetchPage, FetchHit, FetchMiss, FetchThrows, FetchExhausted, walVars
  <2>6. ASSUME \E g \in Guards : PoolNew(g) \/ PoolMutate(g) PROVE wal' = wal
    BY <2>6 DEF PoolNew, NewPage, PoolMutate, Mutate, walVars
  <2>7. ASSUME PoolFlushAll \/ \E p \in PageId : PoolFlushPage(p) \/ ReplayPage(p)
        PROVE  wal' = wal
    BY <2>7 DEF PoolFlushAll, FlushAll, PoolFlushPage, FlushPage, ReplayPage, walVars
  <2>8. ASSUME FinishRecovery \/ Close PROVE wal' = wal
    BY <2>8 DEF FinishRecovery, Close, walVars
  <2> QED
    BY <1>1, <2>1, <2>2, <2>3, <2>4, <2>5, <2>6, <2>7, <2>8 DEF Next
<1>2. StorageInv /\ [Next]_vars => [Kept]_vars
  BY <1>1
<1> QED
  BY <1>2, StorageInvariance, PTL DEF Spec, LogOnlyGrows

-----------------------------------------------------------------------------
(* Storage implements PageStore: under the mapping of module Storage every *)
(* step of the engine is a step of the page store or leaves it as it is.   *)

\* What the mapping makes of the guards: a handle holds the page its guard
\* pins, and nothing if it has none.
LEMMA HandlesAreGuards ==
  ASSUME StorageInv
  PROVE  /\ NotDone \notin PageId
         /\ HeldPages \in [Guards -> PageId \cup {NotDone}]
         /\ \A g \in Guards : HeldPages[g] = NotDone <=> guard[g] = NoGuard
         /\ \A g \in HeldGuards : HeldPages[g] = guard[g].page_id /\ HeldPages[g] \in PageId
         /\ \A p \in PageId : Store!Pinned(p) <=> PinnedPage(p)
<1>1. NotDone \notin PageId
  BY MaxPagesAssumption DEF NotDone, PageId
<1>2. guard \in [Guards -> Handle \cup {NoGuard}]
  BY DEF StorageInv, StorageTypeOK, PoolTypeOK
<1>3. \A g \in HeldGuards : guard[g].page_id \in PageId
  BY <1>2 DEF Handle, HeldGuards
<1> QED
  BY <1>1, <1>2, <1>3 DEF HeldPages, HeldGuards, PinnedPage, Store!Pinned

\* A pinned page is in the frame its guards point at.
LEMMA PinnedIsCached ==
  ASSUME StorageInv, phase = "running", NEW p \in PageId, PinnedPage(p)
  PROVE  Cached(p) /\ page_table[p] \in FrameId /\ \E g \in HeldGuards : page_table[p] = guard[g].frame
<1>1. PICK g \in HeldGuards : guard[g].page_id = p
  BY DEF PinnedPage
<1>2. guard[g].frame \in FrameId
  BY <1>1 DEF StorageInv, StorageTypeOK, PoolTypeOK, HeldGuards, Handle
<1> QED
  BY <1>1, <1>2, NoFrameAssumption DEF StorageInv, GuardsArePins, Cached

\* A cached page no guard is on is in its frame as it was last logged.
LEMMA UnpinnedIsStored ==
  ASSUME StorageInv, phase = "running", NEW p \in PageId, Cached(p), ~PinnedPage(p)
  PROVE  Logged(p) /\ frames[page_table[p]].page = LatestImage(p)
<1> USE DEF StorageInv
<1>1. PICK f : f = page_table[p]
  OBVIOUS
<1>2. f \in FrameId /\ frames[f].page_id = p
  BY <1>1 DEF StorageTypeOK, PoolTypeOK, Cached, FramesAreAccountedFor
<1>3. GuardsOn(f) = {}
  BY <1>1, <1>2 DEF GuardsOn, GuardsArePins, PinnedPage
<1>4. frames[f].pin_count = 0
  BY <1>2, <1>3, FS_EmptySet DEF GuardsArePins
<1> QED
  BY <1>1, <1>4 DEF CacheIsCurrent

\* A step that changes no valid record leaves the stored pages alone.
LEMMA SameStore ==
  ASSUME \A p \in PageId : /\ Logged(p)' <=> Logged(p)
                           /\ Logged(p) => LatestImage(p)' = LatestImage(p)
  PROVE  StoredBodies' = StoredBodies
BY DEF StoredBodies

\* A step that changes neither the guards nor what is in the frames they
\* point at leaves the handles and the buffers alone.
LEMMA SameBuffers ==
  ASSUME guard' = guard,
         \A p \in PageId : PinnedPage(p) =>
            frames'[page_table'[p]].page.body = frames[page_table[p]].page.body
  PROVE  HeldPages' = HeldPages /\ BufferBodies' = BufferBodies
<1>1. HeldGuards' = HeldGuards
  BY DEF HeldGuards
<1>2. \A p \in PageId : PinnedPage(p)' <=> PinnedPage(p)
  BY <1>1 DEF PinnedPage
<1> QED
  BY <1>2 DEF HeldPages, BufferBodies

\* With the pool, the handles and buffers are gone.
LEMMA PoolVanishes ==
  ASSUME ConstructPool, StoredBodies' = StoredBodies
  PROVE  Store!Vanish
<1>1. HeldGuards' = {}
  BY DEF ConstructPool, HeldGuards
<1>2. \A p \in PageId : ~PinnedPage(p)'
  BY <1>1 DEF PinnedPage
<1>3. HeldPages' = [g \in Guards |-> NotDone]
  BY DEF ConstructPool, HeldPages
<1>4. BufferBodies' = [p \in PageId |-> NotDone]
  BY <1>2 DEF BufferBodies
<1> QED
  BY <1>3, <1>4 DEF Store!Vanish

-----------------------------------------------------------------------------

\* FetchPage on a cached page pins it: its frame is the shared buffer if it
\* is pinned already, and the stored page if it is not.
LEMMA FetchHitPins ==
  ASSUME StorageInv, phase = "running", NEW g \in Guards, NEW p \in PageId,
         guard[g] = NoGuard, FetchHit(g, p)
  PROVE  Store!Pin(g, p)
<1> USE DEF StorageInv
<1>0. PICK f : f = page_table[p]
  OBVIOUS
<1>1. /\ Cached(p) /\ frames' = [frames EXCEPT ![f].pin_count = @ + 1]
      /\ guard' = [guard EXCEPT ![g] = [page_id |-> p, frame |-> f]]
      /\ page_table' = page_table /\ UNCHANGED walVars
  BY <1>0 DEF FetchHit
<1>2. f \in FrameId /\ frames \in [FrameId -> Frame] /\ PoolTypeOK
      /\ page_table \in [PageId -> FrameId \cup {NoFrame}]
      /\ guard \in [Guards -> Handle \cup {NoGuard}]
  BY <1>0, <1>1 DEF Cached, StorageTypeOK, PoolTypeOK
<1>3. \A q \in PageId : Cached(q) => frames'[page_table[q]].page = frames[page_table[q]].page
  BY <1>1, <1>2 DEF Cached, Frame
<1>4. StoredBodies' = StoredBodies
  BY <1>1 DEF walVars, StoredBodies, Logged, LatestImage
<1>5. /\ HeldGuards' = HeldGuards \cup {g} /\ g \notin HeldGuards
      /\ guard'[g].page_id = p /\ \A h \in HeldGuards : guard'[h] = guard[h]
  BY <1>1, <1>2, GuardTaken
<1>6. \A q \in PageId : PinnedPage(q)' <=> PinnedPage(q) \/ q = p
  BY <1>5 DEF PinnedPage
<1>7. HeldPages' = [HeldPages EXCEPT ![g] = p]
  <2>1. guard'[g] # NoGuard
    BY <1>5 DEF HeldGuards
  <2> QED
    BY <1>1, <1>2, <2>1 DEF HeldPages
<1>8. BufferBodies' =
        [BufferBodies EXCEPT ![p] = IF PinnedPage(p) THEN @ ELSE StoredBodies[p]]
  <2>1. \A q \in PageId \ {p} : BufferBodies'[q] = BufferBodies[q]
    BY <1>1, <1>3, <1>6, PinnedIsCached DEF BufferBodies
  <2>2. PinnedPage(p) => BufferBodies'[p] = BufferBodies[p]
    BY <1>1, <1>3, <1>6 DEF BufferBodies
  <2>3. ~PinnedPage(p) => BufferBodies'[p] = StoredBodies[p]
    BY <1>1, <1>3, <1>6, UnpinnedIsStored DEF BufferBodies, StoredBodies
  <2> QED
    BY <2>1, <2>2, <2>3 DEF BufferBodies
<1>9. StoredBodies[p] # NotDone \/ PinnedPage(p)
  <2>1. SUFFICES ASSUME ~PinnedPage(p) PROVE StoredBodies[p] # NotDone
    OBVIOUS
  <2>2. Logged(p) /\ LatestImage(p) \in Image
    BY <1>1, <2>1, UnpinnedIsStored, LatestImageType DEF StorageTypeOK
  <2> QED
    BY <2>2 DEF StoredBodies, NotDone, Image
<1> QED
  BY <1>4, <1>7, <1>8, <1>9, HandlesAreGuards DEF Store!Pin

\* In the page store, handle g takes the unpinned page p with a buffer that
\* holds the given body.
Takes(g, p, body) ==
    /\ ~PinnedPage(p)
    /\ StoredBodies' = StoredBodies
    /\ HeldPages' = [HeldPages EXCEPT ![g] = p]
    /\ BufferBodies' = [BufferBodies EXCEPT ![p] = body]

\* Loading a page into a victim frame: no other pinned page is touched.
LEMMA InstallBuffers ==
  ASSUME StorageInv, phase = "running", phase' = "running",
         NEW v, v = VictimFrame, v # NoFrame, wal' = wal, next_offset' = next_offset,
         NEW g \in Guards, guard[g] = NoGuard,
         NEW p \in PageId, ~Cached(p),
         NEW image \in Image, NEW isDirty \in BOOLEAN,
         Install(g, v, p, image, isDirty)
  PROVE  Takes(g, p, image.body)
<1> USE DEF StorageInv
<1>1. /\ page_table'[p] = v /\ v \in FrameId
      /\ frames'[v] = [page |-> image, page_id |-> p, pin_count |-> 1, dirty |-> isDirty]
      /\ \A q \in PageId \ {p} : page_table[q] # v => page_table'[q] = page_table[q]
      /\ \A f \in FrameId \ {v} : frames'[f] = frames[f]
  BY Installed
<1>2. guard' = [guard EXCEPT ![g] = [page_id |-> p, frame |-> v]]
  BY DEF Install
<1>3. PoolTypeOK /\ guard \in [Guards -> Handle \cup {NoGuard}]
  BY DEF StorageTypeOK, PoolTypeOK
<1>4. /\ HeldGuards' = HeldGuards \cup {g} /\ g \notin HeldGuards
      /\ guard'[g].page_id = p /\ \A h \in HeldGuards : guard'[h] = guard[h]
  BY <1>1, <1>2, <1>3, GuardTaken
<1>5. ~PinnedPage(p)
  BY PinnedIsCached
<1>6. \A q \in PageId : PinnedPage(q)' <=> PinnedPage(q) \/ q = p
  BY <1>4 DEF PinnedPage
<1>7. StoredBodies' = StoredBodies
  BY DEF StoredBodies, Logged, LatestImage
<1>8. HeldPages' = [HeldPages EXCEPT ![g] = p]
  <2>1. guard'[g] # NoGuard
    BY <1>4 DEF HeldGuards
  <2> QED
    BY <1>2, <1>3, <2>1 DEF HeldPages
<1>9. BufferBodies' = [BufferBodies EXCEPT ![p] = image.body]
  <2>1. \A h \in HeldGuards : guard[h].frame # v
    BY VictimIsReplaceable
  <2>2. \A q \in PageId \ {p} : BufferBodies'[q] = BufferBodies[q]
    BY <1>1, <1>6, <2>1, PinnedIsCached DEF BufferBodies
  <2>3. BufferBodies'[p] = image.body
    BY <1>1, <1>6 DEF BufferBodies
  <2> QED
    BY <2>2, <2>3 DEF BufferBodies
<1> QED
  BY <1>5, <1>7, <1>8, <1>9 DEF Takes

\* FetchPage on a page that is read from the file pins the stored page.
LEMMA FetchMissPins ==
  ASSUME StorageInv, phase = "running", phase' = "running",
         NEW g \in Guards, NEW p \in PageId, guard[g] = NoGuard, FetchMiss(g, p)
  PROVE  Store!Pin(g, p)
<1> DEFINE v == VictimFrame
<1>1. /\ ~Cached(p) /\ v # NoFrame /\ file[p] # Corrupt
      /\ wal' = wal /\ next_offset' = next_offset
      /\ Install(g, v, p, file[p], FALSE)
  BY DEF FetchMiss, Readable, ReadPage, walVars
<1>2. Logged(p) /\ file[p] = LatestImage(p)
  BY <1>1 DEF StorageInv, CacheIsCurrent
<1>3. file[p] \in Image
  BY <1>2, LatestImageType DEF StorageInv, StorageTypeOK
<1>4. Takes(g, p, file[p].body)
  <2> HIDE DEF v
  <2>1. v = VictimFrame
    BY DEF v
  <2> QED
    BY <1>1, <1>3, <2>1, InstallBuffers
<1>5. StoredBodies[p] = file[p].body /\ StoredBodies[p] # NotDone
  BY <1>2, <1>3 DEF StoredBodies, Image, NotDone
<1> QED
  BY <1>4, <1>5, HandlesAreGuards DEF Store!Pin, Takes

\* NewPage creates a page that is neither stored nor pinned.
LEMMA NewPageCreates ==
  ASSUME StorageInv, phase = "running", phase' = "running",
         NEW g \in Guards, guard[g] = NoGuard, VictimFrame # NoFrame, AllocatePage,
         Install(g, VictimFrame, next_page_id, ZeroImage, TRUE), UNCHANGED walVars
  PROVE  \E p \in PageId : Store!Create(g, p)
<1> DEFINE p == next_page_id
<1>1. p \in PageId
  BY MaxPagesAssumption DEF AllocatePage, StorageInv, StorageTypeOK, DiskTypeOK, PageId
<1>2. ~Logged(p) /\ ~Cached(p)
  BY <1>1 DEF StorageInv, NextPageIdIsFresh, PageId
<1>3. ZeroImage \in Image /\ ZeroImage.body = 0
  BY DEF ZeroImage, Image
<1>4. Takes(g, p, ZeroImage.body)
  <2> HIDE DEF p
  <2>1. PICK v : v = VictimFrame
    OBVIOUS
  <2>2. /\ Install(g, v, p, ZeroImage, TRUE) /\ v # NoFrame
        /\ wal' = wal /\ next_offset' = next_offset
    BY <2>1 DEF p, walVars
  <2> QED
    BY <1>1, <1>2, <1>3, <2>1, <2>2, InstallBuffers
<1>5. StoredBodies[p] = NotDone
  BY <1>1, <1>2 DEF StoredBodies
<1> QED
  BY <1>1, <1>3, <1>4, <1>5, HandlesAreGuards DEF Store!Create, Takes

\* A refused read changes nothing a caller can see: no guard is on the frame
\* that is lost.
LEMMA FetchThrowsStutters ==
  ASSUME StorageInv, phase = "running", NEW g \in Guards, NEW p \in PageId,
         FetchThrows(g, p)
  PROVE  UNCHANGED Store!storeVars
<1>0. PICK v : v = VictimFrame
  OBVIOUS
<1>1. /\ v # NoFrame /\ page_table' = TableAfter(v)
      /\ frames' = frames /\ guard' = guard /\ UNCHANGED walVars
  BY <1>0 DEF FetchThrows
<1>2. \A h \in HeldGuards : guard[h].frame # v
  BY <1>0, <1>1, VictimIsReplaceable
<1>3. \A q \in PageId : TableAfter(v)[q] = IF page_table[q] = v THEN NoFrame ELSE page_table[q]
  BY <1>0, <1>1, VictimTaken
<1>4. \A q \in PageId : PinnedPage(q) => page_table'[q] = page_table[q]
  BY <1>1, <1>2, <1>3, PinnedIsCached
<1>5. HeldPages' = HeldPages /\ BufferBodies' = BufferBodies
  BY <1>1, <1>4, SameBuffers
<1>6. StoredBodies' = StoredBodies
  BY <1>1 DEF walVars, StoredBodies, Logged, LatestImage
<1> QED
  BY <1>5, <1>6 DEF Store!storeVars

\* A mutation through a guard writes the shared buffer of its page.
LEMMA MutateWrites ==
  ASSUME StorageInv, NEW g \in Guards, PoolMutate(g)
  PROVE  \E b \in 0 .. MaxBody : Store!Write(g, b)
<1> USE DEF StorageInv
<1>0. PICK f, p : f = guard[g].frame /\ p = guard[g].page_id
  OBVIOUS
<1> DEFINE image == [frames[f].page EXCEPT !.body = frames[f].page.body + 1]
           new == [page |-> image, page_id |-> frames[f].page_id,
                   pin_count |-> frames[f].pin_count, dirty |-> TRUE]
<1>1. /\ phase = "running" /\ guard[g] # NoGuard /\ frames[f].page.body < MaxBody
      /\ frames' = [frames EXCEPT ![f] = new]
      /\ page_table' = page_table /\ guard' = guard /\ UNCHANGED walVars
  BY <1>0 DEF PoolMutate, Mutate
<1>2. g \in HeldGuards /\ f \in FrameId /\ p \in PageId /\ frames \in [FrameId -> Frame]
  BY <1>0, <1>1 DEF StorageTypeOK, PoolTypeOK, Handle, HeldGuards
<1>3. frames[f].page \in Image /\ frames[f].page.body \in Nat
  BY <1>2 DEF Frame, Image
<1>4. page_table[p] = f /\ PinnedPage(p)
  BY <1>0, <1>1, <1>2 DEF GuardsArePins, PinnedPage
<1> DEFINE b == frames[f].page.body + 1
<1>5. b \in 0 .. MaxBody
  BY <1>1, <1>3, BoundsAssumption
<1>6. frames'[f].page.body = b /\ \A e \in FrameId \ {f} : frames'[e] = frames[e]
  BY <1>1, <1>2, <1>3 DEF Image
<1>7. \A q \in PageId : PinnedPage(q)' <=> PinnedPage(q)
  BY <1>1 DEF PinnedPage, HeldGuards
<1>8. \A q \in PageId \ {p} : PinnedPage(q) => page_table[q] \in FrameId \ {f}
  BY <1>1, <1>2, <1>4, PinnedIsCached DEF FramesAreAccountedFor
<1>9. BufferBodies' = [BufferBodies EXCEPT ![p] = b]
  <2> HIDE DEF b
  <2>1. \A q \in PageId \ {p} : BufferBodies'[q] = BufferBodies[q]
    BY <1>1, <1>6, <1>7, <1>8 DEF BufferBodies
  <2>2. BufferBodies'[p] = b
    BY <1>1, <1>2, <1>4, <1>6, <1>7 DEF BufferBodies
  <2> QED
    BY <1>2, <2>1, <2>2 DEF BufferBodies
<1>10. HeldPages' = HeldPages
  BY <1>1 DEF HeldPages
<1>11. StoredBodies' = StoredBodies
  BY <1>1 DEF walVars, StoredBodies, Logged, LatestImage
<1>12. HeldPages[g] = p /\ HeldPages[g] # NotDone
  BY <1>0, <1>1, <1>2, HandlesAreGuards
<1> HIDE DEF b
<1>13. Store!Write(g, b)
  BY <1>9, <1>10, <1>11, <1>12 DEF Store!Write
<1> QED
  BY <1>5, <1>13

\* The release of a guard stores the buffer of its page: it was just logged
\* if the frame is dirty, and it is what was last logged if it is not.
LEMMA ReleaseUnpins ==
  ASSUME StorageInv, NEW g \in Guards, PoolRelease(g)
  PROVE  Store!Unpin(g)
<1> USE DEF StorageInv
<1>0. PICK f, p : f = guard[g].frame /\ p = guard[g].page_id
  OBVIOUS
<1>1. /\ phase = "running" /\ guard[g] # NoGuard
      /\ UnpinPage(p, frames[f].dirty)
      /\ guard' = [guard EXCEPT ![g] = NoGuard]
      /\ page_table' = page_table
  BY <1>0 DEF PoolRelease, Release
<1>2. /\ PoolTypeOK /\ frames \in [FrameId -> Frame] /\ f \in FrameId /\ p \in PageId
      /\ g \in HeldGuards /\ guard \in [Guards -> Handle \cup {NoGuard}]
  BY <1>0, <1>1 DEF StorageTypeOK, PoolTypeOK, Handle, HeldGuards
<1>3. page_table[p] = f /\ Cached(p) /\ PinnedPage(p)
  BY <1>0, <1>1, <1>2, NoFrameAssumption DEF GuardsArePins, Cached, PinnedPage
<1>4. /\ HeldGuards' = HeldGuards \ {g}
      /\ \A h \in HeldGuards' : guard'[h] = guard[h] /\ h \in HeldGuards
  BY <1>0, <1>1, <1>2, GuardDropped
<1>5. /\ frames[f] \in Frame /\ frames[f].page \in Image /\ frames[f].page.body \in Nat
      /\ frames[f].dirty \in BOOLEAN
  BY <1>2 DEF Frame, Image
<1>6. /\ \A e \in FrameId : frames'[e].page.body = frames[e].page.body
      /\ Logged(p)' /\ LatestImage(p)'.body = frames[f].page.body
      /\ \A q \in PageId \ {p} : /\ Logged(q)' <=> Logged(q)
                                 /\ Logged(q) => LatestImage(q)' = LatestImage(q)
  <2>1. CASE frames[f].dirty
    <3>1. /\ AppendRecord(p, frames[f].page)
          /\ \E pins : frames' = [frames EXCEPT
                ![f] = [page |-> Stamped(frames[f].page), page_id |-> frames[f].page_id,
                        pin_count |-> pins, dirty |-> TRUE]]
      BY <1>1, <1>3, <2>1 DEF UnpinPage
    <3>2. Stamped(frames[f].page).body = frames[f].page.body
      BY <1>5 DEF Stamped, Image
    <3>3. /\ Logged(p)' /\ LatestImage(p)' = Stamped(frames[f].page)
          /\ \A q \in PageId \ {p} : /\ Logged(q)' <=> Logged(q)
                                     /\ Logged(q) => LatestImage(q)' = LatestImage(q)
      BY <1>1, <1>2, <1>5, <3>1, RecordAppended DEF StorageTypeOK
    <3>4. \A e \in FrameId : frames'[e].page.body = frames[e].page.body
      BY <1>2, <3>1, <3>2
    <3> QED
      BY <3>2, <3>3, <3>4
  <2>2. CASE ~frames[f].dirty
    <3>1. /\ UNCHANGED walVars
          /\ \E pins : frames' = [frames EXCEPT ![f] = [frames[f] EXCEPT !.pin_count = pins]]
      BY <1>1, <1>3, <2>2 DEF UnpinPage
    <3>2. \A q \in PageId : /\ Logged(q)' <=> Logged(q)
                            /\ LatestImage(q)' = LatestImage(q)
      BY <3>1 DEF walVars, Logged, LatestImage
    <3>3. Logged(p) /\ frames[f].page = LatestImage(p)
      BY <1>1, <1>2, <1>3, <2>2 DEF CacheIsCurrent
    <3>4. \A e \in FrameId : frames'[e].page.body = frames[e].page.body
      BY <1>2, <1>5, <3>1 DEF Frame
    <3> QED
      BY <1>2, <3>2, <3>3, <3>4
  <2> QED
    BY <2>1, <2>2
<1>7. BufferBodies[p] = frames[f].page.body
  BY <1>2, <1>3 DEF BufferBodies
<1>8. StoredBodies' = [StoredBodies EXCEPT ![p] = BufferBodies[p]]
  BY <1>2, <1>6, <1>7 DEF StoredBodies
<1>9. HeldPages' = [HeldPages EXCEPT ![g] = NotDone]
  BY <1>1, <1>2 DEF HeldPages
<1>10. HeldPages[g] = p /\ p # NotDone
  BY <1>0, <1>1, <1>2, HandlesAreGuards
<1>11. PinnedPage(p)' <=> \E k \in Guards \ {g} : HeldPages[k] = p
  BY <1>2, <1>4, HandlesAreGuards DEF PinnedPage, HeldGuards
<1>12. \A q \in PageId \ {p} : PinnedPage(q)' <=> PinnedPage(q)
  BY <1>0, <1>2, <1>4 DEF PinnedPage
<1>13. BufferBodies' = [BufferBodies EXCEPT
          ![p] = IF \E k \in Guards \ {g} : HeldPages[k] = p THEN @ ELSE NotDone]
  <2>1. \A q \in PageId \ {p} : BufferBodies'[q] = BufferBodies[q]
    BY <1>1, <1>6, <1>12, PinnedIsCached DEF BufferBodies
  <2>2. BufferBodies'[p] = IF PinnedPage(p)' THEN BufferBodies[p] ELSE NotDone
    BY <1>1, <1>2, <1>3, <1>6, <1>7 DEF BufferBodies
  <2> QED
    BY <1>2, <1>11, <2>1, <2>2, ZenonT(60) DEF BufferBodies
<1> QED
  BY <1>8, <1>9, <1>10, <1>13 DEF Store!Unpin

\* Opening the log drops a torn record and nothing that is stored.
LEMMA OpenStutters ==
  ASSUME StorageInv, Open
  PROVE  UNCHANGED Store!storeVars
<1> USE DEF StorageInv
<1>1. OpenWAL /\ frames' = frames /\ page_table' = page_table /\ guard' = guard
  BY DEF Open, poolVars
<1>2. /\ wal' \in Seq(Record \cup {Torn}) /\ Len(wal') = next_offset
      /\ next_offset' = next_offset
      /\ \A i \in 1 .. next_offset : wal'[i] = wal[i]
  BY <1>1, ScanKeepsRecords
<1>3. next_offset \in 0 .. Len(wal')
  BY <1>2 DEF StorageTypeOK, WalTypeOK
<1>4. \A p \in PageId : /\ Logged(p)' <=> Logged(p)
                        /\ Logged(p) => LatestImage(p)' = LatestImage(p)
  BY <1>2, <1>3, SameRecords DEF StorageTypeOK
<1>5. StoredBodies' = StoredBodies
  BY <1>4, SameStore
<1>6. HeldPages' = HeldPages /\ BufferBodies' = BufferBodies
  BY <1>1, SameBuffers
<1> QED
  BY <1>5, <1>6 DEF Store!storeVars

\* A crash leaves the stored pages and nothing else.
LEMMA CrashVanishes ==
  ASSUME StorageInv, Kill \/ PowerLoss
  PROVE  Store!Vanish
<1> USE DEF StorageInv
<1>1. /\ phase # "closed" /\ phase' = "closed" /\ ConstructPool
      /\ LoseAppend(HeldGuards # {})
  BY DEF Kill, PowerLoss
<1>2. /\ WalTypeOK' /\ next_offset' = next_offset
      /\ \A i \in 1 .. Len(wal) : i \in 1 .. Len(wal') /\ wal'[i] = wal[i]
  BY <1>1, AppendLost DEF LoseAppend
<1>3. /\ wal' \in Seq(Record \cup {Torn}) /\ next_offset \in 0 .. Len(wal')
      /\ \A i \in 1 .. next_offset : wal'[i] = wal[i]
  BY <1>2 DEF WalTypeOK, StorageTypeOK
<1>4. \A p \in PageId : /\ Logged(p)' <=> Logged(p)
                        /\ Logged(p) => LatestImage(p)' = LatestImage(p)
  BY <1>2, <1>3, SameRecords DEF StorageTypeOK
<1> QED
  BY <1>1, <1>4, SameStore, PoolVanishes

\* A step that leaves the log alone and changes no page a guard is on.
LEMMA QuietStutters ==
  ASSUME UNCHANGED walVars, page_table' = page_table, guard' = guard,
         frames' = frames \/ HeldGuards = {}
  PROVE  UNCHANGED Store!storeVars
<1>1. StoredBodies' = StoredBodies
  BY DEF walVars, StoredBodies, Logged, LatestImage
<1>2. HeldPages' = HeldPages /\ BufferBodies' = BufferBodies
  BY SameBuffers DEF PinnedPage
<1> QED
  BY <1>1, <1>2 DEF Store!storeVars

\* The step of the page store, if any, that a step of the engine is.
LEMMA StepRefines ==
  ASSUME FlushWhilePinned = FALSE, StorageInv, [Next]_vars
  PROVE  [Store!StoreNext]_(Store!storeVars)
<1> USE DEF Store!StoreNext
<1>1. CASE Open
  BY <1>1, OpenStutters
<1>2. CASE \E p \in PageId : ReplayPage(p)
  BY <1>2, QuietStutters DEF ReplayPage, poolVars
<1>3. CASE FinishRecovery \/ Close
  <2>1. ConstructPool /\ StoredBodies' = StoredBodies
    BY <1>3 DEF FinishRecovery, Close, walVars, StoredBodies, Logged, LatestImage
  <2> QED
    BY <2>1, PoolVanishes
<1>4. ASSUME NEW g \in Guards, NEW p \in PageId, PoolFetch(g, p)
      PROVE  [Store!StoreNext]_(Store!storeVars)
  <2>1. phase = "running" /\ phase' = "running" /\ guard[g] = NoGuard
    BY <1>4 DEF PoolFetch, FetchPage, procVars
  <2>2. CASE FetchHit(g, p)
    BY <2>1, <2>2, FetchHitPins
  <2>3. CASE FetchMiss(g, p)
    BY <2>1, <2>3, FetchMissPins
  <2>4. CASE FetchThrows(g, p)
    BY <2>1, <2>4, FetchThrowsStutters
  <2>5. CASE FetchExhausted(g, p)
    BY <2>5, QuietStutters DEF FetchExhausted, poolVars
  <2> QED
    BY <1>4, <2>2, <2>3, <2>4, <2>5 DEF PoolFetch, FetchPage
<1>5. ASSUME NEW g \in Guards, PoolNew(g)
      PROVE  [Store!StoreNext]_(Store!storeVars)
  <2>1. phase = "running" /\ phase' = "running" /\ guard[g] = NoGuard
    BY <1>5 DEF PoolNew, NewPage, procVars
  <2>2. CASE /\ VictimFrame # NoFrame /\ AllocatePage
             /\ Install(g, VictimFrame, next_page_id, ZeroImage, TRUE)
             /\ UNCHANGED walVars
    BY <2>1, <2>2, NewPageCreates
  <2>3. CASE UNCHANGED <<poolVars, diskVars, walVars>>
    BY <2>3, QuietStutters DEF poolVars
  <2> QED
    BY <1>5, <2>2, <2>3 DEF PoolNew, NewPage
<1>6. ASSUME NEW g \in Guards, PoolMutate(g)
      PROVE  [Store!StoreNext]_(Store!storeVars)
  BY <1>6, MutateWrites
<1>7. ASSUME NEW g \in Guards, PoolRelease(g)
      PROVE  [Store!StoreNext]_(Store!storeVars)
  BY <1>7, ReleaseUnpins
<1>8. CASE PoolFlushAll \/ \E p \in PageId : PoolFlushPage(p)
  BY <1>8, QuietStutters DEF PoolFlushAll, FlushAll, PoolFlushPage, FlushPage
<1>9. CASE Kill \/ PowerLoss
  BY <1>9, CrashVanishes
<1>10. CASE UNCHANGED vars
  BY <1>10, QuietStutters DEF vars, poolVars
<1> QED
  BY <1>1, <1>2, <1>3, <1>4, <1>5, <1>6, <1>7, <1>8, <1>9, <1>10 DEF Next

\* A database without files is a page store without pages.
LEMMA InitRefines == Init => Store!StoreInit
<1> SUFFICES ASSUME Init PROVE Store!StoreInit
  OBVIOUS
<1>1. next_offset = 0 /\ guard = [g \in Guards |-> NoGuard]
  BY DEF Init, WalInit, PoolInit
<1>2. \A p \in PageId : ~Logged(p) /\ ~PinnedPage(p)
  BY <1>1 DEF Logged, RecordsIn, PinnedPage, HeldGuards
<1> QED
  BY <1>1, <1>2 DEF Store!StoreInit, StoredBodies, BufferBodies, HeldPages

\* The storage engine implements the page store: behind buffer pool, log,
\* data file and recovery, through crashes at any moment, a released page is
\* stored for good and a pinned one is shared by its guards.
THEOREM StorageImplementsPageStore ==
  ASSUME FlushWhilePinned = FALSE
  PROVE  Spec => ImplementsPageStore
<1>1. Init => Store!StoreInit
  BY InitRefines
<1>2. StorageInv /\ [Next]_vars => [Store!StoreNext]_(Store!storeVars)
  BY StepRefines
<1> QED
  BY <1>1, <1>2, StorageInvariance, PTL DEF Spec, ImplementsPageStore, Store!StoreSpec
=============================================================================
