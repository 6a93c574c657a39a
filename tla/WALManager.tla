----------------------------- MODULE WALManager -----------------------------
(***************************************************************************)
(* The write-ahead log (wal.cpp).  The log file is a sequence of           *)
(* fixed-size records, each the full after-image of one page.  A record    *)
(* that was being appended when the process died is Torn: it fails the     *)
(* magic, length or checksum test of the constructor's scan.               *)
(*                                                                         *)
(* AppendRecord fsyncs before it returns, so a record in wal is persistent *)
(* as soon as the step that appends it is taken.  valid_records_ always    *)
(* holds the first next_offset records of the file and is not repeated     *)
(* here.                                                                   *)
(***************************************************************************)
EXTENDS Integers, Sequences, FiniteSetsExt, DiskManager

CONSTANTS
    Torn        \* a record that does not pass its own checksum

Record == [lsn : Nat, page_id : PageId, page : Image]

ASSUME TornAssumption == Torn \notin Record

VARIABLES
    wal,            \* the log file
    next_lsn,       \* next_lsn_
    next_offset     \* next_offset_, in records

walVars == <<wal, next_lsn, next_offset>>

WalTypeOK ==
    /\ wal \in Seq(Record \cup {Torn})
    /\ next_lsn \in Nat
    /\ next_offset \in 0 .. Len(wal)

WalInit ==
    /\ wal = << >>
    /\ next_lsn = 0
    /\ next_offset = 0

-----------------------------------------------------------------------------

\* Seeded fault: the scan drops the last valid record.
ScanEndShort(log) ==
    LET valid == {n \in 1 .. Len(log) : \A i \in 1 .. n : log[i] # Torn}
    IN  Max({0} \cup {n - 1 : n \in valid})

\* The number of records the constructor's scan accepts: it stops at the
\* first invalid one.
ScanEnd(log) ==
    CHOOSE n \in 0 .. Len(log) :
        /\ \A i \in 1 .. n : log[i] # Torn
        /\ n < Len(log) => log[n + 1] = Torn

\* Seeded fault: numbering restarts at 0 whenever the log is opened.
OpenWALRenumbering ==
    LET n == ScanEnd(wal)
    IN  /\ wal' = SubSeq(wal, 1, n)
        /\ next_lsn' = 0
        /\ next_offset' = n

\* WALManager's constructor: scan, derive next_lsn_ from the accepted
\* records, and truncate the file after the last of them.
OpenWAL ==
    LET n == ScanEnd(wal)
    IN  /\ wal' = SubSeq(wal, 1, n)
        /\ next_lsn' = Max({0} \cup {wal[i].lsn + 1 : i \in 1 .. n})
        /\ next_offset' = n

\* The page as AppendRecord leaves it: stamped with its log sequence number.
Stamped(image) == [image EXCEPT !.lsn = next_lsn]

\* AppendRecord: write one record at next_offset_ and fsync it.
AppendRecord(p, image) ==
    /\ wal' = Append(SubSeq(wal, 1, next_offset),
                     [lsn |-> next_lsn, page_id |-> p, page |-> Stamped(image)])
    /\ next_lsn' = next_lsn + 1
    /\ next_offset' = next_offset + 1

\* The process dies; underWay says whether it was inside AppendRecord, in
\* which case a torn record may be left behind.
LoseAppend(underWay) ==
    /\ \/ wal' = wal
       \/ underWay /\ wal' = Append(wal, Torn)
    /\ UNCHANGED <<next_lsn, next_offset>>

-----------------------------------------------------------------------------

\* Positions of the records of page p among the first n of a log.
RecordsIn(log, n, p) == {i \in 1 .. n : log[i].page_id = p}

\* Seeded fault: the first record of a page wins.
LatestInReversed(log, n, p) ==
    CHOOSE i \in RecordsIn(log, n, p) :
        \A j \in RecordsIn(log, n, p) : log[i].lsn <= log[j].lsn

\* RunRecovery's reduction: of the records of p, the one with the highest
\* log sequence number, the earliest of them if there were several.
LatestIn(log, n, p) ==
    CHOOSE i \in RecordsIn(log, n, p) :
        \A j \in RecordsIn(log, n, p) : \/ log[j].lsn < log[i].lsn
                                        \/ log[j].lsn = log[i].lsn /\ i <= j

\* The same for valid_records_, the first next_offset records of the file.
Logged(p) == RecordsIn(wal, next_offset, p) # {}

LatestImage(p) == wal[LatestIn(wal, next_offset, p)].page
=============================================================================
