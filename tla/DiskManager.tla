---------------------------- MODULE DiskManager ----------------------------
(***************************************************************************)
(* The data file and the class that owns it (disk_manager.cpp).            *)
(*                                                                         *)
(* A page's bytes are abstracted to an image: the log sequence number in   *)
(* its header and one number, body, standing for everything else.  A slot  *)
(* of the file holds an image, or Corrupt: bytes that ReadPage refuses.    *)
(* Corrupt stands for a torn write, for the zero-filled hole left by a     *)
(* write past the end of the file (the checksum of a zeroed page is not    *)
(* zero, so a hole never passes), and for a slot past the end of the file  *)
(* (a short read); ReadPage throws on all three.                           *)
(*                                                                         *)
(* WritePage does not fsync.  What the operating system has made           *)
(* persistent is therefore not the file as the process sees it: durable[p] *)
(* is the set of contents slot p may turn out to have after a power loss.  *)
(***************************************************************************)
EXTENDS Integers, FiniteSets

CONSTANTS
    MaxPages,   \* bound on the number of pages the file may ever hold
    Corrupt     \* the content of a slot that fails ReadPage's checks

ASSUME MaxPagesAssumption == MaxPages \in Nat

PageId == 0 .. MaxPages - 1

Image == [lsn : Nat, body : Nat]

ASSUME CorruptAssumption == Corrupt \notin Image

VARIABLES
    file,           \* what a read of each slot returns
    durable,        \* what each slot may hold after a power loss
    file_size,      \* st_size / PAGE_SIZE
    next_page_id    \* next_page_id_

diskVars == <<file, durable, file_size, next_page_id>>

DiskTypeOK ==
    /\ file \in [PageId -> Image \cup {Corrupt}]
    /\ durable \in [PageId -> SUBSET (Image \cup {Corrupt})]
    /\ file_size \in 0 .. MaxPages
    /\ next_page_id \in 0 .. MaxPages

\* The state of a database whose files do not exist yet.
DiskInit ==
    /\ file = [p \in PageId |-> Corrupt]
    /\ durable = [p \in PageId |-> {Corrupt}]
    /\ file_size = 0
    /\ next_page_id = 0

-----------------------------------------------------------------------------

\* ReadPage returns normally: the slot exists and its checksum matches.
Readable(p) == file[p] # Corrupt

ReadPage(p) == file[p]

\* The file as it is after one pwrite of image at slot p.  Until the next
\* fsync the new bytes, the old ones or a mixture of both may be what the
\* disk has.
WritePage(p, image) ==
    /\ file' = [file EXCEPT ![p] = image]
    /\ durable' = [durable EXCEPT ![p] = @ \cup {image, Corrupt}]
    /\ file_size' = IF p < file_size THEN file_size ELSE p + 1

\* DiskManager's constructor, and RefreshNextPageIdAfterRecovery: both
\* derive the allocation counter from the size of the file.
NextPageIdFromFileSize == next_page_id' = file_size

\* AllocatePage hands out next_page_id and only bumps the counter: the file
\* is not extended.
AllocatePage ==
    /\ next_page_id < MaxPages
    /\ next_page_id' = next_page_id + 1

\* Flush: fsync of the data file.
Flush ==
    /\ durable' = [p \in PageId |-> {file[p]}]
    /\ UNCHANGED <<file, file_size>>

\* A power loss: every slot is left with one of its possible contents, and
\* of an extension of the file that was never synced any part may be gone.
LoseUnsyncedWrites ==
    \E size \in 0 .. file_size :
      \E survivor \in [PageId -> UNION {durable[p] : p \in PageId}] :
        /\ \A p \in PageId : survivor[p] \in durable[p]
        /\ \A p \in PageId : p >= size => survivor[p] = Corrupt
        /\ file' = survivor
        /\ durable' = [p \in PageId |-> {survivor[p]}]
        /\ file_size' = size
        /\ UNCHANGED next_page_id
=============================================================================
