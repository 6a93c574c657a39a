----------------------------- MODULE PageStore -----------------------------
(***************************************************************************)
(* What the storage engine promises the B+ tree and the catalog: a store   *)
(* of pages in which every release of a page takes effect at once and for  *)
(* good.  There is no cache, no log, no file and no recovery.              *)
(*                                                                         *)
(* A caller pins a page with a handle; all handles on a page share one     *)
(* buffer; when a handle is released the buffer's content becomes the      *)
(* stored page.  A crash takes the handles and the buffers away and        *)
(* nothing else.                                                           *)
(***************************************************************************)
EXTENDS Integers

CONSTANTS Page, Handle, Body, Nothing

VARIABLES
    stored,     \* the page each id stands for, Nothing if there is none
    buffer,     \* the shared buffer of the pages that are pinned
    holds       \* the page each handle pins

storeVars == <<stored, buffer, holds>>

StoreInit ==
    /\ stored = [p \in Page |-> Nothing]
    /\ buffer = [p \in Page |-> Nothing]
    /\ holds = [h \in Handle |-> Nothing]

Pinned(p) == \E h \in Handle : holds[h] = p

Pin(h, p) ==
    /\ holds[h] = Nothing
    /\ stored[p] # Nothing \/ Pinned(p)
    /\ holds' = [holds EXCEPT ![h] = p]
    /\ buffer' = [buffer EXCEPT ![p] = IF Pinned(p) THEN @ ELSE stored[p]]
    /\ UNCHANGED stored

Create(h, p) ==
    /\ holds[h] = Nothing
    /\ stored[p] = Nothing /\ ~Pinned(p)
    /\ holds' = [holds EXCEPT ![h] = p]
    /\ buffer' = [buffer EXCEPT ![p] = 0]
    /\ UNCHANGED stored

Write(h, b) ==
    /\ holds[h] # Nothing
    /\ buffer' = [buffer EXCEPT ![holds[h]] = b]
    /\ UNCHANGED <<stored, holds>>

Unpin(h) ==
    LET p == holds[h]
    IN  /\ p # Nothing
        /\ stored' = [stored EXCEPT ![p] = buffer[p]]
        /\ holds' = [holds EXCEPT ![h] = Nothing]
        /\ buffer' = [buffer EXCEPT
              ![p] = IF \E k \in Handle \ {h} : holds[k] = p THEN @ ELSE Nothing]

Vanish ==
    /\ holds' = [h \in Handle |-> Nothing]
    /\ buffer' = [p \in Page |-> Nothing]
    /\ UNCHANGED stored

StoreNext ==
    \/ \E h \in Handle :
          \/ \E p \in Page : Pin(h, p) \/ Create(h, p)
          \/ \E b \in Body : Write(h, b)
          \/ Unpin(h)
    \/ Vanish

StoreSpec == StoreInit /\ [][StoreNext]_storeVars
=============================================================================
