--------------------------- MODULE DrvRefinement ---------------------------
(***************************************************************************)
(* The driver at the grain of its locks implements BufferLife, as long as  *)
(* its callers keep to the rules of libgdrapi.                             *)
(***************************************************************************)
EXTENDS GdrDrv, TLC

\* A buffer exists from list_add to list_del.
AbsBuf ==
    [m \in MRs |->
        [pinned  |-> m \in mr_list,
         handle  |-> IF m \in mr_list THEN mr[m].handle ELSE 0,
         size    |-> IF m \in mr_list THEN mr[m].size ELSE 0,
         revoked |-> m \in mr_list /\ mr[m].page_table = 0,
         ram     |-> m \in mr_list /\ mr[m].ram,
         type    |-> IF m \in mr_list THEN mr[m].cpu_mapping_type ELSE "NONE",
         req     |-> IF m \in mr_list THEN mr[m].req_mapping_type ELSE "NONE"]]

\* A mapping exists from gdrdrv_mmap's success to the end of gdrdrv_vma_close.
Mapped(v) ==
    \/ vma[v].state = "linked"
    \/ \E t \in Threads :
          /\ th[t].vma = v
          /\ th[t].pc \in {"mmap_link", "close_lock", "close_sem", "close_body"}

\* Its buffer is the region it was made for, while that has the handle still.
Owner(v) ==
    IF vma[v].mr \in mr_list /\ mr[vma[v].mr].handle = vma[v].pgoff THEN vma[v].mr ELSE None

AbsMap ==
    [v \in VMAs |-> IF Mapped(v)
                    THEN [used |-> TRUE, of |-> Owner(v), live |-> vma[v].pte # {}]
                    ELSE [used |-> FALSE, of |-> None, live |-> FALSE]]

Abs == INSTANCE BufferLife WITH
    Bufs <- MRs, buf <- AbsBuf, map <- AbsMap, next <- next_handle

\* Every behaviour of the handlers, the kernel and the callback is, seen through the
\* region list and the page tables, a behaviour of BufferLife: each call takes
\* effect at one instant, on the buffer that has the handle and on no other.
ImplementsBufferLife == Abs!LifeSpec

Symmetry == Permutations(Threads) \cup Permutations(MRs) \cup Permutations(VMAs)

=============================================================================
