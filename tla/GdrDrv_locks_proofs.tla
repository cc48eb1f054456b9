------------------------ MODULE GdrDrv_locks_proofs ------------------------
(***************************************************************************)
(* More theorems about GdrDrv: the handles and the offsets they stand for, *)
(* who holds the semaphores, what is left when the file is closed, and the *)
(* count of the regions whose pages the NVIDIA driver has handed out.      *)
(***************************************************************************)
EXTENDS GdrDrv_proofs, FiniteSetTheorems

\* The offsets a region takes of the file: MAX(1, its pages).
Taken(m) == IF mr[m].size = 0 THEN 1 ELSE mr[m].size

\* Handles are given out in growing order and never twice: what the regions on the
\* list take lies below next_handle, which is an offset of the file until the
\* overflow is noticed, and two of them never share an offset.
OffsetsInv ==
    /\ next_handle_overflow = 0 => next_handle < HandleSpace
    /\ \A m \in mr_list : mr[m].handle < HandleSpace /\ mr[m].handle + Taken(m) <= next_handle
    /\ \A m, k \in mr_list : m # k => \/ mr[m].handle + Taken(m) <= mr[k].handle
                                      \/ mr[k].handle + Taken(k) <= mr[m].handle

\* Regions whose pages the NVIDIA driver has handed out and not taken back.
Registered == {m \in MRs : nv[m] # "none"}

\* The callback holds the semaphore of a region only while it revokes its pages, and
\* a thread only in the steps between down_write and up_write, of its own region.
WriterInv == \A m \in MRs :
    /\ writer[m] = Callback => nv[m] = "revoking"
    /\ \A t \in Threads : writer[m] = t => th[t].mr = m /\ th[t].pc \in Creating \cup Writing \cup {"free"}

\* A reader of a region is a thread between down_read and up_read of it.
ReaderInv == \A m \in MRs : \A t \in readers[m] : th[t].mr = m /\ th[t].pc = "read_body"

\* No region is lost: one that is allocated is on the list, or a thread is creating or freeing it.
KeptInv == \A m \in MRs :
    mr[m].state = "live" => \/ m \in mr_list
                            \/ \E t \in Threads : th[t].pc \in Creating \cup Freeing /\ th[t].mr = m

\* A region that a pin is about to get pages for has none yet.
FreshInv == \A t \in Threads : th[t].pc = "pin_get" => nv[th[t].mr] = "none"

\* The count is that of the registered regions, which are finitely many.
CountInv == IsFiniteSet(Registered) /\ refcount = Cardinality(Registered)

\* Who creates a region, or starts to free one, holds its semaphore, unless the flags
\* were refused before the region was locked.
OwnerInv == "BadFlags" \notin Liberties =>
    \A t \in Threads : th[t].pc \in Creating \cup {"free"} => writer[th[t].mr] = t

LocksInv == WriterInv /\ ReaderInv /\ KeptInv /\ FreshInv /\ OwnerInv

\* Program points at which a thread neither owns a region nor holds a semaphore.
Quiet(pc) == pc \notin Creating \cup Freeing \cup Writing \cup {"read_body"}

\* A thread that owns and holds nothing before and after a step that leaves regions,
\* list, semaphores and registrations alone disturbs nothing.
LEMMA QuietStep ==
    ASSUME TypeOK, LocksInv, NEW t \in Threads,
           Quiet(th[t].pc), Quiet(th'[t].pc), \A u \in Threads : u # t => th'[u] = th[u],
           UNCHANGED <<mr, mr_list, writer, readers, nv>>
    PROVE  LocksInv'
<1> USE DEF Quiet, Creating, Freeing, Writing
<1>1. WriterInv'
  BY DEF LocksInv, WriterInv, TypeOK
<1>2. ReaderInv'
  BY DEF LocksInv, ReaderInv, TypeOK
<1>3. KeptInv'
  BY DEF LocksInv, KeptInv, TypeOK
<1>4. FreshInv'
  BY DEF LocksInv, FreshInv
<1>5. OwnerInv'
  BY DEF LocksInv, OwnerInv
<1> QED  BY <1>1, <1>2, <1>3, <1>4, <1>5 DEF LocksInv

\* Every step of every handler and of the callback keeps LocksInv.
LEMMA LocksStep == TypeOK /\ SafeInv /\ LocksInv /\ [Next]_vars => LocksInv'
<1> SUFFICES ASSUME TypeOK, SafeInv, LocksInv, [Next]_vars PROVE LocksInv'
  OBVIOUS
<1> USE NullAssumption
<1>1. ASSUME NEW t \in Threads, NEW from \in Looking, NEW to \in Waiting \ {"rel_sem"}, LookupHit(t, from, to) PROVE LocksInv'
  <2>1. /\ th[t].pc = from /\ th'[t].pc = to
        /\ \A u \in Threads : u # t => th'[u] = th[u]
        /\ UNCHANGED <<mr, mr_list, writer, readers, nv>>
    BY <1>1, LookupType DEF LookupHit, At, Thread, TypeOK, info
  <2> QED  BY <2>1, QuietStep DEF Quiet, Creating, Freeing, Writing, Looking, Waiting
<1>2. ASSUME NEW t \in Threads, NEW from \in Looking, LookupMiss(t, from),
             Return(t) \/ Goto(t, "mmap_undo") \/ Goto(t, "munmap_end") PROVE LocksInv'
  <2>1. /\ th[t].pc = from /\ th'[t].pc \in {"idle", "mmap_undo", "munmap_end"}
        /\ \A u \in Threads : u # t => th'[u] = th[u]
        /\ UNCHANGED <<mr, mr_list, writer, readers, nv>>
    BY <1>2, GotoFrame, ReturnFrame DEF LookupMiss, At, info
  <2> QED  BY <2>1, QuietStep DEF Quiet, Creating, Freeing, Writing, Looking
<1>3. ASSUME NEW t \in Threads, NEW from \in Waiting \ {"rel_sem"}, NEW to \in Writing, SemWrite(t, from, to) PROVE LocksInv'
  <2>1. /\ th[t].pc = from
        /\ th'[t].pc = to /\ th'[t].mr = th[t].mr /\ th'[t].op = th[t].op
        /\ \A u \in Threads : u # t => th'[u] = th[u]
        /\ mr' = mr
        /\ writer[th[t].mr] = None
        /\ writer' = [writer EXCEPT ![th[t].mr] = t]
        /\ UNCHANGED <<mr_list, readers, nv>>
    BY <1>3, GotoFrame DEF SemWrite, CanWrite, At, TypeOK, Region, info
  <2>2. WriterInv'
    BY <2>1 DEF SafeInv, OwnedInv, ListedInv, PagesInv, LocksInv, WriterInv, TypeOK, Creating, Freeing, Waiting, Writing
  <2>3. ReaderInv'
    BY <2>1 DEF LocksInv, ReaderInv, TypeOK, Waiting, Writing
  <2>4. KeptInv'
    BY <2>1 DEF LocksInv, KeptInv, Creating, Freeing, Waiting, Writing
  <2>5. FreshInv'
    BY <2>1 DEF SafeInv, OwnedInv, PagesInv, LocksInv, FreshInv, TypeOK, Creating, Freeing, Waiting, Writing
  <2>6. OwnerInv'
    BY <2>1 DEF SafeInv, OwnedInv, ListedInv, LocksInv, OwnerInv, TypeOK, Creating, Freeing, Waiting, Writing
  <2> QED  BY <2>2, <2>3, <2>4, <2>5, <2>6 DEF LocksInv
<1>4. ASSUME Open PROVE LocksInv'
  <2>1. /\ th' = th
        /\ mr' = mr
        /\ mr_list' = {}
        /\ mr_list = {}
        /\ UNCHANGED <<writer, readers, nv>>
    BY <1>4 DEF Open, SafeInv, FileInv, TypeOK, Region, info
  <2>2. WriterInv'
    BY <2>1 DEF SafeInv, OwnedInv, ListedInv, PagesInv, LocksInv, WriterInv, TypeOK, Creating, Freeing, Waiting, Writing
  <2>3. ReaderInv'
    BY <2>1 DEF LocksInv, ReaderInv, TypeOK
  <2>4. KeptInv'
    BY <2>1 DEF LocksInv, KeptInv, Creating, Freeing, Waiting, Writing
  <2>5. FreshInv'
    BY <2>1 DEF SafeInv, OwnedInv, PagesInv, LocksInv, FreshInv, TypeOK, Creating, Freeing, Waiting, Writing
  <2>6. OwnerInv'
    BY <2>1 DEF SafeInv, OwnedInv, ListedInv, LocksInv, OwnerInv, TypeOK, Creating, Freeing, Waiting, Writing
  <2> QED  BY <2>2, <2>3, <2>4, <2>5, <2>6 DEF LocksInv
<1>5. ASSUME GdrClose PROVE LocksInv'
  <2>1. /\ th' = th
        /\ mr' = mr
        /\ UNCHANGED <<mr_list, writer, readers, nv>>
    BY <1>5 DEF GdrClose, TypeOK, Region, info
  <2>2. WriterInv'
    BY <2>1 DEF SafeInv, OwnedInv, ListedInv, PagesInv, LocksInv, WriterInv, TypeOK, Creating, Freeing, Waiting, Writing
  <2>3. ReaderInv'
    BY <2>1 DEF LocksInv, ReaderInv, TypeOK
  <2>4. KeptInv'
    BY <2>1 DEF LocksInv, KeptInv, Creating, Freeing, Waiting, Writing
  <2>5. FreshInv'
    BY <2>1 DEF SafeInv, OwnedInv, PagesInv, LocksInv, FreshInv, TypeOK, Creating, Freeing, Waiting, Writing
  <2>6. OwnerInv'
    BY <2>1 DEF SafeInv, OwnedInv, ListedInv, LocksInv, OwnerInv, TypeOK, Creating, Freeing, Waiting, Writing
  <2> QED  BY <2>2, <2>3, <2>4, <2>5, <2>6 DEF LocksInv
<1>6. ASSUME NEW t \in Threads, NEW m \in MRs, NEW n \in Sizes, PinStart(t, m, n) PROVE LocksInv'
  <2>1. /\ th[t].pc = "idle"
        /\ th'[t].pc = "pin_get" /\ th'[t].op = "pin" /\ th'[t].mr = m
        /\ \A u \in Threads : u # t => th'[u] = th[u]
        /\ \A x \in MRs \ {m} : mr'[x] = mr[x]
        /\ mr[m].state = "free" /\ mr'[m].state = "live"
        /\ writer' = [writer EXCEPT ![m] = t]
        /\ UNCHANGED <<mr_list, readers, nv>>
    BY <1>6, BeginFrame DEF PinStart, MayCall, At, NewMR, TypeOK, Region, info
  <2>2. WriterInv'
    BY <2>1 DEF SafeInv, OwnedInv, ListedInv, PagesInv, LocksInv, WriterInv, TypeOK, Creating, Freeing, Waiting, Writing
  <2>3. ReaderInv'
    BY <2>1 DEF LocksInv, ReaderInv, TypeOK
  <2>4. KeptInv'
    BY <2>1 DEF LocksInv, KeptInv, Creating, Freeing, Waiting, Writing
  <2>5. FreshInv'
    BY <2>1 DEF SafeInv, OwnedInv, PagesInv, LocksInv, FreshInv, TypeOK, Creating, Freeing, Waiting, Writing
  <2>6. OwnerInv'
    BY <2>1 DEF SafeInv, OwnedInv, ListedInv, LocksInv, OwnerInv, TypeOK, Creating, Freeing, Waiting, Writing
  <2> QED  BY <2>2, <2>3, <2>4, <2>5, <2>6 DEF LocksInv
<1>7. ASSUME NEW t \in Threads, NEW m \in MRs, PinRefused(t, m) PROVE LocksInv'
  <2>1. /\ th[t].pc = "idle"
        /\ th'[t].pc = "free" /\ th'[t].op = "pin" /\ th'[t].mr = m
        /\ \A u \in Threads : u # t => th'[u] = th[u]
        /\ \A x \in MRs \ {m} : mr'[x] = mr[x]
        /\ mr[m].state = "free" /\ mr'[m].state = "live"
        /\ "BadFlags" \in Liberties
        /\ UNCHANGED <<mr_list, writer, readers, nv>>
    BY <1>7, BeginFrame DEF PinRefused, MayCall, At, NewMR, TypeOK, Region, info
  <2>2. WriterInv'
    BY <2>1 DEF SafeInv, OwnedInv, ListedInv, PagesInv, LocksInv, WriterInv, TypeOK, Creating, Freeing, Waiting, Writing
  <2>3. ReaderInv'
    BY <2>1 DEF LocksInv, ReaderInv, TypeOK
  <2>4. KeptInv'
    BY <2>1 DEF LocksInv, KeptInv, Creating, Freeing, Waiting, Writing
  <2>5. FreshInv'
    BY <2>1 DEF SafeInv, OwnedInv, PagesInv, LocksInv, FreshInv, TypeOK, Creating, Freeing, Waiting, Writing
  <2>6. OwnerInv'
    BY <2>1 DEF SafeInv, OwnedInv, ListedInv, LocksInv, OwnerInv, TypeOK, Creating, Freeing, Waiting, Writing
  <2> QED  BY <2>2, <2>3, <2>4, <2>5, <2>6 DEF LocksInv
<1>8. ASSUME NEW t \in Threads, NEW ram \in RamPages, PinGetPages(t, ram) PROVE LocksInv'
  <2>1. /\ th[t].pc = "pin_get"
        /\ th'[t].pc = "pin_check" /\ th'[t].mr = th[t].mr /\ th'[t].op = th[t].op
        /\ \A u \in Threads : u # t => th'[u] = th[u]
        /\ \A x \in MRs : mr'[x].state = mr[x].state
        /\ \A x \in MRs : mr'[x].page_table = IF x = th[t].mr THEN 1 ELSE mr[x].page_table
        /\ nv' = [nv EXCEPT ![th[t].mr] = "held"]
        /\ UNCHANGED <<mr_list, writer, readers>>
    BY <1>8, GotoFrame DEF PinGetPages, At, TypeOK, Region, info
  <2>2. WriterInv'
    BY <2>1 DEF LocksInv, WriterInv, FreshInv, TypeOK, Creating, Writing
  <2>3. ReaderInv'
    BY <2>1 DEF LocksInv, ReaderInv, TypeOK
  <2>4. KeptInv'
    BY <2>1 DEF LocksInv, KeptInv, Creating, Freeing, Waiting, Writing
  <2>5. FreshInv'
    BY <2>1 DEF SafeInv, OwnedInv, PagesInv, LocksInv, FreshInv, TypeOK, Creating, Freeing, Waiting, Writing
  <2>6. OwnerInv'
    BY <2>1 DEF SafeInv, OwnedInv, ListedInv, LocksInv, OwnerInv, TypeOK, Creating, Freeing, Waiting, Writing
  <2> QED  BY <2>2, <2>3, <2>4, <2>5, <2>6 DEF LocksInv
<1>9. ASSUME NEW t \in Threads, PinGetPagesFails(t) PROVE LocksInv'
  <2>1. /\ th[t].pc = "pin_get"
        /\ th'[t].pc = "free" /\ th'[t].mr = th[t].mr /\ th'[t].op = th[t].op
        /\ \A u \in Threads : u # t => th'[u] = th[u]
        /\ mr' = mr
        /\ UNCHANGED <<mr_list, writer, readers, nv>>
    BY <1>9, GotoFrame DEF PinGetPagesFails, At, TypeOK, Region, info
  <2>2. WriterInv'
    BY <2>1 DEF SafeInv, OwnedInv, ListedInv, PagesInv, LocksInv, WriterInv, TypeOK, Creating, Freeing, Waiting, Writing
  <2>3. ReaderInv'
    BY <2>1 DEF LocksInv, ReaderInv, TypeOK
  <2>4. KeptInv'
    BY <2>1 DEF LocksInv, KeptInv, Creating, Freeing, Waiting, Writing
  <2>5. FreshInv'
    BY <2>1 DEF SafeInv, OwnedInv, PagesInv, LocksInv, FreshInv, TypeOK, Creating, Freeing, Waiting, Writing
  <2>6. OwnerInv'
    BY <2>1 DEF SafeInv, OwnedInv, ListedInv, LocksInv, OwnerInv, TypeOK, Creating, Freeing, Waiting, Writing
  <2> QED  BY <2>2, <2>3, <2>4, <2>5, <2>6 DEF LocksInv
<1>10. ASSUME NEW t \in Threads, PinBadPageTable(t) PROVE LocksInv'
  <2>1. /\ th[t].pc = "pin_check"
        /\ th'[t].pc = "free" /\ th'[t].mr = th[t].mr /\ th'[t].op = th[t].op
        /\ \A u \in Threads : u # t => th'[u] = th[u]
        /\ mr' = mr
        /\ UNCHANGED <<mr_list, writer, readers, nv>>
    BY <1>10, GotoFrame DEF PinBadPageTable, At, TypeOK, Region, info
  <2>2. WriterInv'
    BY <2>1 DEF SafeInv, OwnedInv, ListedInv, PagesInv, LocksInv, WriterInv, TypeOK, Creating, Freeing, Waiting, Writing
  <2>3. ReaderInv'
    BY <2>1 DEF LocksInv, ReaderInv, TypeOK
  <2>4. KeptInv'
    BY <2>1 DEF LocksInv, KeptInv, Creating, Freeing, Waiting, Writing
  <2>5. FreshInv'
    BY <2>1 DEF SafeInv, OwnedInv, PagesInv, LocksInv, FreshInv, TypeOK, Creating, Freeing, Waiting, Writing
  <2>6. OwnerInv'
    BY <2>1 DEF SafeInv, OwnedInv, ListedInv, LocksInv, OwnerInv, TypeOK, Creating, Freeing, Waiting, Writing
  <2> QED  BY <2>2, <2>3, <2>4, <2>5, <2>6 DEF LocksInv
<1>11. ASSUME NEW t \in Threads, PinLock(t) PROVE LocksInv'
  <2>1. /\ th[t].pc = "pin_check"
        /\ th'[t].pc = "pin_publish" /\ th'[t].mr = th[t].mr /\ th'[t].op = th[t].op
        /\ \A u \in Threads : u # t => th'[u] = th[u]
        /\ mr' = mr
        /\ UNCHANGED <<mr_list, writer, readers, nv>>
    BY <1>11, GotoFrame DEF PinLock, At, TypeOK, Region, info
  <2>2. WriterInv'
    BY <2>1 DEF SafeInv, OwnedInv, ListedInv, PagesInv, LocksInv, WriterInv, TypeOK, Creating, Freeing, Waiting, Writing
  <2>3. ReaderInv'
    BY <2>1 DEF LocksInv, ReaderInv, TypeOK
  <2>4. KeptInv'
    BY <2>1 DEF LocksInv, KeptInv, Creating, Freeing, Waiting, Writing
  <2>5. FreshInv'
    BY <2>1 DEF SafeInv, OwnedInv, PagesInv, LocksInv, FreshInv, TypeOK, Creating, Freeing, Waiting, Writing
  <2>6. OwnerInv'
    BY <2>1 DEF SafeInv, OwnedInv, ListedInv, LocksInv, OwnerInv, TypeOK, Creating, Freeing, Waiting, Writing
  <2> QED  BY <2>2, <2>3, <2>4, <2>5, <2>6 DEF LocksInv
<1>12. ASSUME NEW t \in Threads, PinPublish(t) PROVE LocksInv'
  <2>1. /\ th[t].pc = "pin_publish"
        /\ th'[t].pc = "pin_copy" /\ th'[t].op = th[t].op
        /\ \A u \in Threads : u # t => th'[u] = th[u]
        /\ \A x \in MRs : mr'[x].state = mr[x].state
        /\ mr_list' = mr_list \cup {th[t].mr}
        /\ writer' = [writer EXCEPT ![th[t].mr] = None]
        /\ UNCHANGED <<readers, nv>>
    BY <1>12 DEF PinPublish, gdr_generate_mr_handle, At, Thread, TypeOK, Region, info
  <2>2. WriterInv'
    BY <2>1 DEF SafeInv, OwnedInv, ListedInv, PagesInv, LocksInv, WriterInv, TypeOK, Creating, Freeing, Waiting, Writing
  <2>3. ReaderInv'
    BY <2>1 DEF LocksInv, ReaderInv, TypeOK
  <2>4. KeptInv'
    BY <2>1 DEF LocksInv, KeptInv, Creating, Freeing, Waiting, Writing
  <2>5. FreshInv'
    BY <2>1 DEF SafeInv, OwnedInv, PagesInv, LocksInv, FreshInv, TypeOK, Creating, Freeing, Waiting, Writing
  <2>6. OwnerInv'
    BY <2>1 DEF SafeInv, OwnedInv, ListedInv, LocksInv, OwnerInv, TypeOK, Creating, Freeing, Waiting, Writing
  <2> QED  BY <2>2, <2>3, <2>4, <2>5, <2>6 DEF LocksInv
<1>13. ASSUME NEW t \in Threads, PinNoHandle(t) PROVE LocksInv'
  <2>1. /\ th[t].pc = "pin_publish"
        /\ th'[t].pc = "free" /\ th'[t].mr = th[t].mr /\ th'[t].op = th[t].op
        /\ \A u \in Threads : u # t => th'[u] = th[u]
        /\ mr' = mr
        /\ UNCHANGED <<mr_list, writer, readers, nv>>
    BY <1>13, GotoFrame DEF PinNoHandle, At, TypeOK, Region, info
  <2>2. WriterInv'
    BY <2>1 DEF SafeInv, OwnedInv, ListedInv, PagesInv, LocksInv, WriterInv, TypeOK, Creating, Freeing, Waiting, Writing
  <2>3. ReaderInv'
    BY <2>1 DEF LocksInv, ReaderInv, TypeOK
  <2>4. KeptInv'
    BY <2>1 DEF LocksInv, KeptInv, Creating, Freeing, Waiting, Writing
  <2>5. FreshInv'
    BY <2>1 DEF SafeInv, OwnedInv, PagesInv, LocksInv, FreshInv, TypeOK, Creating, Freeing, Waiting, Writing
  <2>6. OwnerInv'
    BY <2>1 DEF SafeInv, OwnedInv, ListedInv, LocksInv, OwnerInv, TypeOK, Creating, Freeing, Waiting, Writing
  <2> QED  BY <2>2, <2>3, <2>4, <2>5, <2>6 DEF LocksInv
<1>14. ASSUME NEW t \in Threads, PinCopyToUser(t) PROVE LocksInv'
  <2>1. /\ th[t].pc = "pin_copy" /\ th'[t].pc = "idle"
        /\ \A u \in Threads : u # t => th'[u] = th[u]
        /\ UNCHANGED <<mr, mr_list, writer, readers, nv>>
    BY <1>14, ReturnFrame DEF PinCopyToUser, At, info
  <2> QED  BY <2>1, QuietStep DEF Quiet, Creating, Freeing, Writing
<1>15. ASSUME NEW t \in Threads, PinCopyFails(t) PROVE LocksInv'
  <2>1. /\ th[t].pc = "pin_copy" /\ th'[t].pc = "unpin_lock"
        /\ \A u \in Threads : u # t => th'[u] = th[u]
        /\ UNCHANGED <<mr, mr_list, writer, readers, nv>>
    BY <1>15, GotoFrame DEF PinCopyFails, At, info
  <2> QED  BY <2>1, QuietStep DEF Quiet, Creating, Freeing, Writing
<1>16. ASSUME NEW t \in Threads, NEW h \in Nat, UnpinStart(t, h) PROVE LocksInv'
  <2>1. /\ th[t].pc = "idle" /\ th'[t].pc = "unpin_lock"
        /\ \A u \in Threads : u # t => th'[u] = th[u]
        /\ UNCHANGED <<mr, mr_list, writer, readers, nv>>
    BY <1>16, BeginFrame DEF UnpinStart, MayCall, At, info
  <2> QED  BY <2>1, QuietStep DEF Quiet, Creating, Freeing, Writing
<1>17. ASSUME NEW t \in Threads, UnpinRemove(t) PROVE LocksInv'
  <2>1. /\ th[t].pc = "unpin_sem"
        /\ th'[t].pc = "free" /\ th'[t].mr = th[t].mr /\ th'[t].op = th[t].op
        /\ \A u \in Threads : u # t => th'[u] = th[u]
        /\ \A x \in MRs : mr'[x].state = mr[x].state
        /\ writer[th[t].mr] = None /\ readers[th[t].mr] = {}
        /\ writer' = [writer EXCEPT ![th[t].mr] = t]
        /\ mr_list' = mr_list \ {th[t].mr}
        /\ UNCHANGED <<readers, nv>>
    BY <1>17, GotoFrame DEF UnpinRemove, At, CanWrite, TypeOK, Region, info
  <2>2. WriterInv'
    BY <2>1 DEF SafeInv, OwnedInv, ListedInv, PagesInv, LocksInv, WriterInv, TypeOK, Creating, Freeing, Waiting, Writing
  <2>3. ReaderInv'
    BY <2>1 DEF LocksInv, ReaderInv, TypeOK
  <2>4. KeptInv'
    BY <2>1 DEF LocksInv, KeptInv, Creating, Freeing, Waiting, Writing
  <2>5. FreshInv'
    BY <2>1 DEF SafeInv, OwnedInv, PagesInv, LocksInv, FreshInv, TypeOK, Creating, Freeing, Waiting, Writing
  <2>6. OwnerInv'
    BY <2>1 DEF SafeInv, OwnedInv, ListedInv, LocksInv, OwnerInv, TypeOK, Creating, Freeing, Waiting, Writing
  <2> QED  BY <2>2, <2>3, <2>4, <2>5, <2>6 DEF LocksInv
<1>18. ASSUME NEW t \in Threads, FreeDropSem(t) PROVE LocksInv'
  <2>1. /\ th[t].pc = "free"
        /\ th'[t].pc = (IF mr[th[t].mr].page_table = 1 THEN "put" ELSE "kfree") /\ th'[t].mr = th[t].mr /\ th'[t].op = th[t].op
        /\ \A u \in Threads : u # t => th'[u] = th[u]
        /\ mr' = mr
        /\ writer' = [writer EXCEPT ![th[t].mr] = None]
        /\ UNCHANGED <<mr_list, readers, nv>>
    BY <1>18, GotoFrame DEF FreeDropSem, At, TypeOK, Region, info
  <2>2. WriterInv'
    BY <2>1 DEF SafeInv, OwnedInv, ListedInv, PagesInv, LocksInv, WriterInv, TypeOK, Creating, Freeing, Waiting, Writing
  <2>3. ReaderInv'
    BY <2>1 DEF LocksInv, ReaderInv, TypeOK
  <2>4. KeptInv'
    BY <2>1 DEF LocksInv, KeptInv, Creating, Freeing, Waiting, Writing
  <2>5. FreshInv'
    BY <2>1 DEF SafeInv, OwnedInv, PagesInv, LocksInv, FreshInv, TypeOK, Creating, Freeing, Waiting, Writing
  <2>6. OwnerInv'
    BY <2>1 DEF SafeInv, OwnedInv, ListedInv, LocksInv, OwnerInv, TypeOK, Creating, Freeing, Waiting, Writing
  <2> QED  BY <2>2, <2>3, <2>4, <2>5, <2>6 DEF LocksInv
<1>19. ASSUME NEW t \in Threads, PutPages(t) PROVE LocksInv'
  <2>1. /\ th[t].pc = "put"
        /\ th'[t].pc = "kfree" /\ th'[t].mr = th[t].mr /\ th'[t].op = th[t].op
        /\ \A u \in Threads : u # t => th'[u] = th[u]
        /\ mr' = mr
        /\ nv' = [nv EXCEPT ![th[t].mr] = "none"]
        /\ nv[th[t].mr] # "revoking"
        /\ UNCHANGED <<mr_list, writer, readers>>
    BY <1>19, GotoFrame DEF PutPages, At, TypeOK, Region, info
  <2>2. WriterInv'
    BY <2>1 DEF SafeInv, OwnedInv, ListedInv, PagesInv, LocksInv, WriterInv, TypeOK, Creating, Freeing, Waiting, Writing
  <2>3. ReaderInv'
    BY <2>1 DEF LocksInv, ReaderInv, TypeOK
  <2>4. KeptInv'
    BY <2>1 DEF LocksInv, KeptInv, Creating, Freeing, Waiting, Writing
  <2>5. FreshInv'
    BY <2>1 DEF SafeInv, OwnedInv, PagesInv, LocksInv, FreshInv, TypeOK, Creating, Freeing, Waiting, Writing
  <2>6. OwnerInv'
    BY <2>1 DEF SafeInv, OwnedInv, ListedInv, LocksInv, OwnerInv, TypeOK, Creating, Freeing, Waiting, Writing
  <2> QED  BY <2>2, <2>3, <2>4, <2>5, <2>6 DEF LocksInv
<1>20. ASSUME NEW t \in Threads, Kfree(t) PROVE LocksInv'
  <2>1. /\ th[t].pc = "kfree"
        /\ \/ th[t].op = "release" /\ th'[t].pc = "rel_next" /\ th'[t].op = "release"
           \/ th[t].op # "release" /\ th'[t].pc = "idle" /\ th'[t].op = "none"
        /\ \A u \in Threads : u # t => th'[u] = th[u]
        /\ \A x \in MRs \ {th[t].mr} : mr'[x] = mr[x]
        /\ mr'[th[t].mr].state = "free"
        /\ UNCHANGED <<mr_list, writer, readers, nv>>
    BY <1>20 DEF Kfree, At, IdleThread, Thread, NewMR, SafeInv, OwnedInv, Freeing, TypeOK, Region, info
  <2>2. WriterInv'
    BY <2>1 DEF SafeInv, OwnedInv, ListedInv, PagesInv, LocksInv, WriterInv, TypeOK, Creating, Freeing, Waiting, Writing
  <2>3. ReaderInv'
    BY <2>1 DEF LocksInv, ReaderInv, TypeOK
  <2>4. KeptInv'
    BY <2>1 DEF LocksInv, KeptInv, Creating, Freeing, Waiting, Writing
  <2>5. FreshInv'
    BY <2>1 DEF SafeInv, OwnedInv, PagesInv, LocksInv, FreshInv, TypeOK, Creating, Freeing, Waiting, Writing
  <2>6. OwnerInv'
    BY <2>1 DEF SafeInv, OwnedInv, ListedInv, LocksInv, OwnerInv, TypeOK, Creating, Freeing, Waiting, Writing
  <2> QED  BY <2>2, <2>3, <2>4, <2>5, <2>6 DEF LocksInv
<1>21. ASSUME NEW t \in Threads, NEW op \in {"get_info", "get_cb_flag"}, NEW h \in Nat, ReadStart(t, op, h) PROVE LocksInv'
  <2>1. /\ th[t].pc = "idle" /\ th'[t].pc = "read_lock"
        /\ \A u \in Threads : u # t => th'[u] = th[u]
        /\ UNCHANGED <<mr, mr_list, writer, readers, nv>>
    BY <1>21, BeginFrame DEF ReadStart, MayCall, At, info
  <2> QED  BY <2>1, QuietStep DEF Quiet, Creating, Freeing, Writing
<1>22. ASSUME NEW t \in Threads, ReadSem(t) PROVE LocksInv'
  <2>1. /\ th[t].pc = "read_sem"
        /\ th'[t].pc = "read_body" /\ th'[t].mr = th[t].mr /\ th'[t].op = th[t].op
        /\ \A u \in Threads : u # t => th'[u] = th[u]
        /\ mr' = mr
        /\ readers' = [readers EXCEPT ![th[t].mr] = @ \cup {t}]
        /\ UNCHANGED <<mr_list, writer, nv>>
    BY <1>22, GotoFrame DEF ReadSem, At, TypeOK, Region, info
  <2>2. WriterInv'
    BY <2>1 DEF SafeInv, OwnedInv, ListedInv, PagesInv, LocksInv, WriterInv, TypeOK, Creating, Freeing, Waiting, Writing
  <2>3. ReaderInv'
    BY <2>1 DEF LocksInv, ReaderInv, TypeOK
  <2>4. KeptInv'
    BY <2>1 DEF LocksInv, KeptInv, Creating, Freeing, Waiting, Writing
  <2>5. FreshInv'
    BY <2>1 DEF SafeInv, OwnedInv, PagesInv, LocksInv, FreshInv, TypeOK, Creating, Freeing, Waiting, Writing
  <2>6. OwnerInv'
    BY <2>1 DEF SafeInv, OwnedInv, ListedInv, LocksInv, OwnerInv, TypeOK, Creating, Freeing, Waiting, Writing
  <2> QED  BY <2>2, <2>3, <2>4, <2>5, <2>6 DEF LocksInv
<1>23. ASSUME NEW t \in Threads, ReadBody(t) PROVE LocksInv'
  <2>1. /\ th[t].pc = "read_body"
        /\ th'[t].pc = "read_copy" /\ th'[t].op = th[t].op
        /\ \A u \in Threads : u # t => th'[u] = th[u]
        /\ mr' = mr
        /\ readers' = [readers EXCEPT ![th[t].mr] = @ \ {t}]
        /\ UNCHANGED <<mr_list, writer, nv>>
    BY <1>23 DEF ReadBody, At, Thread, TypeOK, Region, info
  <2>2. WriterInv'
    BY <2>1 DEF SafeInv, OwnedInv, ListedInv, PagesInv, LocksInv, WriterInv, TypeOK, Creating, Freeing, Waiting, Writing
  <2>3. ReaderInv'
    BY <2>1 DEF LocksInv, ReaderInv, TypeOK
  <2>4. KeptInv'
    BY <2>1 DEF LocksInv, KeptInv, Creating, Freeing, Waiting, Writing
  <2>5. FreshInv'
    BY <2>1 DEF SafeInv, OwnedInv, PagesInv, LocksInv, FreshInv, TypeOK, Creating, Freeing, Waiting, Writing
  <2>6. OwnerInv'
    BY <2>1 DEF SafeInv, OwnedInv, ListedInv, LocksInv, OwnerInv, TypeOK, Creating, Freeing, Waiting, Writing
  <2> QED  BY <2>2, <2>3, <2>4, <2>5, <2>6 DEF LocksInv
<1>24. ASSUME NEW t \in Threads, ReadCopyToUser(t) PROVE LocksInv'
  <2>1. /\ th[t].pc = "read_copy" /\ th'[t].pc = "idle"
        /\ \A u \in Threads : u # t => th'[u] = th[u]
        /\ UNCHANGED <<mr, mr_list, writer, readers, nv>>
    BY <1>24, ReturnFrame DEF ReadCopyToUser, At, info
  <2> QED  BY <2>1, QuietStep DEF Quiet, Creating, Freeing, Writing
<1>25. ASSUME NEW t \in Threads, NEW h \in Nat, ReqStart(t, h) PROVE LocksInv'
  <2>1. /\ th[t].pc = "idle" /\ th'[t].pc = "req_lock"
        /\ \A u \in Threads : u # t => th'[u] = th[u]
        /\ UNCHANGED <<mr, mr_list, writer, readers, nv>>
    BY <1>25, BeginFrame DEF ReqStart, MayCall, At, info
  <2> QED  BY <2>1, QuietStep DEF Quiet, Creating, Freeing, Writing
<1>26. ASSUME NEW t \in Threads, NEW type \in MappingTypes, ReqBody(t, type) PROVE LocksInv'
  <2>1. /\ th[t].pc = "req_body"
        /\ th'[t].pc = "idle" /\ th'[t].op = "none"
        /\ \A u \in Threads : u # t => th'[u] = th[u]
        /\ \A x \in MRs : mr'[x].state = mr[x].state
        /\ writer' = [writer EXCEPT ![th[t].mr] = None]
        /\ UNCHANGED <<mr_list, readers, nv>>
    BY <1>26, ReturnFrame DEF ReqBody, At, TypeOK, Region, info
  <2>2. WriterInv'
    BY <2>1 DEF SafeInv, OwnedInv, ListedInv, PagesInv, LocksInv, WriterInv, TypeOK, Creating, Freeing, Waiting, Writing
  <2>3. ReaderInv'
    BY <2>1 DEF LocksInv, ReaderInv, TypeOK
  <2>4. KeptInv'
    BY <2>1 DEF LocksInv, KeptInv, Creating, Freeing, Waiting, Writing
  <2>5. FreshInv'
    BY <2>1 DEF SafeInv, OwnedInv, PagesInv, LocksInv, FreshInv, TypeOK, Creating, Freeing, Waiting, Writing
  <2>6. OwnerInv'
    BY <2>1 DEF SafeInv, OwnedInv, ListedInv, LocksInv, OwnerInv, TypeOK, Creating, Freeing, Waiting, Writing
  <2> QED  BY <2>2, <2>3, <2>4, <2>5, <2>6 DEF LocksInv
<1>27. ASSUME NEW t \in Threads, NEW h \in Nat, NEW v \in VMAs, NEW n \in Sizes, MmapStart(t, h, v, n) PROVE LocksInv'
  <2>1. /\ th[t].pc = "idle" /\ th'[t].pc = "mmap_lock"
        /\ \A u \in Threads : u # t => th'[u] = th[u]
        /\ UNCHANGED <<mr, mr_list, writer, readers, nv>>
    BY <1>27, BeginFrame DEF MmapStart, MayCall, At, info
  <2> QED  BY <2>1, QuietStep DEF Quiet, Creating, Freeing, Writing
<1>28. ASSUME NEW t \in Threads, MmapRefused(t) PROVE LocksInv'
  <2>1. /\ th[t].pc = "mmap_body"
        /\ th'[t].pc = "mmap_undo" /\ th'[t].mr = th[t].mr /\ th'[t].op = th[t].op
        /\ \A u \in Threads : u # t => th'[u] = th[u]
        /\ \A x \in MRs : mr'[x].state = mr[x].state
        /\ writer' = [writer EXCEPT ![th[t].mr] = None]
        /\ UNCHANGED <<mr_list, readers, nv>>
    BY <1>28, GotoFrame DEF MmapRefused, At, MmapClear, TypeOK, Region, info
  <2>2. WriterInv'
    BY <2>1 DEF SafeInv, OwnedInv, ListedInv, PagesInv, LocksInv, WriterInv, TypeOK, Creating, Freeing, Waiting, Writing
  <2>3. ReaderInv'
    BY <2>1 DEF LocksInv, ReaderInv, TypeOK
  <2>4. KeptInv'
    BY <2>1 DEF LocksInv, KeptInv, Creating, Freeing, Waiting, Writing
  <2>5. FreshInv'
    BY <2>1 DEF SafeInv, OwnedInv, PagesInv, LocksInv, FreshInv, TypeOK, Creating, Freeing, Waiting, Writing
  <2>6. OwnerInv'
    BY <2>1 DEF SafeInv, OwnedInv, ListedInv, LocksInv, OwnerInv, TypeOK, Creating, Freeing, Waiting, Writing
  <2> QED  BY <2>2, <2>3, <2>4, <2>5, <2>6 DEF LocksInv
<1>29. ASSUME NEW t \in Threads, NEW k \in Nat, MmapFails(t, k) PROVE LocksInv'
  <2>1. /\ th[t].pc = "mmap_body"
        /\ th'[t].pc = "mmap_undo" /\ th'[t].mr = th[t].mr /\ th'[t].op = th[t].op
        /\ \A u \in Threads : u # t => th'[u] = th[u]
        /\ \A x \in MRs : mr'[x].state = mr[x].state
        /\ writer' = [writer EXCEPT ![th[t].mr] = None]
        /\ UNCHANGED <<mr_list, readers, nv>>
    BY <1>29, GotoFrame DEF MmapFails, At, MmapClear, TypeOK, Region, info
  <2>2. WriterInv'
    BY <2>1 DEF SafeInv, OwnedInv, ListedInv, PagesInv, LocksInv, WriterInv, TypeOK, Creating, Freeing, Waiting, Writing
  <2>3. ReaderInv'
    BY <2>1 DEF LocksInv, ReaderInv, TypeOK
  <2>4. KeptInv'
    BY <2>1 DEF LocksInv, KeptInv, Creating, Freeing, Waiting, Writing
  <2>5. FreshInv'
    BY <2>1 DEF SafeInv, OwnedInv, PagesInv, LocksInv, FreshInv, TypeOK, Creating, Freeing, Waiting, Writing
  <2>6. OwnerInv'
    BY <2>1 DEF SafeInv, OwnedInv, ListedInv, LocksInv, OwnerInv, TypeOK, Creating, Freeing, Waiting, Writing
  <2> QED  BY <2>2, <2>3, <2>4, <2>5, <2>6 DEF LocksInv
<1>30. ASSUME NEW t \in Threads, MmapMaps(t) PROVE LocksInv'
  <2>1. /\ th[t].pc = "mmap_body"
        /\ th'[t].pc = "mmap_link" /\ th'[t].mr = th[t].mr /\ th'[t].op = th[t].op
        /\ \A u \in Threads : u # t => th'[u] = th[u]
        /\ \A x \in MRs : mr'[x].state = mr[x].state
        /\ writer' = [writer EXCEPT ![th[t].mr] = None]
        /\ UNCHANGED <<mr_list, readers, nv>>
    BY <1>30, GotoFrame DEF MmapMaps, At, TypeOK, Region, info
  <2>2. WriterInv'
    BY <2>1 DEF SafeInv, OwnedInv, ListedInv, PagesInv, LocksInv, WriterInv, TypeOK, Creating, Freeing, Waiting, Writing
  <2>3. ReaderInv'
    BY <2>1 DEF LocksInv, ReaderInv, TypeOK
  <2>4. KeptInv'
    BY <2>1 DEF LocksInv, KeptInv, Creating, Freeing, Waiting, Writing
  <2>5. FreshInv'
    BY <2>1 DEF SafeInv, OwnedInv, PagesInv, LocksInv, FreshInv, TypeOK, Creating, Freeing, Waiting, Writing
  <2>6. OwnerInv'
    BY <2>1 DEF SafeInv, OwnedInv, ListedInv, LocksInv, OwnerInv, TypeOK, Creating, Freeing, Waiting, Writing
  <2> QED  BY <2>2, <2>3, <2>4, <2>5, <2>6 DEF LocksInv
<1>31. ASSUME NEW t \in Threads, MmapLink(t) PROVE LocksInv'
  <2>1. /\ th[t].pc = "mmap_link" /\ th'[t].pc = "idle"
        /\ \A u \in Threads : u # t => th'[u] = th[u]
        /\ UNCHANGED <<mr, mr_list, writer, readers, nv>>
    BY <1>31, ReturnFrame DEF MmapLink, At, info
  <2> QED  BY <2>1, QuietStep DEF Quiet, Creating, Freeing, Writing
<1>32. ASSUME NEW t \in Threads, MmapUndo(t) PROVE LocksInv'
  <2>1. /\ th[t].pc = "mmap_undo" /\ th'[t].pc = "idle"
        /\ \A u \in Threads : u # t => th'[u] = th[u]
        /\ UNCHANGED <<mr, mr_list, writer, readers, nv>>
    BY <1>32, ReturnFrame DEF MmapUndo, At, info
  <2> QED  BY <2>1, QuietStep DEF Quiet, Creating, Freeing, Writing
<1>33. ASSUME NEW t \in Threads, NEW v \in VMAs, MunmapStart(t, v) PROVE LocksInv'
  <2>1. /\ th[t].pc = "idle" /\ th'[t].pc = "close_lock"
        /\ \A u \in Threads : u # t => th'[u] = th[u]
        /\ UNCHANGED <<mr, mr_list, writer, readers, nv>>
    BY <1>33, BeginFrame DEF MunmapStart, MayUnmap, MayCall, At, info
  <2> QED  BY <2>1, QuietStep DEF Quiet, Creating, Freeing, Writing
<1>34. ASSUME NEW t \in Threads, gdrdrv_vma_close(t) PROVE LocksInv'
  <2>1. /\ th[t].pc = "close_body"
        /\ th'[t].pc = "munmap_end" /\ th'[t].mr = th[t].mr /\ th'[t].op = th[t].op
        /\ \A u \in Threads : u # t => th'[u] = th[u]
        /\ \A x \in MRs : mr'[x].state = mr[x].state
        /\ writer' = [writer EXCEPT ![th[t].mr] = None]
        /\ UNCHANGED <<mr_list, readers, nv>>
    BY <1>34, GotoFrame DEF gdrdrv_vma_close, At, TypeOK, Region, info
  <2>2. WriterInv'
    BY <2>1 DEF SafeInv, OwnedInv, ListedInv, PagesInv, LocksInv, WriterInv, TypeOK, Creating, Freeing, Waiting, Writing
  <2>3. ReaderInv'
    BY <2>1 DEF LocksInv, ReaderInv, TypeOK
  <2>4. KeptInv'
    BY <2>1 DEF LocksInv, KeptInv, Creating, Freeing, Waiting, Writing
  <2>5. FreshInv'
    BY <2>1 DEF SafeInv, OwnedInv, PagesInv, LocksInv, FreshInv, TypeOK, Creating, Freeing, Waiting, Writing
  <2>6. OwnerInv'
    BY <2>1 DEF SafeInv, OwnedInv, ListedInv, LocksInv, OwnerInv, TypeOK, Creating, Freeing, Waiting, Writing
  <2> QED  BY <2>2, <2>3, <2>4, <2>5, <2>6 DEF LocksInv
<1>35. ASSUME NEW t \in Threads, MunmapEnd(t) PROVE LocksInv'
  <2>1. /\ th[t].pc = "munmap_end" /\ th'[t].pc = "idle"
        /\ \A u \in Threads : u # t => th'[u] = th[u]
        /\ UNCHANGED <<mr, mr_list, writer, readers, nv>>
    BY <1>35, ReturnFrame DEF MunmapEnd, At, info
  <2> QED  BY <2>1, QuietStep DEF Quiet, Creating, Freeing, Writing
<1>36. ASSUME NEW t \in Threads, RelStart(t) PROVE LocksInv'
  <2>1. /\ th[t].pc = "idle" /\ th'[t].pc = "rel_next"
        /\ \A u \in Threads : u # t => th'[u] = th[u]
        /\ UNCHANGED <<mr, mr_list, writer, readers, nv>>
    BY <1>36, BeginFrame DEF RelStart, AllIdle, At, info
  <2> QED  BY <2>1, QuietStep DEF Quiet, Creating, Freeing, Writing
<1>37. ASSUME NEW t \in Threads, NEW m \in MRs, RelPick(t, m) PROVE LocksInv'
  <2>1. /\ th[t].pc = "rel_next" /\ th'[t].pc = "rel_sem"
        /\ \A u \in Threads : u # t => th'[u] = th[u]
        /\ UNCHANGED <<mr, mr_list, writer, readers, nv>>
    BY <1>37 DEF RelPick, IsHead, At, Thread, TypeOK, info
  <2> QED  BY <2>1, QuietStep DEF Quiet, Creating, Freeing, Writing
<1>38. ASSUME NEW t \in Threads, RelRemove(t) PROVE LocksInv'
  <2>1. /\ th[t].pc = "rel_sem"
        /\ th'[t].pc = "free" /\ th'[t].mr = th[t].mr /\ th'[t].op = th[t].op
        /\ \A u \in Threads : u # t => th'[u] = th[u]
        /\ \A x \in MRs : mr'[x].state = mr[x].state
        /\ writer[th[t].mr] = None /\ readers[th[t].mr] = {}
        /\ writer' = [writer EXCEPT ![th[t].mr] = t]
        /\ mr_list' = mr_list \ {th[t].mr}
        /\ UNCHANGED <<readers, nv>>
    BY <1>38, GotoFrame DEF RelRemove, At, CanWrite, TypeOK, Region, info
  <2>2. WriterInv'
    BY <2>1 DEF SafeInv, OwnedInv, ListedInv, PagesInv, LocksInv, WriterInv, TypeOK, Creating, Freeing, Waiting, Writing
  <2>3. ReaderInv'
    BY <2>1 DEF LocksInv, ReaderInv, TypeOK
  <2>4. KeptInv'
    BY <2>1 DEF LocksInv, KeptInv, Creating, Freeing, Waiting, Writing
  <2>5. FreshInv'
    BY <2>1 DEF SafeInv, OwnedInv, PagesInv, LocksInv, FreshInv, TypeOK, Creating, Freeing, Waiting, Writing
  <2>6. OwnerInv'
    BY <2>1 DEF SafeInv, OwnedInv, ListedInv, LocksInv, OwnerInv, TypeOK, Creating, Freeing, Waiting, Writing
  <2> QED  BY <2>2, <2>3, <2>4, <2>5, <2>6 DEF LocksInv
<1>39. ASSUME NEW t \in Threads, RelDone(t) PROVE LocksInv'
  <2>1. /\ th[t].pc = "rel_next" /\ th'[t].pc = "idle"
        /\ \A u \in Threads : u # t => th'[u] = th[u]
        /\ UNCHANGED <<mr, mr_list, writer, readers, nv>>
    BY <1>39, ReturnFrame DEF RelDone, At, info
  <2> QED  BY <2>1, QuietStep DEF Quiet, Creating, Freeing, Writing
<1>40. ASSUME NEW m \in MRs, CbStart(m) PROVE LocksInv'
  <2>1. /\ th' = th
        /\ mr' = mr
        /\ nv[m] = "held"
        /\ nv' = [nv EXCEPT ![m] = "revoking"]
        /\ UNCHANGED <<mr_list, writer, readers>>
    BY <1>40 DEF CbStart, TypeOK, Region, info
  <2>2. WriterInv'
    BY <2>1 DEF SafeInv, OwnedInv, ListedInv, PagesInv, LocksInv, WriterInv, TypeOK, Creating, Freeing, Waiting, Writing
  <2>3. ReaderInv'
    BY <2>1 DEF LocksInv, ReaderInv, TypeOK
  <2>4. KeptInv'
    BY <2>1 DEF LocksInv, KeptInv, Creating, Freeing, Waiting, Writing
  <2>5. FreshInv'
    BY <2>1 DEF SafeInv, OwnedInv, PagesInv, LocksInv, FreshInv, TypeOK, Creating, Freeing, Waiting, Writing
  <2>6. OwnerInv'
    BY <2>1 DEF SafeInv, OwnedInv, ListedInv, LocksInv, OwnerInv, TypeOK, Creating, Freeing, Waiting, Writing
  <2> QED  BY <2>2, <2>3, <2>4, <2>5, <2>6 DEF LocksInv
<1>41. ASSUME NEW m \in MRs, CbLock(m) PROVE LocksInv'
  <2>1. /\ th' = th
        /\ \A x \in MRs : mr'[x].state = mr[x].state
        /\ writer[m] = None
        /\ writer' = [writer EXCEPT ![m] = Callback]
        /\ nv[m] = "revoking" /\ readers[m] = {}
        /\ UNCHANGED <<mr_list, readers, nv>>
    BY <1>41 DEF CbLock, CanWrite, TypeOK, Region, info
  <2>2. WriterInv'
    BY <2>1 DEF SafeInv, OwnedInv, ListedInv, PagesInv, LocksInv, WriterInv, TypeOK, Creating, Freeing, Waiting, Writing
  <2>3. ReaderInv'
    BY <2>1 DEF LocksInv, ReaderInv, TypeOK
  <2>4. KeptInv'
    BY <2>1 DEF LocksInv, KeptInv, Creating, Freeing, Waiting, Writing
  <2>5. FreshInv'
    BY <2>1 DEF SafeInv, OwnedInv, PagesInv, LocksInv, FreshInv, TypeOK, Creating, Freeing, Waiting, Writing
  <2>6. OwnerInv'
    BY <2>1 DEF SafeInv, OwnedInv, ListedInv, LocksInv, OwnerInv, TypeOK, Creating, Freeing, Waiting, Writing
  <2> QED  BY <2>2, <2>3, <2>4, <2>5, <2>6 DEF LocksInv
<1>42. ASSUME NEW m \in MRs, CbBody(m) PROVE LocksInv'
  <2>1. /\ th' = th
        /\ \A x \in MRs : mr'[x].state = mr[x].state
        /\ \A x \in MRs \ {m} : mr'[x] = mr[x]
        /\ writer[m] = Callback
        /\ writer' = [writer EXCEPT ![m] = None]
        /\ nv' = [nv EXCEPT ![m] = "none"]
        /\ nv[m] = "revoking"
        /\ UNCHANGED <<mr_list, readers>>
    BY <1>42 DEF CbBody, TypeOK, Region, info
  <2>2. WriterInv'
    BY <2>1 DEF SafeInv, OwnedInv, ListedInv, PagesInv, LocksInv, WriterInv, TypeOK, Creating, Freeing, Waiting, Writing
  <2>3. ReaderInv'
    BY <2>1 DEF LocksInv, ReaderInv, TypeOK
  <2>4. KeptInv'
    BY <2>1 DEF LocksInv, KeptInv, Creating, Freeing, Waiting, Writing
  <2>5. FreshInv'
    BY <2>1 DEF SafeInv, OwnedInv, PagesInv, LocksInv, FreshInv, TypeOK, Creating, Freeing, Waiting, Writing
  <2>6. OwnerInv'
    BY <2>1 DEF SafeInv, OwnedInv, ListedInv, LocksInv, OwnerInv, TypeOK, Creating, Freeing, Waiting, Writing
  <2> QED  BY <2>2, <2>3, <2>4, <2>5, <2>6 DEF LocksInv
<1>46. ASSUME NEW t \in Threads, NEW v \in VMAs, NEW w \in VMAs, NEW k \in 1 .. (vma[v].len - 1),
              MunmapHead(t, v, w, k) \/ MunmapTail(t, v, w, k)
       PROVE  LocksInv'
  <2>0. PICK kept, cut, keep, gone : MunmapPart(t, v, kept, keep, cut, gone)
    BY <1>46 DEF MunmapHead, MunmapTail
  <2>1. /\ th[t].pc = "idle"
        /\ th'[t].pc = "close_lock"
        /\ \A u \in Threads : u # t => th'[u] = th[u]
        /\ UNCHANGED <<mr, mr_list, writer, readers, nv>>
    BY <2>0, BeginFrame DEF MunmapPart, MayUnmap, MayCall, At, info
  <2> QED  BY <2>1, QuietStep DEF Quiet, Creating, Freeing, Writing
<1>43. ASSUME NEW t \in Threads, CallStart(t) PROVE LocksInv'
  <2>1. AnyHandle \subseteq Nat
    BY SizeAssumption DEF TypeOK, AnyHandle
  <2> QED  BY <1>43, <2>1, <1>6, <1>7, <1>16, <1>21, <1>25, <1>27, <1>33, <1>36, <1>46
           DEF CallStart
<1>44. ASSUME NEW t \in Threads, CallStep(t) PROVE LocksInv'
  <2>1. ASSUME UnpinLookup(t) \/ ReadLookup(t) \/ ReqLookup(t) \/ MmapLookup(t) \/ CloseLookup(t)
        PROVE  LocksInv'
    BY <2>1, <1>1 DEF UnpinLookup, ReadLookup, ReqLookup, MmapLookup, CloseLookup, Looking, Waiting, Writing
  <2>2. ASSUME UnpinMiss(t) \/ ReadMiss(t) \/ ReqMiss(t) \/ MmapMiss(t) \/ CloseMiss(t)
        PROVE  LocksInv'
    BY <2>2, <1>2 DEF UnpinMiss, ReadMiss, ReqMiss, MmapMiss, CloseMiss, Looking, Waiting, Writing
  <2>3. ASSUME ReqSem(t) \/ MmapSem(t) \/ CloseSem(t)
        PROVE  LocksInv'
    BY <2>3, <1>3 DEF ReqSem, MmapSem, CloseSem, Looking, Waiting, Writing
  <2>4. ASSUME NEW k \in Sizes \cup {0}, MmapFails(t, k)
        PROVE  LocksInv'
    BY <2>4, <1>29, SizeAssumption
  <2> QED
    BY <1>44, <2>1, <2>2, <2>3, <2>4,
       <1>8, <1>9, <1>10, <1>11, <1>12, <1>13, <1>14, <1>15, <1>17, <1>18,
       <1>19, <1>20, <1>22, <1>23, <1>24, <1>26, <1>28, <1>30, <1>31, <1>32,
       <1>34, <1>35, <1>37, <1>38, <1>39
    DEF CallStep
<1>45. ASSUME UNCHANGED vars PROVE LocksInv'
  BY <1>45 DEF vars, LocksInv, WriterInv, ReaderInv, KeptInv, FreshInv, OwnerInv
<1> QED
  BY <1>43, <1>44, <1>45, <1>4, <1>5, <1>40, <1>41, <1>42 DEF Next, CallbackStep
-----------------------------------------------------------------------------
(* Handles.                                                                *)

\* A step that gives out no handle: the list does not grow, and what is on it keeps
\* its handle and its size.
NoNewHandle ==
    /\ mr_list' \subseteq mr_list
    /\ UNCHANGED <<next_handle, next_handle_overflow>>
    /\ \A m \in mr_list' : mr'[m].handle = mr[m].handle /\ mr'[m].size = mr[m].size

\* Only gdr_generate_mr_handle gives out handles, and only gdrdrv_open starts again at 0.
LEMMA HandleSteps ==
    TypeOK /\ SafeInv /\ [Next]_vars => NoNewHandle \/ Open \/ \E t \in Threads : PinPublish(t)
<1> SUFFICES ASSUME TypeOK, SafeInv, [Next]_vars, ~Open, ~(\E t \in Threads : PinPublish(t))
             PROVE  NoNewHandle
  OBVIOUS
<1>1. ASSUME UNCHANGED <<mr, mr_list, next_handle, next_handle_overflow>> PROVE NoNewHandle
  BY <1>1 DEF NoNewHandle
<1>2. ASSUME NEW m \in MRs \ mr_list, UNCHANGED <<mr_list, next_handle, next_handle_overflow>>,
             \A x \in MRs \ {m} : mr'[x] = mr[x]
      PROVE  NoNewHandle
  BY <1>2 DEF NoNewHandle, TypeOK
<1>3. ASSUME NEW t \in Threads, CallStart(t) PROVE NoNewHandle
  <2>1. ASSUME NEW m \in MRs, PinRefused(t, m) \/ \E n \in Sizes : PinStart(t, m, n) PROVE NoNewHandle
    <3>1. m \notin mr_list
      BY <2>1 DEF PinRefused, PinStart, SafeInv, ListedInv
    <3> QED  BY <1>2, <2>1, <3>1 DEF PinRefused, PinStart, TypeOK, info
  <2>2. ASSUME NEW h \in AnyHandle,
               \/ UnpinStart(t, h) \/ ReqStart(t, h)
               \/ \E op \in {"get_info", "get_cb_flag"} : ReadStart(t, op, h)
               \/ \E v \in VMAs, n \in Sizes \ {0} : MmapStart(t, h, v, n)
        PROVE  NoNewHandle
    BY <1>1, <2>2 DEF UnpinStart, ReqStart, ReadStart, MmapStart, info
  <2>3. ASSUME NEW v \in VMAs,
               \/ MunmapStart(t, v)
               \/ \E w \in VMAs, k \in 1 .. (vma[v].len - 1) : MunmapHead(t, v, w, k) \/ MunmapTail(t, v, w, k)
        PROVE  NoNewHandle
    BY <1>1, <2>3 DEF MunmapStart, MunmapHead, MunmapTail, MunmapPart, info
  <2>4. ASSUME RelStart(t) PROVE NoNewHandle
    BY <1>1, <2>4 DEF RelStart
  <2> QED  BY <1>3, <2>1, <2>2, <2>3, <2>4 DEF CallStart
<1>4. ASSUME NEW t \in Threads, CallStep(t) PROVE NoNewHandle
  <2>1. ASSUME \/ PinGetPagesFails(t) \/ PinBadPageTable(t) \/ PinLock(t) \/ PinNoHandle(t)
               \/ PinCopyToUser(t) \/ PinCopyFails(t) \/ FreeDropSem(t) \/ PutPages(t)
               \/ ReadSem(t) \/ ReadBody(t) \/ ReadCopyToUser(t)
               \/ MmapLink(t) \/ MmapUndo(t) \/ MunmapEnd(t)
               \/ (\E m \in MRs : RelPick(t, m)) \/ RelDone(t)
        PROVE  NoNewHandle
    BY <1>1, <2>1 DEF PinGetPagesFails, PinBadPageTable, PinLock, PinNoHandle, PinCopyToUser,
       PinCopyFails, FreeDropSem, PutPages, ReadSem, ReadBody, ReadCopyToUser, MmapLink, MmapUndo,
       MunmapEnd, RelPick, RelDone, info
  <2>2. ASSUME NEW from, NEW to,
               LookupHit(t, from, to) \/ LookupMiss(t, from) \/ SemWrite(t, from, to)
        PROVE  NoNewHandle
    BY <1>1, <2>2 DEF LookupHit, LookupMiss, SemWrite, info
  <2>3. ASSUME \/ UnpinLookup(t) \/ ReadLookup(t) \/ ReqLookup(t) \/ MmapLookup(t) \/ CloseLookup(t)
               \/ UnpinMiss(t) \/ ReadMiss(t) \/ ReqMiss(t) \/ MmapMiss(t) \/ CloseMiss(t)
               \/ ReqSem(t) \/ MmapSem(t) \/ CloseSem(t)
        PROVE  NoNewHandle
    BY <2>2, <2>3 DEF UnpinLookup, ReadLookup, ReqLookup, MmapLookup, CloseLookup,
       UnpinMiss, ReadMiss, ReqMiss, MmapMiss, CloseMiss, ReqSem, MmapSem, CloseSem
  <2>4. ASSUME \/ \E ram \in RamPages : PinGetPages(t, ram)
               \/ \E type \in MappingTypes : ReqBody(t, type)
               \/ MmapRefused(t) \/ MmapMaps(t) \/ (\E k \in Sizes \cup {0} : MmapFails(t, k))
               \/ gdrdrv_vma_close(t)
        PROVE  NoNewHandle
    <3>1. \A x \in MRs : mr'[x].handle = mr[x].handle /\ mr'[x].size = mr[x].size
      <4>1. CASE \E ram \in RamPages : PinGetPages(t, ram)
        BY <4>1 DEF PinGetPages, TypeOK, Region
      <4>2. CASE \E type \in MappingTypes : ReqBody(t, type)
        BY <4>2 DEF ReqBody, TypeOK, Region
      <4>3. CASE MmapRefused(t) \/ \E k \in Sizes \cup {0} : MmapFails(t, k)
        <5>1. MmapClear(t)
          BY <4>3 DEF MmapRefused, MmapFails
        <5> QED  BY <5>1 DEF MmapClear, TypeOK, Region
      <4>4. CASE MmapMaps(t)
        BY <4>4 DEF MmapMaps, TypeOK, Region
      <4>5. CASE gdrdrv_vma_close(t)
        BY <4>5 DEF gdrdrv_vma_close, TypeOK, Region
      <4> QED  BY <2>4, <4>1, <4>2, <4>3, <4>4, <4>5
    <3>2. UNCHANGED <<mr_list, next_handle, next_handle_overflow>>
      BY <2>4 DEF PinGetPages, ReqBody, MmapRefused, MmapFails, MmapMaps, MmapClear, gdrdrv_vma_close, info
    <3> QED  BY <3>1, <3>2 DEF NoNewHandle, TypeOK
  <2>5. ASSUME UnpinRemove(t) \/ RelRemove(t) PROVE NoNewHandle
    BY <2>5 DEF UnpinRemove, RelRemove, NoNewHandle, TypeOK, Region
  <2>6. ASSUME Kfree(t) PROVE NoNewHandle
    <3>1. th[t].mr \in MRs \ mr_list
      BY <2>6 DEF Kfree, At, SafeInv, OwnedInv, Freeing
    <3> QED  BY <1>2, <2>6, <3>1 DEF Kfree, TypeOK, info
  <2> QED  BY <1>4, <2>1, <2>3, <2>4, <2>5, <2>6 DEF CallStep
<1>5. ASSUME NEW m \in MRs, CbStart(m) \/ CbLock(m) \/ CbBody(m) PROVE NoNewHandle
  <2>1. \A x \in MRs : mr'[x].handle = mr[x].handle /\ mr'[x].size = mr[x].size
    <3>1. CASE CbStart(m)
      BY <3>1 DEF CbStart
    <3>2. CASE CbLock(m)
      BY <3>2 DEF CbLock, TypeOK, Region
    <3>3. CASE CbBody(m)
      BY <3>3 DEF CbBody, TypeOK, Region
    <3> QED  BY <1>5, <3>1, <3>2, <3>3
  <2>2. UNCHANGED <<mr_list, next_handle, next_handle_overflow>>
    BY <1>5 DEF CbStart, CbLock, CbBody, info
  <2> QED  BY <2>1, <2>2 DEF NoNewHandle, TypeOK
<1>6. ASSUME GdrClose \/ UNCHANGED vars PROVE NoNewHandle
  BY <1>1, <1>6 DEF GdrClose, vars, info
<1> QED  BY <1>3, <1>4, <1>5, <1>6 DEF Next, CallbackStep

\* A region takes at least one offset, and fewer than the file has.
LEMMA TakenBounds ==
    ASSUME TypeOK, NEW m \in MRs
    PROVE  /\ mr[m].handle \in Nat /\ mr[m].size \in Nat
           /\ Taken(m) \in Nat /\ 0 < Taken(m) /\ Taken(m) < HandleSpace
<1>1. HandleSpace \in Nat /\ 1 < HandleSpace
  BY SizeAssumption
<1>2. \A n \in Sizes \cup {0} : n \in Nat /\ n < HandleSpace
  BY SizeAssumption, <1>1
<1>3. mr[m].handle \in Nat /\ mr[m].size \in Sizes \cup {0}
  BY DEF TypeOK, Region
<1> QED  BY <1>1, <1>2, <1>3 DEF Taken

\* The overflow test of gdr_generate_mr_handle: the sum of an offset and the offsets that
\* a region takes is an offset again, or the test notices that it is not.
LEMMA OverflowNoticed ==
    ASSUME NEW h \in Nat, NEW n \in Nat, h < HandleSpace, 0 < n, n < HandleSpace,
           ~((h + n) % HandleSpace < h)
    PROVE  h + n < HandleSpace
<1>1. HandleSpace \in Nat /\ HandleSpace > 0
  BY SizeAssumption
<1>2. SUFFICES ASSUME h + n >= HandleSpace PROVE FALSE
  BY <1>1
<1>3. h + n - HandleSpace \in 0 .. (HandleSpace - 1)
  BY <1>1, <1>2
<1>4. (h + n) % HandleSpace = h + n - HandleSpace
  BY <1>1, <1>3
<1> QED  BY <1>1, <1>4

\* Every step keeps OffsetsInv: a new handle is next_handle, above all that is taken.
LEMMA OffsetsStep == TypeOK /\ SafeInv /\ OffsetsInv /\ [Next]_vars => OffsetsInv'
<1> SUFFICES ASSUME TypeOK, SafeInv, OffsetsInv, [Next]_vars PROVE OffsetsInv'
  OBVIOUS
<1>1. CASE NoNewHandle
  <2>1. \A m \in mr_list' : m \in mr_list /\ Taken(m)' = Taken(m) /\ mr'[m].handle = mr[m].handle
    BY <1>1 DEF NoNewHandle, Taken
  <2> QED  BY <1>1, <2>1 DEF OffsetsInv, NoNewHandle
<1>2. CASE Open
  BY <1>2, SizeAssumption DEF Open, OffsetsInv
<1>3. ASSUME NEW t \in Threads, PinPublish(t) PROVE OffsetsInv'
  <2>1. PICK m \in MRs : m = th[t].mr /\ m \notin mr_list
    BY <1>3 DEF PinPublish, At, SafeInv, OwnedInv, Creating
  <2>0. PICK n : n = Taken(m)
    OBVIOUS
  <2>2. n \in Nat /\ 0 < n /\ n < HandleSpace /\ next_handle \in Nat /\ HandleSpace \in Nat
    BY <2>0, TakenBounds, SizeAssumption DEF TypeOK
  <2>3. /\ next_handle_overflow = 0
        /\ next_handle' = next_handle + n
        /\ next_handle_overflow' = 0 => ~((next_handle + n) % HandleSpace < next_handle)
        /\ mr_list' = mr_list \cup {m}
        /\ mr'[m].handle = next_handle /\ mr'[m].size = mr[m].size
        /\ \A x \in MRs \ {m} : mr'[x] = mr[x]
    BY <1>3, <2>0, <2>1 DEF PinPublish, gdr_generate_mr_handle, Taken, TypeOK, Region
  <2>4. /\ Taken(m)' = n
        /\ \A x \in mr_list : x # m /\ Taken(x)' = Taken(x) /\ mr'[x].handle = mr[x].handle
    <3>1. \A x \in mr_list : x \in MRs \ {m}
      BY <2>1 DEF TypeOK
    <3>2. \A x \in mr_list : x # m /\ mr'[x] = mr[x]
      BY <2>3, <3>1
    <3> QED  BY <2>0, <2>3, <3>2 DEF Taken
  <2>5. \A x \in mr_list : Taken(x) \in Nat /\ mr[x].handle \in Nat
    BY TakenBounds DEF TypeOK
  <2>6. next_handle < HandleSpace
    BY <2>3 DEF OffsetsInv
  <2>7. next_handle_overflow' = 0 => next_handle' < HandleSpace
    BY <2>2, <2>3, <2>6, OverflowNoticed
  <2>8. ASSUME NEW x \in mr_list'
        PROVE  mr'[x].handle < HandleSpace /\ mr'[x].handle + Taken(x)' <= next_handle'
    <3>1. CASE x = m
      BY <2>2, <2>3, <2>4, <2>6, <3>1
    <3>2. CASE x # m
      <4>1. /\ mr'[x].handle = mr[x].handle /\ Taken(x)' = Taken(x)
            /\ Taken(x) \in Nat /\ mr[x].handle \in Nat
            /\ mr[x].handle < HandleSpace /\ mr[x].handle + Taken(x) <= next_handle
        BY <2>3, <2>4, <2>5, <3>2 DEF OffsetsInv
      <4> QED  BY <2>2, <2>3, <4>1
    <3> QED  BY <3>1, <3>2
  <2>9. \A x, k \in mr_list' : x # k => \/ mr'[x].handle + Taken(x)' <= mr'[k].handle
                                        \/ mr'[k].handle + Taken(k)' <= mr'[x].handle
    <3> SUFFICES ASSUME NEW x \in mr_list', NEW k \in mr_list', x # k
                 PROVE  \/ mr'[x].handle + Taken(x)' <= mr'[k].handle
                        \/ mr'[k].handle + Taken(k)' <= mr'[x].handle
      OBVIOUS
    <3>1. CASE x = m
      BY <2>3, <2>4, <2>5, <3>1 DEF OffsetsInv
    <3>2. CASE k = m
      BY <2>3, <2>4, <2>5, <3>2 DEF OffsetsInv
    <3>3. CASE x # m /\ k # m
      BY <2>3, <2>4, <3>3 DEF OffsetsInv
    <3> QED  BY <3>1, <3>2, <3>3
  <2> QED  BY <2>7, <2>8, <2>9 DEF OffsetsInv
<1> QED  BY HandleSteps, <1>1, <1>2, <1>3

\* The ranges of offsets of the regions never overlap, and a handle fits in the offset
\* that mmap is given, for every sequence of pins, of any sizes, up to the overflow of
\* next_handle and past it, and whatever the callers do.
THEOREM HandlesDisjoint == Spec => []HandleRangesDisjoint
<1>1. Init => OffsetsInv
  BY SizeAssumption DEF Init, OffsetsInv
<1>2. TypeOK /\ SafeInv /\ OffsetsInv => HandleRangesDisjoint
  <2> SUFFICES ASSUME TypeOK, OffsetsInv PROVE HandleRangesDisjoint
    OBVIOUS
  <2>1. \A m \in mr_list : mr[m].handle \in Nat /\ mr[m].size \in Nat
    BY TakenBounds DEF TypeOK
  <2>2. ASSUME NEW m \in mr_list, NEW x \in Offsets(mr[m].handle, mr[m].size) \cup {mr[m].handle}
        PROVE  x \in Nat /\ mr[m].handle <= x /\ x < mr[m].handle + Taken(m)
    BY <2>1 DEF Offsets, Taken
  <2>3. ASSUME NEW m \in mr_list, NEW k \in mr_list, m # k,
               NEW x \in Offsets(mr[m].handle, mr[m].size) \cup {mr[m].handle},
               x \in Offsets(mr[k].handle, mr[k].size) \cup {mr[k].handle}
        PROVE  FALSE
    <3>1. /\ x \in Nat /\ mr[m].handle <= x /\ x < mr[m].handle + Taken(m)
          /\ mr[k].handle <= x /\ x < mr[k].handle + Taken(k)
      BY <2>2, <2>3
    <3>2. Taken(m) \in Nat /\ Taken(k) \in Nat
      BY <2>1 DEF Taken
    <3>3. \/ mr[m].handle + Taken(m) <= mr[k].handle
          \/ mr[k].handle + Taken(k) <= mr[m].handle
      BY <2>3 DEF OffsetsInv
    <3> QED  BY <2>1, <3>1, <3>2, <3>3
  <2> QED  BY <2>3 DEF HandleRangesDisjoint, OffsetsInv
<1> QED  BY Inductive, OffsetsStep, <1>1, <1>2, PTL DEF Spec

-----------------------------------------------------------------------------
(* The count of registered regions.                                        *)

\* Only four steps change a registration or the count.
LEMMA CountSteps ==
    Next => \/ UNCHANGED <<nv, refcount>>
            \/ \E t \in Threads : PutPages(t) \/ \E ram \in RamPages : PinGetPages(t, ram)
            \/ \E m \in MRs : CbStart(m) \/ CbBody(m)
<1>1. ASSUME NEW t \in Threads, CallStart(t) PROVE UNCHANGED <<nv, refcount>>
  <2>1. ASSUME NEW m \in MRs, PinRefused(t, m) \/ \E n \in Sizes : PinStart(t, m, n)
        PROVE  UNCHANGED <<nv, refcount>>
    BY <2>1 DEF PinRefused, PinStart
  <2>2. ASSUME NEW h \in AnyHandle,
               \/ UnpinStart(t, h) \/ ReqStart(t, h)
               \/ \E op \in {"get_info", "get_cb_flag"} : ReadStart(t, op, h)
               \/ \E v \in VMAs, n \in Sizes \ {0} : MmapStart(t, h, v, n)
        PROVE  UNCHANGED <<nv, refcount>>
    BY <2>2 DEF UnpinStart, ReqStart, ReadStart, MmapStart
  <2>3. ASSUME NEW v \in VMAs,
               \/ MunmapStart(t, v)
               \/ \E w \in VMAs, k \in 1 .. (vma[v].len - 1) : MunmapHead(t, v, w, k) \/ MunmapTail(t, v, w, k)
        PROVE  UNCHANGED <<nv, refcount>>
    BY <2>3 DEF MunmapStart, MunmapHead, MunmapTail, MunmapPart
  <2>4. ASSUME RelStart(t) PROVE UNCHANGED <<nv, refcount>>
    BY <2>4 DEF RelStart
  <2> QED  BY <1>1, <2>1, <2>2, <2>3, <2>4 DEF CallStart
<1>2. ASSUME NEW t \in Threads, CallStep(t)
      PROVE  \/ UNCHANGED <<nv, refcount>>
             \/ PutPages(t) \/ \E ram \in RamPages : PinGetPages(t, ram)
  <2>1. ASSUME NEW from, NEW to,
               LookupHit(t, from, to) \/ LookupMiss(t, from) \/ SemWrite(t, from, to)
        PROVE  UNCHANGED <<nv, refcount>>
    BY <2>1 DEF LookupHit, LookupMiss, SemWrite
  <2> QED
    BY <1>2, <2>1 DEF CallStep, PinGetPagesFails, PinBadPageTable, PinLock, PinPublish, PinNoHandle,
       PinCopyToUser, PinCopyFails, UnpinLookup, UnpinMiss, UnpinRemove, FreeDropSem, Kfree,
       ReadLookup, ReadMiss, ReadSem, ReadBody, ReadCopyToUser, ReqLookup, ReqMiss, ReqSem, ReqBody,
       MmapLookup, MmapMiss, MmapSem, MmapRefused, MmapMaps, MmapFails, MmapClear, MmapLink, MmapUndo,
       CloseLookup, CloseMiss, CloseSem, gdrdrv_vma_close, MunmapEnd, RelPick, RelRemove, RelDone
<1>3. ASSUME NEW m \in MRs, CbLock(m) PROVE UNCHANGED <<nv, refcount>>
  BY <1>3 DEF CbLock
<1>4. ASSUME Open \/ GdrClose PROVE UNCHANGED <<nv, refcount>>
  BY <1>4 DEF Open, GdrClose
<1> QED  BY <1>1, <1>2, <1>3, <1>4 DEF Next, CallbackStep

\* Every step keeps the count: registering adds one region to the set and one to the
\* count, and the callback and put_pages take away one of each, or nothing.
LEMMA CountStep == TypeOK /\ SafeInv /\ LocksInv /\ CountInv /\ [Next]_vars => CountInv'
<1> SUFFICES ASSUME TypeOK, SafeInv, LocksInv, CountInv, [Next]_vars PROVE CountInv'
  OBVIOUS
<1>0. IsFiniteSet(Registered) /\ refcount = Cardinality(Registered) /\ Cardinality(Registered) \in Nat
  BY FS_CardinalityType DEF CountInv
<1>1. ASSUME UNCHANGED <<nv, refcount>> PROVE CountInv'
  BY <1>0, <1>1 DEF CountInv, Registered
<1>2. ASSUME NEW m \in MRs, m \in Registered, Registered' = Registered \ {m}, refcount' = refcount - 1
      PROVE  CountInv'
  <2>1. IsFiniteSet(Registered') /\ Cardinality(Registered') = Cardinality(Registered) - 1
    BY <1>0, <1>2, FS_RemoveElement
  <2> QED  BY <1>0, <1>2, <2>1 DEF CountInv
<1>3. ASSUME NEW t \in Threads, NEW ram \in RamPages, PinGetPages(t, ram) PROVE CountInv'
  <2>1. th[t].mr \in MRs /\ nv[th[t].mr] = "none"
    BY <1>3 DEF PinGetPages, At, SafeInv, OwnedInv, Creating, LocksInv, FreshInv
  <2>2. Registered' = Registered \cup {th[t].mr} /\ th[t].mr \notin Registered
    BY <1>3, <2>1 DEF PinGetPages, Registered, TypeOK
  <2>3. IsFiniteSet(Registered') /\ Cardinality(Registered') = Cardinality(Registered) + 1
    BY <1>0, <2>2, FS_AddElement
  <2>4. refcount' = refcount + 1
    BY <1>3 DEF PinGetPages
  <2> QED  BY <1>0, <2>3, <2>4 DEF CountInv
<1>4. ASSUME NEW t \in Threads, PutPages(t) PROVE CountInv'
  <2>1. th[t].mr \in MRs
    BY <1>4 DEF PutPages, At, SafeInv, OwnedInv, Freeing
  <2>2. CASE nv[th[t].mr] = "held"
    <3>1. Registered' = Registered \ {th[t].mr} /\ th[t].mr \in Registered /\ refcount' = refcount - 1
      BY <1>4, <2>1, <2>2 DEF PutPages, Registered, TypeOK
    <3> QED  BY <1>2, <2>1, <3>1
  <2>3. CASE nv[th[t].mr] # "held"
    <3>1. nv[th[t].mr] = "none"
      BY <1>4, <2>1, <2>3 DEF PutPages, TypeOK
    <3>2. nv' = nv /\ refcount' = refcount
      BY <1>4, <2>3, <3>1 DEF PutPages, TypeOK
    <3> QED  BY <1>1, <3>2
  <2> QED  BY <2>2, <2>3
<1>5. ASSUME NEW m \in MRs, CbStart(m) PROVE CountInv'
  <2>1. Registered' = Registered /\ refcount' = refcount
    BY <1>5 DEF CbStart, Registered, TypeOK
  <2> QED  BY <1>0, <2>1 DEF CountInv
<1>6. ASSUME NEW m \in MRs, CbBody(m) PROVE CountInv'
  <2>1. nv[m] = "revoking" /\ mr[m].page_table = 1
    BY <1>6 DEF CbBody, SafeInv, PagesInv
  <2>2. Registered' = Registered \ {m} /\ m \in Registered /\ refcount' = refcount - 1
    BY <1>6, <2>1 DEF CbBody, Registered, TypeOK
  <2> QED  BY <1>2, <2>2
<1>7. ASSUME UNCHANGED vars PROVE CountInv'
  BY <1>1, <1>7 DEF vars
<1> QED  BY CountSteps, <1>1, <1>3, <1>4, <1>5, <1>6, <1>7

-----------------------------------------------------------------------------
(* The theorems.                                                           *)

\* LocksInv and CountInv hold in every state.
LEMMA LocksInvariant == Spec => [](TypeOK /\ SafeInv /\ LocksInv /\ CountInv)
<1>1. Init => LocksInv /\ CountInv
  <2> SUFFICES ASSUME Init PROVE LocksInv /\ CountInv
    OBVIOUS
  <2>1. \A t \in Threads : th[t].pc = "idle"
    BY DEF Init, IdleThread
  <2>2. \A m \in MRs : mr[m].state = "free"
    BY DEF Init, NewMR
  <2>3. LocksInv
    BY <2>1, <2>2, NullAssumption
    DEF Init, LocksInv, WriterInv, ReaderInv, KeptInv, FreshInv, OwnerInv, Creating, Writing
  <2>4. Registered = {}
    BY DEF Init, Registered
  <2>5. CountInv
    BY <2>4, FS_EmptySet DEF Init, CountInv
  <2> QED  BY <2>3, <2>5
<1> QED  BY Inductive, LocksStep, CountStep, <1>1, PTL DEF Spec

\* gdr_free_mr_unlocked runs under the write lock that its comment asks for, on every
\* path to it, as long as callers pass flags that the driver accepts: with refused flags
\* the region is freed before it is ever locked.
THEOREM FreedLocked ==
    ASSUME "BadFlags" \notin Liberties
    PROVE  Spec => []FreedUnderWriteLock
<1>1. LocksInv => FreedUnderWriteLock
  BY DEF LocksInv, OwnerInv, FreedUnderWriteLock, At
<1> QED  BY LocksInvariant, <1>1, PTL

\* gdrdrv_nv_get_pages_refcount is the number of regions whose pages are handed out,
\* for any number of threads and regions, however pins, unpins, release and callbacks
\* interleave, and whatever the callers do.
THEOREM CountExact == Spec => []RefcountExact
<1>1. CountInv => RefcountExact
  BY DEF CountInv, RefcountExact, Registered
<1> QED  BY LocksInvariant, <1>1, PTL

\* Closing the file leaves no region, no semaphore held and no page with the driver,
\* however many regions there were and whatever the callers did before: the BUG_ON of
\* gdrdrv_cleanup cannot fire after the last close.
THEOREM NothingLeft == Spec => []ReleaseLeavesNothing
<1>1. TypeOK /\ SafeInv /\ LocksInv /\ CountInv => ReleaseLeavesNothing
  <2> SUFFICES ASSUME TypeOK, SafeInv, LocksInv, CountInv, file = "closed"
               PROVE  /\ refcount = 0
                      /\ \A m \in MRs : mr[m].state = "free" /\ writer[m] = None /\ readers[m] = {}
    BY DEF ReleaseLeavesNothing
  <2>1. mr_list = {} /\ \A t \in Threads : th[t].pc = "idle"
    BY DEF SafeInv, FileInv
  <2>2. \A m \in MRs : mr[m].state = "free"
    BY <2>1 DEF LocksInv, KeptInv, TypeOK, Region, Creating, Freeing
  <2>3. \A m \in MRs : nv[m] = "none"
    BY <2>2 DEF SafeInv, PagesInv
  <2>4. \A m \in MRs : readers[m] = {}
    BY <2>1 DEF LocksInv, ReaderInv, TypeOK
  <2>5. \A m \in MRs : writer[m] = None
    BY <2>1, <2>3 DEF LocksInv, WriterInv, TypeOK, Creating, Writing
  <2>6. Registered = {}
    BY <2>3 DEF Registered
  <2>7. refcount = 0
    BY <2>6, FS_EmptySet DEF CountInv
  <2> QED  BY <2>2, <2>4, <2>5, <2>7
<1> QED  BY LocksInvariant, <1>1, PTL

=============================================================================
