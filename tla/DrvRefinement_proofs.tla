------------------------ MODULE DrvRefinement_proofs ------------------------
(***************************************************************************)
(* The driver implements BufferLife, for any number of threads, regions    *)
(* and VMAs and for callers that keep to the rules of libgdrapi: every     *)
(* step of a handler, of the kernel or of the callback is one step of      *)
(* BufferLife or changes nothing that it speaks of.                        *)
(***************************************************************************)
EXTENDS DrvRefinement, GdrDrv_maps_proofs

-----------------------------------------------------------------------------
(* What the steps need beyond OrderlyInv.                                  *)

\* A region that a pin is creating has been asked nothing, and the size it will have; once
\* it has pages it keeps them, because the pin holds its semaphore.
BornOf(t) ==
    /\ th[t].pc \in Creating => Unasked(th[t].mr) /\ mr[th[t].mr].size \in Sizes
    /\ th[t].pc \in PagesPCs => mr[th[t].mr].page_table = 1 /\ mr[th[t].mr].ram \in RamPages

BornInv == \A t \in Threads : BornOf(t)

\* A VMA that maps something points to the region that has its handle.
BackInv == \A v \in VMAs, m \in mr_list : Mapped(v) /\ mr[m].handle = vma[v].pgoff => vma[v].mr = m

\* A VMA is not empty when it is made, and munmap has taken its entries first.
ShutInv == \A v \in VMAs :
    /\ vma[v].state = "new" => 0 < vma[v].len
    /\ vma[v].state = "closing" => vma[v].pte = {}

\* No callback comes for persistent mappings.
CallbackInv == \A m \in MRs : nv[m] = "revoking" => ~Persistent

RefInv == OrderlyInv /\ FlagInv /\ BornInv /\ BackInv /\ ShutInv /\ CallbackInv

-----------------------------------------------------------------------------
(* Steps that leave the buffers and the mappings alone.                    *)

\* The steps of a call at which its VMA exists though it is not linked.
Stage == {"mmap_link", "close_lock", "close_sem", "close_body"}

\* What BufferLife sees of a region.
SameRegion(m) ==
    /\ mr'[m].handle = mr[m].handle /\ mr'[m].size = mr[m].size
    /\ mr'[m].page_table = mr[m].page_table /\ mr'[m].ram = mr[m].ram
    /\ mr'[m].cpu_mapping_type = mr[m].cpu_mapping_type
    /\ mr'[m].req_mapping_type = mr[m].req_mapping_type

\* ... and of a VMA.
SameVma(v) ==
    /\ Mapped(v)' <=> Mapped(v)
    /\ Mapped(v) => /\ vma'[v].mr = vma[v].mr /\ vma'[v].pgoff = vma[v].pgoff
                    /\ vma'[v].pte = {} <=> vma[v].pte = {}

\* A thread goes on without a change to whether its VMA exists.
SameStage(u) ==
    /\ th'[u].pc \in Stage <=> th[u].pc \in Stage
    /\ th'[u].pc \in Stage => th'[u].vma = th[u].vma

\* A thread that is creating a region goes on with it, and the region stays as it is.
SameBirth(u) == th'[u].pc \in Creating =>
    /\ th[u].pc \in Creating /\ th'[u].mr = th[u].mr
    /\ th'[u].pc \in PagesPCs => th[u].pc \in PagesPCs
    /\ SameRegion(th[u].mr)

\* Nothing that BufferLife speaks of changes.
AbsSame == UNCHANGED <<AbsBuf, AbsMap, next_handle>>

\* The buffers are the regions on the list, ...
LEMMA BufFrame ==
    ASSUME mr_list' = mr_list, \A m \in mr_list : SameRegion(m)
    PROVE  AbsBuf' = AbsBuf
BY DEF AbsBuf, SameRegion

\* ... the buffer of a VMA depends on its offset and on the handles, ...
LEMMA OwnerFrame ==
    ASSUME NEW v \in VMAs, vma'[v].mr = vma[v].mr, vma'[v].pgoff = vma[v].pgoff,
           mr_list' = mr_list, \A m \in mr_list : mr'[m].handle = mr[m].handle
    PROVE  Owner(v)' = Owner(v)
BY DEF Owner

\* ... and the mappings on nothing else.
LEMMA MapFrame ==
    ASSUME mr_list' = mr_list, \A m \in mr_list : mr'[m].handle = mr[m].handle, \A v \in VMAs : SameVma(v)
    PROVE  AbsMap' = AbsMap
<1>1. ASSUME NEW v \in VMAs PROVE AbsMap'[v] = AbsMap[v]
  <2>1. CASE Mapped(v)
    BY <2>1, OwnerFrame DEF AbsMap, SameVma
  <2>2. CASE ~Mapped(v)
    BY <2>2 DEF AbsMap, SameVma
  <2> QED  BY <2>1, <2>2
<1> QED  BY <1>1 DEF AbsMap

\* A step that leaves list, regions on it and existing VMAs as they are is none that
\* BufferLife sees, and keeps BackInv.
LEMMA RefFrame ==
    ASSUME BackInv, UNCHANGED <<mr_list, next_handle>>, \A m \in mr_list : SameRegion(m), \A v \in VMAs : SameVma(v)
    PROVE  AbsSame /\ BackInv'
<1>1. \A m \in mr_list : mr'[m].handle = mr[m].handle
  BY DEF SameRegion
<1>2. AbsSame
  BY <1>1, BufFrame, MapFrame DEF AbsSame
<1>3. ASSUME NEW v \in VMAs, NEW m \in mr_list, Mapped(v)', mr'[m].handle = vma'[v].pgoff PROVE vma'[v].mr = m
  <2>1. Mapped(v) /\ vma'[v].mr = vma[v].mr /\ vma'[v].pgoff = vma[v].pgoff
    BY <1>3 DEF SameVma
  <2> QED  BY <1>1, <1>3, <2>1 DEF BackInv
<1>4. BackInv'
  BY <1>3 DEF BackInv
<1> QED  BY <1>2, <1>4

\* If at most one thread is at such a step, a VMA exists if it is linked or that thread's.
LEMMA LoneMapped ==
    ASSUME NEW t \in Threads, \A u \in Threads : u # t => th'[u] = th[u] /\ th[u].pc \notin Stage, NEW v \in VMAs
    PROVE  /\ Mapped(v) <=> vma[v].state = "linked" \/ (th[t].vma = v /\ th[t].pc \in Stage)
           /\ Mapped(v)' <=> vma'[v].state = "linked" \/ (th'[t].vma = v /\ th'[t].pc \in Stage)
BY DEF Mapped, Stage

\* A VMA that exists is an object that is in use.
LEMMA MappedUsed ==
    ASSUME CallersInv, NEW v \in VMAs, Mapped(v)
    PROVE  /\ vma[v].state # "free"
           /\ vma[v].state \in {"linked", "closing"} \/ \E u \in Threads : th[u].pc = "mmap_link" /\ th[u].vma = v
BY DEF Mapped, CallersInv, VmaInv, MmapPCs, MunmapPCs

\* A step that only moves threads, and none into or out of the stages of a VMA.
LEMMA StillFrame ==
    ASSUME BackInv, ShutInv, UNCHANGED <<mr_list, next_handle, vma>>,
           \A m \in mr_list : SameRegion(m), \A u \in Threads : SameStage(u)
    PROVE  AbsSame /\ BackInv' /\ ShutInv'
<1>1. \A v \in VMAs : SameVma(v)
  BY DEF SameVma, SameStage, Mapped, Stage
<1> QED  BY <1>1, RefFrame DEF ShutInv

\* A region that is being created stays so.
LEMMA BornKept ==
    ASSUME BornInv, NEW u \in Threads, SameBirth(u)
    PROVE  BornOf(u)'
<1> SUFFICES ASSUME th'[u].pc \in Creating PROVE BornOf(u)'
  BY DEF BornOf, PagesPCs, Creating
<1>1. th'[u].mr = th[u].mr /\ SameRegion(th[u].mr) /\ BornOf(u)
  BY DEF SameBirth, BornInv
<1> QED  BY <1>1 DEF BornOf, SameBirth, SameRegion, Unasked, Creating, PagesPCs

\* Such a step, as a whole.
Still == AbsSame /\ BornInv' /\ BackInv' /\ ShutInv'

\* The steps of a thread that do more: they begin to create a region or give it pages, or
\* change the list, a region on it or a VMA.
Telling(t) ==
    \/ (\E m \in MRs, n \in Sizes : PinStart(t, m, n)) \/ (\E ram \in RamPages : PinGetPages(t, ram))
    \/ PinPublish(t) \/ UnpinRemove(t) \/ RelRemove(t) \/ (\E type \in MappingTypes : ReqBody(t, type))
    \/ (\E h \in AnyHandle, v \in VMAs, n \in Sizes \ {0} : MmapStart(t, h, v, n))
    \/ MmapRefused(t) \/ (\E k \in Sizes \cup {0} : MmapFails(t, k)) \/ MmapMaps(t) \/ MmapLink(t) \/ MmapUndo(t)
    \/ (\E v \in VMAs : MunmapStart(t, v)) \/ CloseMiss(t) \/ gdrdrv_vma_close(t) \/ MunmapEnd(t)

\* All the others BufferLife does not see.
LEMMA QuietRef ==
    ASSUME OrderlyCallers, RefInv, [Next]_vars
    PROVE  \/ Still
           \/ \E t \in Threads : Telling(t)
           \/ Open
           \/ \E m \in MRs : CbBody(m)
<1> USE DEF Stage, Creating, PagesPCs
<1>0. TypeOK /\ SafeInv /\ BornInv /\ BackInv /\ ShutInv
  BY DEF RefInv, OrderlyInv
<1>1. ASSUME UNCHANGED <<mr, mr_list, next_handle, vma>>, NEW t \in Threads, SameStage(t), SameBirth(t),
             \A u \in Threads : u # t => th'[u] = th[u]
      PROVE  Still
  <2>1. (\A u \in Threads : SameStage(u) /\ SameBirth(u)) /\ \A m \in mr_list : SameRegion(m)
    BY <1>1 DEF SameStage, SameBirth, SameRegion
  <2> QED  BY <1>0, <1>1, <2>1, StillFrame, BornKept DEF Still, BornInv
<1>2. ASSUME UNCHANGED <<mr, mr_list, next_handle, vma>>, NEW t \in Threads,
             th[t].pc \notin Stage, th'[t].pc \notin Stage \cup Creating,
             \A u \in Threads : u # t => th'[u] = th[u]
      PROVE  Still
  BY <1>1, <1>2 DEF SameStage, SameBirth
<1>3. ASSUME NEW t \in Threads, NEW op, NEW pc, NEW h, NEW m, NEW v, Begin(t, op, pc, h, m, v),
             th[t].pc \notin Stage, pc \notin Stage \cup Creating, UNCHANGED <<mr, mr_list, next_handle, vma>>
      PROVE  Still
  BY <1>0, <1>2, <1>3, BeginFields
<1>4. ASSUME NEW t \in Threads, NEW pc, Goto(t, pc), th[t].pc \notin Stage,
             pc \notin Stage \cup Creating, UNCHANGED <<mr, mr_list, next_handle, vma>>
      PROVE  Still
  BY <1>0, <1>2, <1>4, GotoFields
<1>5. ASSUME NEW t \in Threads, Return(t), th[t].pc \notin Stage, UNCHANGED <<mr, mr_list, next_handle, vma>>
      PROVE  Still
  BY <1>0, <1>2, <1>5, ReturnFrame
<1>6. ASSUME NEW t \in Threads, CallStart(t), ~Telling(t) PROVE Still
  <2>1. ASSUME NEW m \in MRs, PinRefused(t, m) PROVE Still
    <3>1. /\ th[t].pc = "idle" /\ th'[t].pc = "free" /\ \A u \in Threads : u # t => th'[u] = th[u]
          /\ UNCHANGED <<mr_list, next_handle, vma>> /\ mr[m].state = "free"
          /\ \A x \in MRs \ {m} : mr'[x] = mr[x]
      BY <1>0, <2>1, BeginFields DEF PinRefused, MayCall, At, info, mm, TypeOK
    <3>2. m \notin mr_list /\ \A u \in Threads : th[u].pc \in Creating => th[u].mr \in MRs \ {m}
      BY <1>0, <3>1 DEF SafeInv, ListedInv, OwnedInv
    <3>3. \A x \in mr_list : SameRegion(x)
      BY <1>0, <3>1, <3>2 DEF SameRegion, TypeOK
    <3>4. \A u \in Threads : SameStage(u) /\ SameBirth(u)
      BY <3>1, <3>2 DEF SameStage, SameBirth, SameRegion
    <3> QED  BY <1>0, <3>1, <3>3, <3>4, StillFrame, BornKept DEF Still, BornInv
  <2>2. ASSUME NEW h \in AnyHandle, UnpinStart(t, h) PROVE Still
    BY <1>3, <2>2 DEF UnpinStart, MayCall, At, info, mm
  <2>3. ASSUME NEW h \in AnyHandle, NEW op, ReadStart(t, op, h) PROVE Still
    BY <1>3, <2>3 DEF ReadStart, MayCall, At, info, mm
  <2>4. ASSUME NEW h \in AnyHandle, ReqStart(t, h) PROVE Still
    BY <1>3, <2>4 DEF ReqStart, MayCall, At, info, mm
  <2>5. ASSUME NEW v \in VMAs, NEW w \in VMAs, NEW k \in 1 .. (vma[v].len - 1)
        PROVE  ~MunmapHead(t, v, w, k) /\ ~MunmapTail(t, v, w, k)
    BY DEF OrderlyCallers, MunmapHead, MunmapTail, MunmapPart
  <2>6. ASSUME RelStart(t) PROVE Still
    BY <1>3, <2>6 DEF RelStart, AllIdle, At, mm
  <2> QED  BY <1>6, <2>1, <2>2, <2>3, <2>4, <2>5, <2>6 DEF CallStart, Telling
<1>7. ASSUME NEW t \in Threads, CallStep(t), ~Telling(t) PROVE Still
  <2>1. ASSUME PinGetPagesFails(t) \/ PinBadPageTable(t) \/ PinNoHandle(t) \/ PinCopyFails(t) PROVE Still
    BY <1>4, <2>1 DEF PinGetPagesFails, PinBadPageTable, PinNoHandle, PinCopyFails, At, info, mm
  <2>2. ASSUME FreeDropSem(t) \/ PutPages(t) \/ ReadSem(t) PROVE Still
    BY <1>4, <2>2 DEF FreeDropSem, PutPages, ReadSem, At, info, mm
  <2>3. ASSUME PinCopyToUser(t) \/ ReadCopyToUser(t) \/ RelDone(t) PROVE Still
    BY <1>5, <2>3 DEF PinCopyToUser, ReadCopyToUser, RelDone, At, info, mm
  <2>4. ASSUME UnpinMiss(t) \/ ReadMiss(t) \/ ReqMiss(t) PROVE Still
    BY <1>5, <2>4 DEF UnpinMiss, ReadMiss, ReqMiss, LookupMiss, At, info, mm
  <2>5. ASSUME MmapMiss(t) PROVE Still
    BY <1>4, <2>5 DEF MmapMiss, LookupMiss, At, info, mm
  <2>6. ASSUME ReqSem(t) \/ MmapSem(t) PROVE Still
    BY <1>4, <2>6 DEF ReqSem, MmapSem, SemWrite, At, info, mm
  <2>7. ASSUME NEW from, NEW to, LookupHit(t, from, to), to \notin Creating, from \in Stage <=> to \in Stage
        PROVE  Still
    <3>1. /\ UNCHANGED <<mr, mr_list, next_handle, vma>> /\ th[t].pc = from /\ th'[t].pc = to
          /\ th'[t].vma = th[t].vma
          /\ \A u \in Threads : u # t => th'[u] = th[u]
      BY <1>0, <2>7 DEF LookupHit, At, info, mm, TypeOK, Thread
    <3>2. SameStage(t) /\ SameBirth(t)
      BY <2>7, <3>1 DEF SameStage, SameBirth
    <3> QED  BY <1>1, <3>1, <3>2
  <2>8. ASSUME UnpinLookup(t) \/ ReadLookup(t) \/ ReqLookup(t) \/ MmapLookup(t) \/ CloseLookup(t) PROVE Still
    BY <2>7, <2>8 DEF UnpinLookup, ReadLookup, ReqLookup, MmapLookup, CloseLookup
  <2>9. ASSUME PinLock(t) PROVE Still
    <3>1. /\ UNCHANGED <<mr, mr_list, next_handle, vma>> /\ th[t].pc = "pin_check" /\ th'[t].pc = "pin_publish"
          /\ th'[t].mr = th[t].mr
          /\ \A u \in Threads : u # t => th'[u] = th[u]
      BY <1>0, <2>9, GotoFields DEF PinLock, At, info, mm
    <3>2. SameStage(t) /\ SameBirth(t)
      BY <3>1 DEF SameStage, SameBirth, SameRegion
    <3> QED  BY <1>1, <3>1, <3>2
  <2>10. ASSUME CloseSem(t) PROVE Still
    <3>1. /\ UNCHANGED <<mr, mr_list, next_handle, vma>> /\ th[t].pc = "close_sem" /\ th'[t].pc = "close_body"
          /\ th'[t].vma = th[t].vma
          /\ \A u \in Threads : u # t => th'[u] = th[u]
      BY <1>0, <2>10, GotoFields DEF CloseSem, SemWrite, At, info, mm
    <3>2. SameStage(t) /\ SameBirth(t)
      BY <3>1 DEF SameStage, SameBirth
    <3> QED  BY <1>1, <3>1, <3>2
  <2>11. ASSUME ReadBody(t) PROVE Still
    <3>1. /\ UNCHANGED <<mr, mr_list, next_handle, vma>> /\ th[t].pc = "read_body" /\ th'[t].pc = "read_copy"
          /\ \A u \in Threads : u # t => th'[u] = th[u]
      BY <1>0, <2>11 DEF ReadBody, At, info, mm, TypeOK, Thread
    <3> QED  BY <1>2, <3>1
  <2>12. ASSUME NEW m \in MRs, RelPick(t, m) PROVE Still
    <3>1. /\ UNCHANGED <<mr, mr_list, next_handle, vma>> /\ th[t].pc = "rel_next" /\ th'[t].pc = "rel_sem"
          /\ \A u \in Threads : u # t => th'[u] = th[u]
      BY <1>0, <2>12 DEF RelPick, At, info, mm, TypeOK, Thread
    <3> QED  BY <1>2, <3>1
  <2>13. ASSUME Kfree(t) PROVE Still
    <3>1. /\ th[t].pc = "kfree" /\ th'[t].pc \in {"idle", "rel_next"} /\ \A u \in Threads : u # t => th'[u] = th[u]
          /\ UNCHANGED <<mr_list, next_handle, vma>>
          /\ \A x \in MRs \ {th[t].mr} : mr'[x] = mr[x]
      BY <1>0, <2>13 DEF Kfree, At, info, mm, IdleThread, TypeOK
    <3>2. th[t].mr \notin mr_list /\ \A u \in Threads : u # t /\ th[u].pc \in Creating => th[u].mr \in MRs \ {th[t].mr}
      BY <1>0, <3>1 DEF SafeInv, OwnedInv, Freeing
    <3>3. \A x \in mr_list : SameRegion(x)
      BY <1>0, <3>1, <3>2 DEF SameRegion, TypeOK
    <3>4. \A u \in Threads : SameStage(u) /\ SameBirth(u)
      BY <3>1, <3>2 DEF SameStage, SameBirth, SameRegion
    <3> QED  BY <1>0, <3>1, <3>3, <3>4, StillFrame, BornKept DEF Still, BornInv
  <2> QED  BY <1>7, <2>1, <2>2, <2>3, <2>4, <2>5, <2>6, <2>8, <2>9, <2>10, <2>11, <2>12, <2>13 DEF CallStep, Telling
<1>8. ASSUME NEW m \in MRs, CbStart(m) \/ CbLock(m) PROVE Still
  <2>1. UNCHANGED <<mr_list, next_handle, vma, th>>
    BY <1>8 DEF CbStart, CbLock, info, mm
  <2>2. \A x \in MRs : SameRegion(x)
    <3>1. CASE CbStart(m)
      BY <3>1 DEF CbStart, SameRegion
    <3>2. CASE CbLock(m)
      BY <1>0, <3>2 DEF CbLock, SameRegion, TypeOK, Region
    <3> QED  BY <1>8, <3>1, <3>2
  <2>3. \A x \in mr_list : SameRegion(x)
    BY <1>0, <2>2 DEF TypeOK
  <2>4. \A u \in Threads : SameStage(u) /\ SameBirth(u)
    BY <1>0, <2>1, <2>2 DEF SameStage, SameBirth, SafeInv, OwnedInv
  <2> QED  BY <1>0, <2>1, <2>3, <2>4, StillFrame, BornKept DEF Still, BornInv
<1>9. ASSUME GdrClose \/ UNCHANGED vars PROVE Still
  <2>1. UNCHANGED <<mr, mr_list, next_handle, vma, th>>
    BY <1>9 DEF GdrClose, vars, info, mm
  <2>2. \A u \in Threads : SameStage(u) /\ SameBirth(u)
    BY <2>1 DEF SameStage, SameBirth, SameRegion
  <2> QED  BY <1>0, <2>1, <2>2, StillFrame, BornKept DEF Still, BornInv, SameRegion
<1> QED  BY <1>6, <1>7, <1>8, <1>9 DEF Next, CallbackStep

\* A callback starts only where mappings are not persistent.
LEMMA CallbackKept == TypeOK /\ CallbackInv /\ [Next]_vars => CallbackInv'
<1> SUFFICES ASSUME TypeOK, CallbackInv, [Next]_vars PROVE CallbackInv'
  OBVIOUS
<1>1. ASSUME NEW t \in Threads, NEW ram \in RamPages, PinGetPages(t, ram) PROVE CallbackInv'
  BY <1>1 DEF PinGetPages, CallbackInv, TypeOK
<1>2. ASSUME NEW t \in Threads, PutPages(t) PROVE CallbackInv'
  BY <1>2 DEF PutPages, CallbackInv, TypeOK
<1>3. ASSUME NEW m \in MRs, CbStart(m) PROVE CallbackInv'
  BY <1>3 DEF CbStart, CallbackInv
<1>4. ASSUME NEW m \in MRs, CbBody(m) PROVE CallbackInv'
  BY <1>4 DEF CbBody, CallbackInv, TypeOK
<1>5. ASSUME nv' = nv PROVE CallbackInv'
  BY <1>5 DEF CallbackInv
<1>6. ASSUME NEW t \in Threads, CallStart(t) PROVE nv' = nv
  <2>1. ASSUME \/ \E m \in MRs : PinRefused(t, m) \/ \E n \in Sizes : PinStart(t, m, n)
               \/ \E h \in AnyHandle : UnpinStart(t, h) \/ ReqStart(t, h)
               \/ \E h \in AnyHandle, op \in {"get_info", "get_cb_flag"} : ReadStart(t, op, h)
               \/ \E h \in AnyHandle, v \in VMAs, n \in Sizes \ {0} : MmapStart(t, h, v, n)
               \/ RelStart(t)
        PROVE  nv' = nv
    BY <2>1 DEF PinRefused, PinStart, UnpinStart, ReqStart, ReadStart, MmapStart, RelStart
  <2>2. ASSUME NEW v \in VMAs,
               \/ MunmapStart(t, v)
               \/ \E w \in VMAs, k \in 1 .. (vma[v].len - 1) : MunmapHead(t, v, w, k) \/ MunmapTail(t, v, w, k)
        PROVE  nv' = nv
    BY <2>2 DEF MunmapStart, MunmapHead, MunmapTail, MunmapPart
  <2> QED  BY <1>6, <2>1, <2>2 DEF CallStart
<1>7. ASSUME NEW t \in Threads, CallStep(t), ~PutPages(t), ~\E ram \in RamPages : PinGetPages(t, ram) PROVE nv' = nv
  <2>1. ASSUME NEW from, NEW to,
               LookupHit(t, from, to) \/ LookupMiss(t, from) \/ SemWrite(t, from, to)
        PROVE  nv' = nv
    BY <2>1 DEF LookupHit, LookupMiss, SemWrite
  <2>2. ASSUME \/ UnpinLookup(t) \/ ReadLookup(t) \/ ReqLookup(t) \/ MmapLookup(t) \/ CloseLookup(t)
               \/ UnpinMiss(t) \/ ReadMiss(t) \/ ReqMiss(t) \/ MmapMiss(t) \/ CloseMiss(t)
               \/ ReqSem(t) \/ MmapSem(t) \/ CloseSem(t)
        PROVE  nv' = nv
    BY <2>1, <2>2 DEF UnpinLookup, ReadLookup, ReqLookup, MmapLookup, CloseLookup,
       UnpinMiss, ReadMiss, ReqMiss, MmapMiss, CloseMiss, ReqSem, MmapSem, CloseSem
  <2>3. ASSUME \/ PinGetPagesFails(t) \/ PinBadPageTable(t) \/ PinLock(t) \/ PinPublish(t) \/ PinNoHandle(t)
               \/ PinCopyToUser(t) \/ PinCopyFails(t) \/ UnpinRemove(t) \/ FreeDropSem(t) \/ Kfree(t)
               \/ ReadSem(t) \/ ReadBody(t) \/ ReadCopyToUser(t)
        PROVE  nv' = nv
    BY <2>3 DEF PinGetPagesFails, PinBadPageTable, PinLock, PinPublish, PinNoHandle, PinCopyToUser,
       PinCopyFails, UnpinRemove, FreeDropSem, Kfree, ReadSem, ReadBody, ReadCopyToUser
  <2>4. ASSUME \/ (\E type \in MappingTypes : ReqBody(t, type)) \/ MmapRefused(t) \/ MmapMaps(t)
               \/ (\E k \in Sizes \cup {0} : MmapFails(t, k)) \/ MmapLink(t) \/ MmapUndo(t)
               \/ gdrdrv_vma_close(t) \/ MunmapEnd(t)
               \/ (\E m \in MRs : RelPick(t, m)) \/ RelRemove(t) \/ RelDone(t)
        PROVE  nv' = nv
    BY <2>4 DEF ReqBody, MmapRefused, MmapMaps, MmapFails, MmapClear, MmapLink, MmapUndo, gdrdrv_vma_close,
       MunmapEnd, RelPick, RelRemove, RelDone
  <2> QED  BY <1>7, <2>2, <2>3, <2>4 DEF CallStep
<1>8. ASSUME (\E m \in MRs : CbLock(m)) \/ Open \/ GdrClose \/ UNCHANGED vars PROVE nv' = nv
  BY <1>8 DEF CbLock, Open, GdrClose, vars
<1> QED  BY <1>1, <1>2, <1>3, <1>4, <1>5, <1>6, <1>7, <1>8 DEF Next, CallbackStep

-----------------------------------------------------------------------------
(* Steps that change what BufferLife does not see.                         *)

\* The creation of a region is not seen before the region is on the list.
LEMMA BirthRef ==
    ASSUME RefInv, NEW t \in Threads,
           (\E m \in MRs, n \in Sizes : PinStart(t, m, n)) \/ \E ram \in RamPages : PinGetPages(t, ram)
    PROVE  Still
<1> USE DEF Stage, Creating, PagesPCs
<1>0. TypeOK /\ SafeInv /\ BornInv /\ BackInv /\ ShutInv
  BY DEF RefInv, OrderlyInv
<1>1. ASSUME NEW m \in MRs, \A x \in MRs \ {m} : mr'[x] = mr[x], m \notin mr_list,
             UNCHANGED <<mr_list, next_handle, vma>>,
             th[t].pc \notin Stage, th'[t].pc \notin Stage, BornOf(t)',
             \A u \in Threads : u # t => /\ th'[u] = th[u]
                                         /\ th[u].pc \in Creating => th[u].mr \in MRs \ {m}
      PROVE  Still
  <2>1. \A x \in mr_list : SameRegion(x)
    BY <1>0, <1>1 DEF SameRegion, TypeOK
  <2>2. \A u \in Threads : SameStage(u)
    BY <1>1 DEF SameStage
  <2>3. \A u \in Threads : u # t => SameBirth(u)
    BY <1>1 DEF SameBirth, SameRegion
  <2> QED  BY <1>0, <1>1, <2>1, <2>2, <2>3, StillFrame, BornKept DEF Still, BornInv
<1>2. ASSUME NEW m \in MRs, NEW n \in Sizes, PinStart(t, m, n) PROVE Still
  <2>1. /\ th[t].pc = "idle" /\ th'[t].pc = "pin_get" /\ th'[t].mr = m /\ \A u \in Threads : u # t => th'[u] = th[u]
        /\ UNCHANGED <<mr_list, next_handle, vma>> /\ mr[m].state = "free"
        /\ \A x \in MRs \ {m} : mr'[x] = mr[x]
    BY <1>0, <1>2, BeginFields DEF PinStart, MayCall, At, info, mm, TypeOK
  <2>2. mr'[m].size = n /\ mr'[m].req_mapping_type = "NONE" /\ mr'[m].cpu_mapping_type = "NONE"
    BY <1>0, <1>2 DEF PinStart, NewMR, TypeOK
  <2>3. m \notin mr_list /\ \A u \in Threads : th[u].pc \in Creating => th[u].mr \in MRs \ {m}
    BY <1>0, <2>1 DEF SafeInv, ListedInv, OwnedInv
  <2>4. BornOf(t)'
    BY <2>1, <2>2 DEF BornOf, Unasked
  <2> QED  BY <1>1, <2>1, <2>3, <2>4
<1>3. ASSUME NEW ram \in RamPages, PinGetPages(t, ram) PROVE Still
  <2>1. PICK m \in MRs : m = th[t].mr /\ m \notin mr_list
    BY <1>0, <1>3 DEF PinGetPages, At, SafeInv, OwnedInv
  <2>2. /\ th[t].pc = "pin_get" /\ th'[t].pc = "pin_check" /\ th'[t].mr = m /\ \A u \in Threads : u # t => th'[u] = th[u]
        /\ UNCHANGED <<mr_list, next_handle, vma>>
        /\ \A x \in MRs \ {m} : mr'[x] = mr[x]
    BY <1>0, <1>3, <2>1, GotoFields DEF PinGetPages, At, info, mm, TypeOK
  <2>3. /\ mr'[m].page_table = 1 /\ mr'[m].ram = ram /\ mr'[m].size = mr[m].size
        /\ mr'[m].req_mapping_type = mr[m].req_mapping_type /\ mr'[m].cpu_mapping_type = mr[m].cpu_mapping_type
    BY <1>0, <1>3, <2>1 DEF PinGetPages, TypeOK, Region
  <2>4. Unasked(m) /\ mr[m].size \in Sizes
    BY <1>0, <2>1, <2>2 DEF BornInv, BornOf
  <2>5. BornOf(t)'
    BY <2>2, <2>3, <2>4 DEF BornOf, Unasked
  <2>6. \A u \in Threads : u # t /\ th[u].pc \in Creating => th[u].mr \in MRs \ {m}
    BY <1>0, <2>1, <2>2 DEF SafeInv, OwnedInv
  <2> QED  BY <1>1, <2>1, <2>2, <2>5, <2>6
<1> QED  BY <1>2, <1>3

\* Nor are the making and the end of a VMA, outside the time it maps something, and nor is
\* its being linked; and an mmap that fails leaves its region as unmapped as it was.
LEMMA HiddenRef ==
    ASSUME OrderlyCallers, RefInv, NEW t \in Threads,
           \/ \E h \in AnyHandle, v \in VMAs, n \in Sizes \ {0} : MmapStart(t, h, v, n)
           \/ MmapRefused(t) \/ (\E k \in Sizes \cup {0} : MmapFails(t, k))
           \/ MmapLink(t) \/ MmapUndo(t) \/ MunmapEnd(t)
    PROVE  Still
<1> USE DEF Stage, Creating
<1>0. TypeOK /\ SafeInv /\ CallersInv /\ MapsInv /\ BornInv /\ BackInv /\ ShutInv
  BY DEF RefInv, OrderlyInv
<1>1. ASSUME NEW v \in VMAs, \A w \in VMAs : w # v => vma'[w] = vma[w],
             UNCHANGED <<mr_list, next_handle>>, \A x \in MRs : x \in mr_list \/ mr'[x] = mr[x],
             \A x \in mr_list : SameRegion(x), th'[t].pc \notin Creating,
             \A u \in Threads : u # t => th'[u] = th[u] /\ th[u].pc \notin MmapPCs \cup MunmapPCs,
             th[t].pc \in Stage => th[t].vma = v, th'[t].pc \notin Stage, SameVma(v),
             vma'[v].state = "new" => 0 < vma'[v].len, vma'[v].state # "closing"
      PROVE  Still
  <2>1. ASSUME NEW w \in VMAs PROVE SameVma(w)
    <3>1. CASE w = v
      BY <1>1, <3>1
    <3>2. CASE w # v
      <4>1. Mapped(w)' <=> Mapped(w)
        BY <1>1, <3>2, LoneMapped DEF MmapPCs, MunmapPCs
      <4> QED  BY <1>1, <3>2, <4>1 DEF SameVma
    <3> QED  BY <3>1, <3>2
  <2>2. ShutInv'
    BY <1>0, <1>1 DEF ShutInv
  <2>3. \A u \in Threads : SameBirth(u)
    BY <1>0, <1>1 DEF SameBirth, SameRegion, SafeInv, OwnedInv
  <2> QED  BY <1>0, <1>1, <2>1, <2>2, <2>3, RefFrame, BornKept DEF Still, BornInv
<1>2. ASSUME NEW h \in AnyHandle, NEW v \in VMAs, NEW n \in Sizes \ {0}, MmapStart(t, h, v, n) PROVE Still
  <2>1. /\ UNCHANGED <<mr, mr_list, next_handle>> /\ th[t].pc = "idle" /\ mmap_lock = None /\ vma[v].state = "free"
        /\ \A w \in VMAs : w # v => vma'[w] = vma[w]
        /\ vma'[v].state = "new" /\ vma'[v].len = n
    BY <1>0, <1>2 DEF MmapStart, MayCall, At, info, FreeVMA, TypeOK
  <2>2. th'[t].pc = "mmap_lock" /\ \A u \in Threads : u # t => th'[u] = th[u]
    BY <1>0, <1>2, BeginFields DEF MmapStart
  <2>3. \A u \in Threads : th[u].pc \notin MmapPCs \cup MunmapPCs
    BY <1>0, <2>1, Exclusive
  <2>4. SameVma(v)
    <3>1. ~Mapped(v) /\ ~Mapped(v)'
      BY <2>1, <2>2, <2>3, LoneMapped DEF MmapPCs, MunmapPCs
    <3> QED  BY <3>1 DEF SameVma
  <2>5. n \in Nat /\ 0 < n
    BY SizeAssumption
  <2> QED  BY <1>1, <2>1, <2>2, <2>3, <2>4, <2>5 DEF SameRegion
<1>3. ASSUME MmapLink(t) \/ MmapUndo(t) \/ MunmapEnd(t) PROVE Still
  <2>1. /\ th[t].pc \in MmapPCs \cup MunmapPCs
        /\ th[t].pc = IF MmapLink(t) THEN "mmap_link" ELSE IF MmapUndo(t) THEN "mmap_undo" ELSE "munmap_end"
    BY <1>3 DEF MmapLink, MmapUndo, MunmapEnd, At, MmapPCs, MunmapPCs
  <2>2. PICK v \in VMAs : v = th[t].vma
    BY <1>0, <2>1 DEF CallersInv, OpInv
  <2>3. vma[v].state \in {"new", "closing"}
    BY <1>0, <2>1, <2>2 DEF CallersInv, VmaInv
  <2>4. /\ UNCHANGED <<mr, mr_list, next_handle>> /\ Return(t)
        /\ \A w \in VMAs : w # v => vma'[w] = vma[w]
    BY <1>0, <1>3, <2>2 DEF MmapLink, MmapUndo, MunmapEnd, info, TypeOK
  <2>5. th'[t].pc = "idle" /\ \A u \in Threads : u # t => th'[u] = th[u] /\ th[u].pc \notin MmapPCs \cup MunmapPCs
    BY <1>0, <2>1, <2>4, ReturnFrame, Exclusive
  <2>6. CASE MmapLink(t)
    <3>1. /\ vma'[v].state = "linked" /\ vma'[v].mr = vma[v].mr /\ vma'[v].pgoff = vma[v].pgoff
          /\ vma'[v].pte = vma[v].pte
      BY <1>0, <2>2, <2>6 DEF MmapLink, TypeOK, VMA
    <3>2. Mapped(v) /\ Mapped(v)'
      BY <2>1, <2>2, <2>6, <3>1 DEF Mapped
    <3>3. SameVma(v)
      BY <3>1, <3>2 DEF SameVma
    <3> QED  BY <1>1, <2>2, <2>4, <2>5, <3>1, <3>3 DEF SameRegion
  <2>7. CASE ~MmapLink(t)
    <3>1. vma'[v].state = "free"
      BY <1>0, <1>3, <2>2, <2>7 DEF MmapUndo, MunmapEnd, FreeVMA, TypeOK
    <3>2. th[t].pc \notin Stage
      BY <2>1, <2>7
    <3>3. ~Mapped(v) /\ ~Mapped(v)'
      BY <2>3, <2>5, <3>1, <3>2, LoneMapped DEF MmapPCs, MunmapPCs
    <3>4. SameVma(v)
      BY <3>3 DEF SameVma
    <3> QED  BY <1>1, <2>4, <2>5, <3>1, <3>2, <3>4 DEF SameRegion
  <2> QED  BY <2>6, <2>7
<1>4. ASSUME MmapRefused(t) \/ (\E k \in Sizes \cup {0} : MmapFails(t, k)) PROVE Still
  <2>1. th[t].pc = "mmap_body" /\ MmapClear(t)
    BY <1>4 DEF MmapRefused, MmapFails, At
  <2>2. PICK v \in VMAs : v = th[t].vma /\ vma[v].state = "new"
    BY <1>0, <2>1 DEF CallersInv, OpInv, VmaInv, MmapPCs
  <2>3. PICK m \in mr_list : m = th[t].mr /\ ~gdr_mr_is_mapped(m)
    BY <1>0, <2>1 DEF SafeInv, ListedInv, Writing, CallersInv, ExactInv, MapsInv, ClearInv
  <2>4. /\ th'[t].pc = "mmap_undo"
        /\ \A u \in Threads : u # t => th'[u] = th[u] /\ th[u].pc \notin MmapPCs \cup MunmapPCs
    BY <1>0, <2>1, GotoFields, Exclusive DEF MmapClear, MmapPCs
  <2>5. UNCHANGED <<mr_list, next_handle>> /\ \A x \in MRs : x # m => mr'[x] = mr[x]
    BY <1>0, <2>1, <2>3 DEF MmapClear, info, TypeOK
  <2>6. SameRegion(m)
    BY <1>0, <2>1, <2>3 DEF MmapClear, SameRegion, gdr_mr_is_mapped, TypeOK, Region
  <2>7. \A x \in mr_list : SameRegion(x)
    BY <1>0, <2>5, <2>6 DEF SameRegion, TypeOK
  <2>8. /\ \A w \in VMAs : w # v => vma'[w] = vma[w]
        /\ vma'[v].state = "new" /\ vma'[v].len = vma[v].len
    <3>1. CASE MmapRefused(t)
      BY <2>2, <3>1 DEF MmapRefused
    <3>2. CASE \E k \in Sizes \cup {0} : MmapFails(t, k)
      BY <1>0, <2>2, <3>2 DEF MmapFails, TypeOK, VMA
    <3> QED  BY <1>4, <3>1, <3>2
  <2>9. SameVma(v)
    <3>1. ~Mapped(v) /\ ~Mapped(v)'
      BY <2>1, <2>2, <2>4, <2>8, LoneMapped DEF MmapPCs, MunmapPCs
    <3> QED  BY <3>1 DEF SameVma
  <2>10. 0 < vma'[v].len
    BY <1>0, <2>2, <2>8 DEF ShutInv
  <2> QED  BY <1>1, <2>1, <2>4, <2>5, <2>7, <2>8, <2>9, <2>10
<1> QED  BY <1>2, <1>3, <1>4

-----------------------------------------------------------------------------
(* Steps that BufferLife sees: each is one of its actions.                 *)

\* What such a step has to keep of RefInv.
Kept == BornInv' /\ BackInv' /\ ShutInv'

\* The buffer that a region on the list is, and the mapping that a VMA is.
Buf(m) == [pinned |-> TRUE, handle |-> mr[m].handle, size |-> mr[m].size,
           revoked |-> mr[m].page_table = 0, ram |-> mr[m].ram,
           type |-> mr[m].cpu_mapping_type, req |-> mr[m].req_mapping_type]
Map(v) == [used |-> TRUE, of |-> Owner(v), live |-> vma[v].pte # {}]

\* The abstract state, one buffer and one mapping at a time.
AbsView ==
    /\ \A m \in MRs : AbsBuf[m] = IF m \in mr_list THEN Buf(m) ELSE Abs!Gone
    /\ \A v \in VMAs : AbsMap[v] = IF Mapped(v) THEN Map(v) ELSE Abs!Unused

\* This is what AbsBuf and AbsMap hold, ...
LEMMA AbsAt == TypeOK => AbsView
<1> SUFFICES ASSUME TypeOK PROVE AbsView
  OBVIOUS
<1>1. \A m \in MRs : mr[m].ram \in BOOLEAN
  BY DEF TypeOK, Region
<1>2. ASSUME NEW m \in MRs, m \in mr_list PROVE AbsBuf[m] = Buf(m)
  <2>1. (m \in mr_list /\ mr[m].ram) = mr[m].ram
    BY <1>1, <1>2
  <2>2. (m \in mr_list /\ mr[m].page_table = 0) = (mr[m].page_table = 0)
    BY <1>2
  <2>3. (m \in mr_list) = TRUE
    BY <1>2
  <2> QED  BY <1>2, <2>1, <2>2, <2>3 DEF AbsBuf, Buf
<1>3. ASSUME NEW m \in MRs, m \notin mr_list PROVE AbsBuf[m] = Abs!Gone
  <2>1. (m \in mr_list /\ mr[m].ram) = FALSE /\ (m \in mr_list /\ mr[m].page_table = 0) = FALSE /\ (m \in mr_list) = FALSE
    BY <1>3
  <2> QED  BY <1>3, <2>1 DEF AbsBuf, Abs!Gone
<1>4. \A v \in VMAs : AbsMap[v] = IF Mapped(v) THEN Map(v) ELSE Abs!Unused
  BY DEF AbsMap, Map, Abs!Unused
<1> QED  BY <1>2, <1>3, <1>4 DEF AbsView

\* ... also after a step.
LEMMA AbsNext == TypeOK' => AbsView'
BY AbsAt, PTL

\* Buffers with the same fields are the same, ...
LEMMA SameBuffer ==
    ASSUME NEW x \in Abs!Buffer, NEW y \in Abs!Buffer,
           x.pinned = y.pinned, x.handle = y.handle, x.size = y.size, x.revoked = y.revoked,
           x.ram = y.ram, x.type = y.type, x.req = y.req
    PROVE  x = y
BY DEF Abs!Buffer

\* ... and so are mappings.
LEMMA SameMapping ==
    ASSUME NEW x \in Abs!Mapping, NEW y \in Abs!Mapping, x.used = y.used, x.of = y.of, x.live = y.live
    PROVE  x = y
BY DEF Abs!Mapping

\* The buffer that BufferLife makes of one that is pinned, its updates of a buffer and of a mapping.
Pinned(h, n, r) == [Abs!Gone EXCEPT !.pinned = TRUE, !.handle = h, !.size = n, !.ram = r]
Typed(x, type)  == [x EXCEPT !.type = type]
Asked(x, type)  == [x EXCEPT !.req = type]
Revoked(x)      == [x EXCEPT !.revoked = TRUE, !.type = "NONE"]
Cut(x)          == [x EXCEPT !.live = FALSE]

\* They give the fields one expects.
LEMMA NewBuffer ==
    ASSUME NEW h \in Nat, NEW n \in Sizes \cup {0}, NEW r \in BOOLEAN, NEW y \in Abs!Buffer,
           y.pinned = TRUE, y.handle = h, y.size = n, y.revoked = FALSE, y.ram = r,
           y.type = "NONE", y.req = "NONE"
    PROVE  y = Pinned(h, n, r)
<1>1. Pinned(h, n, r) \in Abs!Buffer
  BY DEF Pinned, Abs!Buffer, Abs!Gone, Abs!Types
<1>2. /\ Pinned(h, n, r).pinned = TRUE /\ Pinned(h, n, r).handle = h /\ Pinned(h, n, r).size = n
      /\ Pinned(h, n, r).revoked = FALSE /\ Pinned(h, n, r).ram = r
      /\ Pinned(h, n, r).type = "NONE" /\ Pinned(h, n, r).req = "NONE"
  BY DEF Pinned, Abs!Gone
<1>3. y.pinned = Pinned(h, n, r).pinned /\ y.revoked = Pinned(h, n, r).revoked
  BY <1>2
<1>4. y.ram = Pinned(h, n, r).ram
  BY <1>2, Zenon
<1> QED  BY <1>1, <1>2, <1>3, <1>4, SameBuffer

\* A buffer of another type, ...
LEMMA TypedBuffer ==
    ASSUME NEW x \in Abs!Buffer, NEW type \in MappingTypes, NEW y \in Abs!Buffer,
           y.pinned = x.pinned, y.handle = x.handle, y.size = x.size, y.revoked = x.revoked, y.ram = x.ram,
           y.type = type, y.req = x.req
    PROVE  y = Typed(x, type)
<1>1. Typed(x, type) \in Abs!Buffer
  BY DEF Typed, Abs!Buffer, Abs!Types, MappingTypes
<1>2. /\ Typed(x, type).pinned = x.pinned /\ Typed(x, type).handle = x.handle /\ Typed(x, type).size = x.size
      /\ Typed(x, type).revoked = x.revoked /\ Typed(x, type).ram = x.ram
      /\ Typed(x, type).type = type /\ Typed(x, type).req = x.req
  BY DEF Typed, Abs!Buffer
<1> QED  BY <1>1, <1>2, SameBuffer

\* ... one of which another type was asked, ...
LEMMA AskedBuffer ==
    ASSUME NEW x \in Abs!Buffer, NEW type \in MappingTypes, NEW y \in Abs!Buffer,
           y.pinned = x.pinned, y.handle = x.handle, y.size = x.size, y.revoked = x.revoked, y.ram = x.ram,
           y.type = x.type, y.req = type
    PROVE  y = Asked(x, type)
<1>1. Asked(x, type) \in Abs!Buffer
  BY DEF Asked, Abs!Buffer, Abs!Types, MappingTypes
<1>2. /\ Asked(x, type).pinned = x.pinned /\ Asked(x, type).handle = x.handle /\ Asked(x, type).size = x.size
      /\ Asked(x, type).revoked = x.revoked /\ Asked(x, type).ram = x.ram
      /\ Asked(x, type).type = x.type /\ Asked(x, type).req = type
  BY DEF Asked, Abs!Buffer
<1> QED  BY <1>1, <1>2, SameBuffer

\* ... one that was revoked, ...
LEMMA RevokedBuffer ==
    ASSUME NEW x \in Abs!Buffer, NEW y \in Abs!Buffer,
           y.pinned = x.pinned, y.handle = x.handle, y.size = x.size, y.revoked = TRUE, y.ram = x.ram,
           y.type = "NONE", y.req = x.req
    PROVE  y = Revoked(x)
<1>1. Revoked(x) \in Abs!Buffer
  BY DEF Revoked, Abs!Buffer, Abs!Types
<1>2. /\ Revoked(x).pinned = x.pinned /\ Revoked(x).handle = x.handle /\ Revoked(x).size = x.size
      /\ Revoked(x).revoked = TRUE /\ Revoked(x).ram = x.ram
      /\ Revoked(x).type = "NONE" /\ Revoked(x).req = x.req
  BY DEF Revoked, Abs!Buffer
<1> QED  BY <1>1, <1>2, SameBuffer

\* ... and a mapping whose pages are out of reach.
LEMMA CutMapping ==
    ASSUME NEW x \in Abs!Mapping, NEW y \in Abs!Mapping, y.used = x.used, y.of = x.of, y.live = FALSE
    PROVE  y = Cut(x)
<1>1. Cut(x) \in Abs!Mapping
  BY DEF Cut, Abs!Mapping
<1>2. Cut(x).used = x.used /\ Cut(x).of = x.of /\ Cut(x).live = FALSE
  BY DEF Cut, Abs!Mapping
<1> QED  BY <1>1, <1>2, SameMapping

\* What a region on the list and a VMA stand for has the type of a buffer and of a mapping.
AbsTyped == (\A m \in MRs : Buf(m) \in Abs!Buffer) /\ \A v \in VMAs : Map(v) \in Abs!Mapping

\* It does in every state, ...
LEMMA AbsTypes == TypeOK => AbsTyped
<1> SUFFICES ASSUME TypeOK PROVE AbsTyped
  OBVIOUS
<1>1. ASSUME NEW m \in MRs PROVE Buf(m) \in Abs!Buffer
  BY DEF Buf, TypeOK, Region, MappingTypes, Abs!Buffer, Abs!Types
<1>2. ASSUME NEW v \in VMAs PROVE Map(v) \in Abs!Mapping
  <2>1. Owner(v) \in MRs \cup {None}
    BY DEF Owner, TypeOK
  <2> QED  BY <2>1 DEF Map, Abs!Mapping
<1> QED  BY <1>1, <1>2 DEF AbsTyped

\* ... also after a step.
LEMMA AbsTypesNext == TypeOK' => AbsTyped'
BY AbsTypes, PTL

\* Both are functions.
LEMMA AbsFuns ==
    /\ AbsBuf = [m \in MRs |-> AbsBuf[m]] /\ AbsBuf' = [m \in MRs |-> AbsBuf'[m]]
    /\ AbsMap = [v \in VMAs |-> AbsMap[v]] /\ AbsMap' = [v \in VMAs |-> AbsMap'[v]]
BY DEF AbsBuf, AbsMap

\* gdrdrv_open gives a fresh file, with no region, and no VMA is left of an earlier one.
LEMMA OpenRef ==
    ASSUME RefInv, TypeOK', Open
    PROVE  Abs!Fresh /\ Kept
<1>0. TypeOK /\ SafeInv /\ CallersInv /\ BornInv /\ BackInv /\ ShutInv
  BY DEF RefInv, OrderlyInv
<1>1. file = "closed" /\ mr_list = {} /\ mr_list' = {} /\ next_handle' = 0 /\ UNCHANGED <<mr, vma, th>>
  BY <1>0 DEF Open, mm, SafeInv, FileInv
<1>2. (\A u \in Threads : th[u].pc = "idle") /\ \A v \in VMAs : vma[v].state = "free"
  BY <1>0, <1>1 DEF SafeInv, FileInv, CallersInv, VmaInv
<1>3. \A v \in VMAs : ~Mapped(v) /\ ~Mapped(v)'
  BY <1>1, <1>2 DEF Mapped
<1>4. \A m \in MRs : AbsBuf[m] = Abs!Gone
  BY <1>0, <1>1, AbsAt DEF AbsView
<1>5. \A v \in VMAs : AbsMap[v] = Abs!Unused
  BY <1>0, <1>3, AbsAt DEF AbsView
<1>6. AbsBuf' = AbsBuf
  BY <1>1, BufFrame
<1>7. AbsMap' = AbsMap
  BY <1>1, <1>3, MapFrame DEF SameVma
<1>8. Abs!Fresh
  BY <1>1, <1>4, <1>5, <1>6, <1>7 DEF Abs!Fresh, Abs!Gone
<1>9. Kept
  BY <1>0, <1>1, <1>2 DEF Kept, BornInv, BornOf, BackInv, ShutInv, Creating, PagesPCs
<1> QED  BY <1>8, <1>9

\* Joining the list is the instant at which a buffer is pinned: under info->lock it gets
\* the next handle, which is the offset of no VMA.
LEMMA PinRef ==
    ASSUME RefInv, TypeOK', NEW t \in Threads, PinPublish(t)
    PROVE  (\E b \in MRs, n \in Sizes, ram \in RamPages : Abs!Pin(b, n, ram)) /\ Kept
<1> USE DEF Creating, PagesPCs
<1>0. TypeOK /\ SafeInv /\ OffsetsInv /\ CallersInv /\ BornInv /\ BackInv /\ ShutInv
  BY DEF RefInv, OrderlyInv
<1>1. th[t].pc = "pin_publish"
  BY DEF PinPublish, At
<1>2. PICK m \in MRs : m = th[t].mr /\ m \notin mr_list
  BY <1>0, <1>1 DEF SafeInv, OwnedInv
<1>3. Unasked(m) /\ mr[m].size \in Sizes /\ mr[m].page_table = 1 /\ mr[m].ram \in RamPages
  BY <1>0, <1>1, <1>2 DEF BornInv, BornOf
<1>4. /\ mr_list' = mr_list \cup {m} /\ vma' = vma
      /\ next_handle' = next_handle + (IF mr[m].size = 0 THEN 1 ELSE mr[m].size)
      /\ next_handle < HandleSpace
  BY <1>0, <1>2 DEF PinPublish, gdr_generate_mr_handle, mm, OffsetsInv
<1>5. /\ \A x \in MRs \ {m} : mr'[x] = mr[x]
      /\ mr'[m].handle = next_handle /\ SameTypes(m) /\ mr'[m].size = mr[m].size
  BY <1>0, <1>2 DEF PinPublish, gdr_generate_mr_handle, SameTypes, TypeOK, Region
<1>6. th'[t].pc = "pin_copy" /\ \A u \in Threads : u # t => th'[u] = th[u]
  BY <1>0 DEF PinPublish, TypeOK, Thread
<1>7. \A v \in VMAs : Mapped(v)' <=> Mapped(v)
  BY <1>1, <1>4, <1>6 DEF Mapped
<1>8. ASSUME NEW v \in VMAs, Mapped(v) PROVE vma[v].pgoff # next_handle
  <2>1. closing = 0
    BY <1>0, <1>1 DEF CallersInv, OpInv, UserInv, TypeOK
  <2>2. vma[v].pgoff \in handles
    BY <1>0, <1>8, <2>1, MappedUsed DEF CallersInv, VmaInv
  <2> QED  BY <1>0, <2>2, FreshHandle
<1>9. ASSUME NEW v \in VMAs PROVE AbsMap'[v] = AbsMap[v]
  <2>1. CASE Mapped(v)
    <3>1. Owner(v)' = Owner(v)
      BY <1>0, <1>2, <1>4, <1>5, <1>8, <2>1 DEF Owner, TypeOK
    <3> QED  BY <1>0, <1>4, <1>7, <2>1, <3>1, AbsAt, AbsNext DEF AbsView, Map
  <2>2. CASE ~Mapped(v)
    BY <1>0, <1>7, <2>2, AbsAt, AbsNext DEF AbsView, Abs!Unused
  <2> QED  BY <2>1, <2>2
<1>10. AbsMap' = AbsMap
  BY <1>9, AbsFuns
<1>11. ~AbsBuf[m].pinned
  BY <1>0, <1>2, AbsAt DEF AbsView, Abs!Gone
<1>12. ASSUME NEW x \in MRs, x # m PROVE AbsBuf'[x] = AbsBuf[x]
  <2>1. Buf(x)' = Buf(x) /\ (x \in mr_list' <=> x \in mr_list)
    BY <1>4, <1>5, <1>12 DEF Buf
  <2> QED  BY <1>0, <2>1, AbsAt, AbsNext DEF AbsView, Abs!Gone
<1>13. AbsBuf'[m] = Pinned(next_handle, mr[m].size, mr[m].ram)
  <2>1. PICK y \in Abs!Buffer : y = AbsBuf'[m] /\ y = Buf(m)'
    BY <1>4, AbsNext, AbsTypesNext DEF AbsView, AbsTyped
  <2>2. /\ y.pinned = TRUE /\ y.handle = next_handle /\ y.size = mr[m].size /\ y.revoked = FALSE
        /\ y.ram = mr[m].ram /\ y.type = "NONE" /\ y.req = "NONE"
    <3>1. y.pinned = TRUE /\ y.handle = next_handle /\ y.size = mr[m].size /\ y.type = "NONE" /\ y.req = "NONE"
      BY <1>3, <1>5, <2>1 DEF Buf, Unasked, SameTypes
    <3>2. y.ram = mr[m].ram
      BY <1>5, <2>1 DEF Buf, SameTypes
    <3>3. y.revoked = FALSE
      <4>1. mr'[m].page_table # 0
        BY <1>3, <1>5 DEF SameTypes
      <4>2. y.revoked = (mr'[m].page_table = 0)
        BY <2>1 DEF Buf
      <4> QED  BY <4>1, <4>2
    <3> QED  BY <3>1, <3>2, <3>3
  <2>3. next_handle \in Nat /\ mr[m].size \in Sizes \cup {0} /\ mr[m].ram \in BOOLEAN
    BY <1>0 DEF TypeOK, Region
  <2> QED  BY <2>1, <2>2, <2>3, NewBuffer
<1>14. AbsBuf' = [AbsBuf EXCEPT ![m] = Pinned(next_handle, mr[m].size, mr[m].ram)]
  BY <1>12, <1>13, AbsFuns
<1>15. Abs!Pin(m, mr[m].size, mr[m].ram)
  BY <1>4, <1>10, <1>11, <1>14 DEF Abs!Pin, Pinned
<1>16. BornInv'
  <2>1. ASSUME NEW u \in Threads PROVE BornOf(u)'
    <3>1. CASE u = t
      BY <1>6, <3>1 DEF BornOf
    <3>2. CASE u # t
      <4>1. th[u].pc \in Creating => th[u].mr \in MRs \ {m}
        BY <1>0, <1>1, <1>2, <3>2 DEF SafeInv, OwnedInv
      <4>2. SameBirth(u)
        BY <1>5, <1>6, <3>2, <4>1 DEF SameBirth, SameRegion
      <4> QED  BY <1>0, <4>2, BornKept
    <3> QED  BY <3>1, <3>2
  <2> QED  BY <2>1 DEF BornInv
<1>17. BackInv'
  <2> SUFFICES ASSUME NEW v \in VMAs, NEW x \in mr_list', Mapped(v)', mr'[x].handle = vma'[v].pgoff
               PROVE  vma'[v].mr = x
    BY DEF BackInv
  <2>1. x # m
    BY <1>4, <1>5, <1>7, <1>8
  <2>2. x \in mr_list /\ mr'[x] = mr[x]
    BY <1>0, <1>4, <1>5, <2>1 DEF TypeOK
  <2> QED  BY <1>0, <1>4, <1>7, <2>2 DEF BackInv
<1>18. ShutInv'
  BY <1>0, <1>4 DEF ShutInv
<1> QED  BY <1>3, <1>15, <1>16, <1>17, <1>18 DEF Kept

\* A step that changes one region, and brings no thread to create one, leaves the creation
\* of the others alone.
LEMMA BornApart ==
    ASSUME SafeInv, BornInv, NEW m, \A x \in MRs \ {m} : mr'[x] = mr[x],
           \A u \in Threads : th'[u] = th[u] \/ th'[u].pc \notin Creating,
           \A u \in Threads : th[u].pc \in Creating => th[u].mr # m
    PROVE  BornInv'
<1>1. ASSUME NEW u \in Threads PROVE SameBirth(u)
  <2>1. th[u].pc \in Creating => th[u].mr \in MRs \ {m}
    BY DEF SafeInv, OwnedInv
  <2> QED  BY <2>1 DEF SameBirth, SameRegion
<1> QED  BY <1>1, BornKept DEF BornInv

\* Regions that stay on the list as they are stay the buffers they are.
LEMMA OtherBuffers ==
    ASSUME TypeOK, TypeOK', NEW x \in MRs, mr'[x] = mr[x], x \in mr_list' <=> x \in mr_list
    PROVE  AbsBuf'[x] = AbsBuf[x]
<1>1. Buf(x)' = Buf(x)
  BY DEF Buf
<1> QED  BY <1>1, AbsAt, AbsNext DEF AbsView, Abs!Gone

\* Destroying the mappings of a region on the list takes all entries from the VMA it owns
\* and none from another that exists, if no mmap of it is in progress.
LEMMA DestroyExact ==
    ASSUME RefInv, NEW m \in mr_list, \A u \in Threads : th[u].pc = "mmap_link" => th[u].h # mr[m].handle,
           NEW v \in VMAs, Mapped(v)
    PROVE  /\ Owner(v) = m => DestroyMappings(m)[v].pte = {}
           /\ Owner(v) # m => DestroyMappings(m)[v].pte = vma[v].pte
<1>0. TypeOK /\ CallersInv /\ MapsInv /\ ShutInv /\ OrderlyInv /\ m \in MRs
  BY DEF RefInv, OrderlyInv, TypeOK
<1>1. ASSUME Owner(v) = m PROVE DestroyMappings(m)[v].pte = {}
  <2>1. vma[v].mr = m /\ mr[m].handle = vma[v].pgoff
    BY <1>0, <1>1, NullAssumption DEF Owner
  <2>2. vma[v].state \in {"linked", "closing"}
    <3>1. ASSUME NEW u \in Threads, th[u].pc = "mmap_link", th[u].vma = v PROVE FALSE
      BY <1>0, <2>1, <3>1 DEF CallersInv, VmaInv, MmapPCs
    <3> QED  BY <1>0, <3>1, MappedUsed
  <2>3. CASE vma[v].pte = {}
    BY <1>0, <2>3, DestroyFields
  <2>4. CASE vma[v].pte # {}
    <3>1. vma[v].state = "linked" /\ Reaches(v)
      BY <1>0, <2>2, <2>4 DEF ShutInv, MapsInv, ReachInv
    <3> QED  BY <1>0, <2>1, <3>1, DestroyClears
  <2> QED  BY <2>3, <2>4
<1>2. ASSUME Owner(v) # m, DestroyMappings(m)[v].pte # vma[v].pte PROVE FALSE
  <2>1. vma[v].state = "linked"
    BY <1>0, <1>2 DEF DestroyMappings, gdrdrv_zap_vma
  <2>2. vma[v].mr = m
    BY <1>0, <1>2, <2>1, DestroyApart
  <2>3. vma[v].pte # {}
    BY <1>0, <1>2, DestroyFields
  <2>4. gdr_mr_is_mapped(m) /\ mr[m].vma = v
    BY <1>0, <2>1, <2>2, <2>3 DEF MapsInv, ReachInv, Reaches
  <2>5. vma[v].pgoff = mr[m].handle
    BY <1>0, <2>4 DEF MapsInv, LinkInv
  <2> QED  BY <1>2, <2>2, <2>5 DEF Owner
<1> QED  BY <1>1, <1>2

\* Leaving the list is the instant at which a buffer is unpinned, by unpin or by release:
\* its VMA loses all entries in the same step.
LEMMA UnpinRef ==
    ASSUME RefInv, TypeOK', NEW t \in Threads, UnpinRemove(t) \/ RelRemove(t)
    PROVE  (\E b \in MRs : Abs!Unpin(b)) /\ Kept
<1>0. TypeOK /\ SafeInv /\ CallersInv /\ MapsInv /\ BornInv /\ BackInv /\ ShutInv /\ OrderlyInv
  BY DEF RefInv, OrderlyInv
<1>1. th[t].pc = IF UnpinRemove(t) THEN "unpin_sem" ELSE "rel_sem"
  BY DEF UnpinRemove, RelRemove, At
<1>2. PICK m \in MRs : m = th[t].mr /\ m \in mr_list
  BY <1>0, <1>1 DEF SafeInv, ListedInv, Waiting, TypeOK
<1>3. /\ mr_list' = mr_list \ {m} /\ next_handle' = next_handle /\ vma' = DestroyMappings(m)
      /\ \A x \in MRs \ {m} : mr'[x] = mr[x]
      /\ mr'[m].handle = mr[m].handle
  <2>1. CASE UnpinRemove(t)
    BY <1>0, <1>2, <2>1 DEF UnpinRemove, TypeOK, Region
  <2>2. CASE RelRemove(t)
    BY <1>0, <1>2, <2>2 DEF RelRemove, TypeOK, Region
  <2> QED  BY <2>1, <2>2
<1>4. th'[t].pc = "free" /\ \A u \in Threads : u # t => th'[u] = th[u]
  BY <1>0, GotoFields DEF UnpinRemove, RelRemove
<1>5. \A v \in VMAs : /\ vma'[v].state = vma[v].state /\ vma'[v].pgoff = vma[v].pgoff /\ vma'[v].len = vma[v].len
                      /\ vma'[v].mr = vma[v].mr /\ vma'[v].pte \subseteq vma[v].pte
  BY <1>0, <1>3, DestroyFields
<1>6. \A v \in VMAs : Mapped(v)' <=> Mapped(v)
  BY <1>1, <1>4, <1>5 DEF Mapped
<1>7. ASSUME NEW u \in Threads, th[u].pc = "mmap_link" PROVE th[u].h # mr[m].handle
  <2>1. UnpinRemove(t)
    <3> SUFFICES ASSUME RelRemove(t) PROVE FALSE
      OBVIOUS
    <3>1. th[t].pc = "rel_sem" /\ file = "release"
      BY <1>0 DEF RelRemove, At, SafeInv, InfoInv, FileInv
    <3> QED  BY <1>0, <1>7, <3>1, NoCallOnRelease
  <2>2. th[t].h \notin handles /\ mr[m].handle = th[t].h
    BY <1>0, <1>1, <1>2, <2>1 DEF CallersInv, HandlesInv, ExactInv, UnpinPCs
  <2> QED  BY <1>0, <1>7, <2>2 DEF CallersInv, UserInv, MmapPCs
<1>8. ASSUME NEW v \in VMAs
      PROVE  AbsMap'[v] = IF AbsMap[v].of = m THEN Abs!Orphan ELSE AbsMap[v]
  <2>1. CASE ~Mapped(v)
    <3>1. AbsMap[v] = Abs!Unused /\ AbsMap'[v] = Abs!Unused
      BY <1>0, <1>6, <2>1, AbsAt, AbsNext DEF AbsView
    <3>2. AbsMap[v].of # m
      BY <3>1, NullAssumption DEF Abs!Unused
    <3> QED  BY <3>1, <3>2
  <2>2. CASE Mapped(v)
    <3>1. AbsMap[v] = Map(v) /\ AbsMap'[v] = Map(v)' /\ AbsMap[v].of = Owner(v)
      BY <1>0, <1>6, <2>2, AbsAt, AbsNext DEF AbsView, Map
    <3>2. CASE Owner(v) = m
      <4>1. Owner(v)' = None
        BY <1>0, <1>3, <1>5, <3>2, NullAssumption DEF Owner
      <4>2. vma'[v].pte = {}
        BY <1>2, <1>3, <1>7, <2>2, <3>2, DestroyExact
      <4>3. Map(v)' = Abs!Orphan
        BY <4>1, <4>2 DEF Map, Abs!Orphan
      <4> QED  BY <3>1, <3>2, <4>3
    <3>3. CASE Owner(v) # m
      <4>1. Owner(v)' = Owner(v)
        BY <1>0, <1>3, <1>5, <3>3 DEF Owner, TypeOK
      <4>2. vma'[v].pte = vma[v].pte
        BY <1>2, <1>3, <1>7, <2>2, <3>3, DestroyExact
      <4>3. Map(v)' = Map(v)
        BY <4>1, <4>2 DEF Map
      <4> QED  BY <3>1, <3>3, <4>3
    <3> QED  BY <3>2, <3>3
  <2> QED  BY <2>1, <2>2
<1>9. \A x \in MRs : x # m => AbsBuf'[x] = AbsBuf[x]
  BY <1>0, <1>3, OtherBuffers
<1>10. AbsBuf'[m] = Abs!Gone /\ AbsBuf[m] = Buf(m)
  BY <1>0, <1>2, <1>3, AbsAt, AbsNext DEF AbsView
<1>11. AbsBuf' = [AbsBuf EXCEPT ![m] = Abs!Gone]
  BY <1>9, <1>10, AbsFuns
<1>12. AbsMap' = [v \in VMAs |-> IF AbsMap[v].of = m THEN Abs!Orphan ELSE AbsMap[v]]
  BY <1>8, AbsFuns
<1>13. AbsBuf[m].pinned
  BY <1>10 DEF Buf
<1>14. Abs!Unpin(m)
  BY <1>3, <1>11, <1>12, <1>13 DEF Abs!Unpin
<1>15. BornInv'
  <2>1. \A u \in Threads : th[u].pc \in Creating => th[u].mr # m
    BY <1>0, <1>2 DEF SafeInv, OwnedInv
  <2> QED  BY <1>0, <1>3, <1>4, <2>1, BornApart DEF Creating
<1>16. BackInv'
  <2> SUFFICES ASSUME NEW v \in VMAs, NEW x \in mr_list', Mapped(v)', mr'[x].handle = vma'[v].pgoff
               PROVE  vma'[v].mr = x
    BY DEF BackInv
  <2>1. x \in mr_list /\ mr'[x] = mr[x]
    BY <1>0, <1>3 DEF TypeOK
  <2> QED  BY <1>0, <1>5, <1>6, <2>1 DEF BackInv
<1>17. ShutInv'
  BY <1>0, <1>5 DEF ShutInv
<1> QED  BY <1>14, <1>15, <1>16, <1>17 DEF Kept

\* The callback revokes a buffer in one step, if the region is on the list; otherwise it
\* does nothing that is seen.
LEMMA RevokeRef ==
    ASSUME RefInv, TypeOK', NEW m \in MRs, CbBody(m)
    PROVE  (AbsSame \/ Abs!Revoke(m)) /\ Kept
<1>0. TypeOK /\ SafeInv /\ CallersInv /\ MapsInv /\ FlagInv /\ BornInv /\ BackInv /\ ShutInv /\ CallbackInv /\ OrderlyInv
  BY DEF RefInv, OrderlyInv
<1>1. nv[m] = "revoking" /\ writer[m] = Callback /\ mr[m].page_table = 1 /\ ~Persistent
  BY <1>0 DEF CbBody, SafeInv, PagesInv, CallbackInv
<1>2. /\ UNCHANGED <<mr_list, next_handle, th>> /\ vma' = DestroyMappings(m)
      /\ \A x \in MRs \ {m} : mr'[x] = mr[x]
  BY <1>0, <1>1 DEF CbBody, info, TypeOK
<1>3. /\ mr'[m].handle = mr[m].handle /\ mr'[m].size = mr[m].size /\ mr'[m].ram = mr[m].ram
      /\ mr'[m].page_table = 0 /\ mr'[m].cpu_mapping_type = "NONE"
      /\ mr'[m].req_mapping_type = mr[m].req_mapping_type
  BY <1>0, <1>1 DEF CbBody, TypeOK, Region
<1>4. \A v \in VMAs : /\ vma'[v].state = vma[v].state /\ vma'[v].pgoff = vma[v].pgoff /\ vma'[v].len = vma[v].len
                      /\ vma'[v].mr = vma[v].mr /\ vma'[v].pte \subseteq vma[v].pte
  BY <1>0, <1>2, DestroyFields
<1>5. \A v \in VMAs : Mapped(v)' <=> Mapped(v)
  BY <1>2, <1>4 DEF Mapped
<1>6. BornInv'
  <2>1. \A u \in Threads : th[u].pc \in Creating => th[u].mr # m
    BY <1>0, <1>1, NullAssumption DEF FlagInv, OwnerOf
  <2> QED  BY <1>0, <1>2, <2>1, BornApart
<1>7. \A x \in MRs : mr'[x].handle = mr[x].handle
  BY <1>2, <1>3
<1>8. BackInv'
  BY <1>0, <1>2, <1>4, <1>5, <1>7 DEF BackInv, TypeOK
<1>9. ShutInv'
  BY <1>0, <1>4 DEF ShutInv
<1>10. CASE m \notin mr_list
  <2>1. vma' = vma
    BY <1>0, <1>2, <1>10 DEF MapsInv, LinkInv, DestroyMappings
  <2>2. \A x \in mr_list : SameRegion(x)
    BY <1>0, <1>2, <1>10 DEF SameRegion, TypeOK
  <2>3. AbsSame
    BY <1>0, <1>2, <1>5, <2>1, <2>2, RefFrame DEF SameVma
  <2> QED  BY <1>6, <1>8, <1>9, <2>3 DEF Kept
<1>11. CASE m \in mr_list
  <2>1. \A u \in Threads : th[u].pc = "mmap_link" => th[u].h # mr[m].handle
    BY <1>0, <1>1, <1>11 DEF MapsInv, RegisteredInv, MmapPCs
  <2>2. ASSUME NEW v \in VMAs PROVE AbsMap'[v] = IF AbsMap[v].of = m THEN Cut(AbsMap[v]) ELSE AbsMap[v]
    <3>1. CASE ~Mapped(v)
      <4>1. AbsMap[v] = Abs!Unused /\ AbsMap'[v] = Abs!Unused
        BY <1>0, <1>5, <3>1, AbsAt, AbsNext DEF AbsView
      <4>2. AbsMap[v].of # m
        BY <4>1, NullAssumption DEF Abs!Unused
      <4> QED  BY <4>1, <4>2
    <3>2. CASE Mapped(v)
      <4>1. AbsMap[v] = Map(v) /\ AbsMap'[v] = Map(v)' /\ AbsMap[v].of = Owner(v)
        BY <1>0, <1>5, <3>2, AbsAt, AbsNext DEF AbsView, Map
      <4>2. Owner(v)' = Owner(v)
        BY <1>0, <1>2, <1>4, <1>7 DEF Owner, TypeOK
      <4>3. CASE Owner(v) = m
        <5>1. vma'[v].pte = {}
          BY <1>2, <1>11, <2>1, <3>2, <4>3, DestroyExact
        <5>2. PICK x \in Abs!Mapping, y \in Abs!Mapping : x = Map(v) /\ y = Map(v)'
          BY <1>0, AbsTypes, AbsTypesNext DEF AbsTyped
        <5>3. y.used = x.used /\ y.of = x.of
          BY <4>2, <5>2 DEF Map
        <5>4. y.live = FALSE
          BY <5>1, <5>2 DEF Map
        <5>5. y = Cut(x)
          BY <5>3, <5>4, CutMapping
        <5> QED  BY <4>1, <4>3, <5>2, <5>5
      <4>4. CASE Owner(v) # m
        <5>1. vma'[v].pte = vma[v].pte
          BY <1>2, <1>11, <2>1, <3>2, <4>4, DestroyExact
        <5>2. Map(v)' = Map(v)
          BY <4>2, <5>1 DEF Map
        <5> QED  BY <4>1, <4>4, <5>2
      <4> QED  BY <4>3, <4>4
    <3> QED  BY <3>1, <3>2
  <2>3. \A x \in MRs : x # m => AbsBuf'[x] = AbsBuf[x]
    BY <1>0, <1>2, OtherBuffers
  <2>4. AbsBuf[m] = Buf(m) /\ AbsBuf'[m] = Buf(m)'
    BY <1>0, <1>2, <1>11, AbsAt, AbsNext DEF AbsView
  <2>5. AbsBuf'[m] = Revoked(AbsBuf[m])
    <3>1. PICK x \in Abs!Buffer, y \in Abs!Buffer : x = Buf(m) /\ y = Buf(m)'
      BY <1>0, AbsTypes, AbsTypesNext DEF AbsTyped
    <3>2. /\ y.pinned = x.pinned /\ y.handle = x.handle /\ y.size = x.size /\ y.type = "NONE" /\ y.req = x.req
      BY <1>3, <3>1 DEF Buf
    <3>3. y.ram = x.ram
      BY <1>3, <3>1 DEF Buf
    <3>4. y.revoked = TRUE
      BY <1>3, <3>1 DEF Buf
    <3>5. y = Revoked(x)
      BY <3>2, <3>3, <3>4, RevokedBuffer
    <3> QED  BY <2>4, <3>1, <3>5
  <2>6. AbsBuf' = [AbsBuf EXCEPT ![m] = Revoked(AbsBuf[m])]
    BY <2>3, <2>5, AbsFuns
  <2>7. AbsMap' = [v \in VMAs |-> IF AbsMap[v].of = m THEN Cut(AbsMap[v]) ELSE AbsMap[v]]
    BY <2>2, AbsFuns
  <2>8. AbsBuf[m].pinned /\ ~AbsBuf[m].revoked
    <3>1. AbsBuf[m].pinned = TRUE /\ AbsBuf[m].revoked = (mr[m].page_table = 0)
      BY <2>4 DEF Buf
    <3>2. mr[m].page_table # 0
      BY <1>1
    <3> QED  BY <3>1, <3>2
  <2>9. Abs!Revoke(m)
    BY <1>1, <1>2, <2>6, <2>7, <2>8 DEF Abs!Revoke, Revoked, Cut
  <2> QED  BY <1>6, <1>8, <1>9, <2>9 DEF Kept
<1> QED  BY <1>10, <1>11

\* The driver supports the types that BufferLife allows, and the type that mmap settles on
\* is the one that BufferLife gives.
LEMMA SupportedAllowed ==
    ASSUME TypeOK, NEW m \in mr_list, NEW type \in MappingTypes
    PROVE  /\ Supported(m, type) => Abs!Allowed(m, type)
           /\ ChosenType(m) = Abs!NewType(m)
<1>0. m \in MRs /\ mr[m].page_table \in {0, 1} /\ mr[m].ram \in BOOLEAN
  BY DEF TypeOK, Region
<1>1. AbsBuf[m] = Buf(m)
  BY <1>0, AbsAt DEF AbsView
<1>2. AbsBuf[m].req = mr[m].req_mapping_type /\ AbsBuf[m].ram = mr[m].ram
  BY <1>1 DEF Buf
<1>3. AbsBuf[m].revoked = (mr[m].page_table = 0)
  BY <1>1 DEF Buf
<1>4. Abs!CanCache(m) <=> gdr_mr_supports_cache_mapping(m)
  <2>1. mr[m].page_table = 1 <=> ~(mr[m].page_table = 0)
    BY <1>0
  <2>2. ~AbsBuf[m].revoked <=> mr[m].page_table = 1
    BY <1>3, <2>1, Zenon
  <2>3. AbsBuf[m].ram <=> mr[m].ram
    BY <1>2, Zenon
  <2> QED  BY <2>2, <2>3, Zenon DEF Abs!CanCache, gdr_mr_supports_cache_mapping
<1>5. Supported(m, type) => Abs!Allowed(m, type)
  BY <1>4 DEF Supported, Abs!Allowed, MappingTypes
<1>6. ChosenType(m) = Abs!NewType(m)
  BY <1>2, <1>4 DEF ChosenType, Abs!NewType, Abs!DefaultType
<1> QED  BY <1>5, <1>6

\* A request takes effect at once if the type is supported and the buffer is not mapped, and
\* not at all otherwise.
LEMMA ReqRef ==
    ASSUME RefInv, TypeOK', NEW t \in Threads, NEW type \in MappingTypes, ReqBody(t, type)
    PROVE  (AbsSame \/ \E b \in MRs : Abs!Request(b, type)) /\ Kept
<1>0. TypeOK /\ SafeInv /\ BornInv /\ BackInv /\ ShutInv
  BY DEF RefInv, OrderlyInv
<1>1. th[t].pc = "req_body" /\ th'[t].pc = "idle" /\ \A u \in Threads : u # t => th'[u] = th[u]
  BY <1>0, ReturnFrame DEF ReqBody, At
<1>2. PICK m \in MRs : m = th[t].mr /\ m \in mr_list
  BY <1>0, <1>1 DEF SafeInv, ListedInv, Writing, TypeOK
<1>3. UNCHANGED <<mr_list, next_handle, vma>>
  BY DEF ReqBody, info, mm
<1>4. /\ \A x \in MRs \ {m} : mr'[x] = mr[x]
      /\ mr'[m].handle = mr[m].handle /\ mr'[m].size = mr[m].size /\ mr'[m].ram = mr[m].ram
      /\ mr'[m].page_table = mr[m].page_table /\ mr'[m].cpu_mapping_type = mr[m].cpu_mapping_type
  <2>1. CASE ~gdr_mr_is_mapped(m) /\ Supported(m, type)
    BY <1>0, <1>2, <2>1 DEF ReqBody, TypeOK, Region
  <2>2. CASE ~(~gdr_mr_is_mapped(m) /\ Supported(m, type))
    BY <1>2, <2>2 DEF ReqBody
  <2> QED  BY <2>1, <2>2
<1>5. BornInv'
  <2>1. \A u \in Threads : th[u].pc \in Creating => th[u].mr # m
    BY <1>0, <1>2 DEF SafeInv, OwnedInv
  <2> QED  BY <1>0, <1>1, <1>4, <2>1, BornApart DEF Creating
<1>6. \A v \in VMAs : Mapped(v)' <=> Mapped(v)
  BY <1>1, <1>3 DEF Mapped
<1>7. \A x \in mr_list : mr'[x].handle = mr[x].handle
  BY <1>0, <1>4 DEF TypeOK
<1>8. BackInv' /\ ShutInv'
  <2>1. BackInv'
    BY <1>0, <1>3, <1>6, <1>7 DEF BackInv
  <2> QED  BY <1>0, <1>3, <2>1 DEF ShutInv
<1>9. AbsMap' = AbsMap
  BY <1>3, <1>6, <1>7, MapFrame DEF SameVma
<1>10. CASE gdr_mr_is_mapped(m) \/ ~Supported(m, type)
  <2>1. mr' = mr
    BY <1>2, <1>10 DEF ReqBody
  <2>2. AbsSame
    BY <1>3, <1>9, <2>1, BufFrame DEF AbsSame, SameRegion
  <2> QED  BY <1>5, <1>8, <2>2 DEF Kept
<1>11. CASE ~gdr_mr_is_mapped(m) /\ Supported(m, type)
  <2>1. mr'[m].req_mapping_type = type
    BY <1>0, <1>2, <1>11 DEF ReqBody, TypeOK, Region
  <2>2. \A x \in MRs : x # m => AbsBuf'[x] = AbsBuf[x]
    BY <1>0, <1>3, <1>4, OtherBuffers
  <2>3. AbsBuf[m] = Buf(m) /\ AbsBuf'[m] = Buf(m)'
    BY <1>0, <1>2, <1>3, AbsAt, AbsNext DEF AbsView
  <2>4. AbsBuf'[m] = Asked(AbsBuf[m], type)
    <3>1. PICK x \in Abs!Buffer, y \in Abs!Buffer : x = Buf(m) /\ y = Buf(m)'
      BY <1>0, AbsTypes, AbsTypesNext DEF AbsTyped
    <3>2. /\ y.pinned = x.pinned /\ y.handle = x.handle /\ y.size = x.size /\ y.type = x.type /\ y.req = type
      BY <1>4, <2>1, <3>1 DEF Buf
    <3>3. y.ram = x.ram
      BY <1>4, <3>1 DEF Buf
    <3>4. y.revoked = x.revoked
      BY <1>4, <3>1 DEF Buf
    <3>5. y = Asked(x, type)
      BY <3>2, <3>3, <3>4, AskedBuffer
    <3> QED  BY <2>3, <3>1, <3>5
  <2>5. AbsBuf' = [AbsBuf EXCEPT ![m] = Asked(AbsBuf[m], type)]
    BY <2>2, <2>4, AbsFuns
  <2>6. AbsBuf[m].pinned /\ AbsBuf[m].type = "NONE"
    BY <1>11, <2>3 DEF Buf, gdr_mr_is_mapped
  <2>7. Abs!Allowed(m, type)
    BY <1>0, <1>2, <1>11, SupportedAllowed
  <2>8. Abs!Request(m, type)
    BY <1>3, <1>9, <2>5, <2>6, <2>7 DEF Abs!Request, Asked
  <2> QED  BY <1>5, <1>8, <2>8 DEF Kept
<1> QED  BY <1>10, <1>11

\* munmap takes the pages of the VMA out of reach before the region hears of it.
LEMMA UnmapRef ==
    ASSUME RefInv, TypeOK', NEW t \in Threads, NEW v \in VMAs, MunmapStart(t, v)
    PROVE  Abs!Unmap(v) /\ Kept
<1> USE DEF Stage, Creating
<1>0. TypeOK /\ SafeInv /\ CallersInv /\ BornInv /\ BackInv /\ ShutInv
  BY DEF RefInv, OrderlyInv
<1>1. /\ UNCHANGED <<mr, mr_list, next_handle>> /\ th[t].pc = "idle" /\ mmap_lock = None /\ vma[v].state = "linked"
      /\ \A w \in VMAs : w # v => vma'[w] = vma[w]
      /\ vma'[v].state = "closing" /\ vma'[v].pte = {} /\ vma'[v].pgoff = vma[v].pgoff /\ vma'[v].mr = vma[v].mr
  BY <1>0 DEF MunmapStart, MayUnmap, MayCall, At, info, TypeOK, VMA
<1>2. th'[t].pc = "close_lock" /\ th'[t].vma = v /\ \A u \in Threads : u # t => th'[u] = th[u]
  BY <1>0, BeginFields DEF MunmapStart
<1>3. \A u \in Threads : th[u].pc \notin MmapPCs \cup MunmapPCs
  BY <1>0, <1>1, Exclusive
<1>4. Mapped(v) /\ Mapped(v)'
  BY <1>1, <1>2 DEF Mapped
<1>5. \A w \in VMAs : w # v => (Mapped(w)' <=> Mapped(w))
  BY <1>1, <1>2, <1>3, LoneMapped DEF MmapPCs, MunmapPCs
<1>6. \A w \in VMAs : Owner(w)' = Owner(w)
  BY <1>1 DEF Owner
<1>7. ASSUME NEW w \in VMAs, w # v PROVE AbsMap'[w] = AbsMap[w]
  <2>1. Map(w)' = Map(w)
    BY <1>1, <1>6, <1>7 DEF Map
  <2> QED  BY <1>0, <1>5, <1>7, <2>1, AbsAt, AbsNext DEF AbsView, Abs!Unused
<1>8. AbsMap[v] = Map(v) /\ AbsMap'[v] = Map(v)'
  BY <1>0, <1>4, AbsAt, AbsNext DEF AbsView
<1>9. AbsMap'[v] = Cut(AbsMap[v])
  <2>1. PICK x \in Abs!Mapping, y \in Abs!Mapping : x = Map(v) /\ y = Map(v)'
    BY <1>0, AbsTypes, AbsTypesNext DEF AbsTyped
  <2>2. y.used = x.used /\ y.of = x.of
    BY <1>6, <2>1 DEF Map
  <2>3. y.live = FALSE
    BY <1>1, <2>1 DEF Map
  <2> QED  BY <1>8, <2>1, <2>2, <2>3, CutMapping
<1>10. AbsMap' = [AbsMap EXCEPT ![v] = Cut(AbsMap[v])]
  BY <1>7, <1>9, AbsFuns
<1>11. AbsBuf' = AbsBuf
  BY <1>1, BufFrame DEF SameRegion
<1>12. AbsMap[v].used
  BY <1>8 DEF Map
<1>13. Abs!Unmap(v)
  BY <1>1, <1>10, <1>11, <1>12 DEF Abs!Unmap, Cut
<1>14. BornInv'
  <2>1. \A u \in Threads : SameBirth(u)
    BY <1>1, <1>2 DEF SameBirth, SameRegion
  <2> QED  BY <1>0, <2>1, BornKept DEF BornInv
<1>15. BackInv'
  BY <1>0, <1>1, <1>4, <1>5 DEF BackInv
<1>16. ShutInv'
  BY <1>0, <1>1 DEF ShutInv
<1> QED  BY <1>13, <1>14, <1>15, <1>16 DEF Kept

\* gdrdrv_mmap maps a buffer at the instant it releases mr->sem, although the kernel has
\* not linked the VMA yet.
LEMMA MapRef ==
    ASSUME RefInv, TypeOK', NEW t \in Threads, MmapMaps(t)
    PROVE  (\E b \in MRs, v \in VMAs : Abs!Map(b, v)) /\ Kept
<1> USE DEF Stage, Creating
<1>0. TypeOK /\ SafeInv /\ OffsetsInv /\ CallersInv /\ BornInv /\ BackInv /\ ShutInv
  BY DEF RefInv, OrderlyInv
<1>1. th[t].pc = "mmap_body"
  BY DEF MmapMaps, At
<1>2. PICK v \in VMAs : v = th[t].vma /\ vma[v].state = "new" /\ vma[v].pgoff = th[t].h
  BY <1>0, <1>1 DEF CallersInv, OpInv, VmaInv, MmapPCs
<1>3. PICK m \in MRs : m = th[t].mr /\ m \in mr_list /\ mr[m].handle = th[t].h
  BY <1>0, <1>1 DEF SafeInv, ListedInv, Writing, CallersInv, ExactInv, TypeOK
<1>4. mr[m].cpu_mapping_type = "NONE" /\ mr[m].page_table # 0
  BY <1>2, <1>3 DEF MmapMaps, Refusal, gdr_mr_is_mapped
<1>5. /\ UNCHANGED <<mr_list, next_handle>>
      /\ \A x \in MRs \ {m} : mr'[x] = mr[x]
      /\ \A w \in VMAs : w # v => vma'[w] = vma[w]
  BY <1>0, <1>2, <1>3 DEF MmapMaps, info, TypeOK
<1>6. /\ mr'[m].handle = mr[m].handle /\ mr'[m].size = mr[m].size /\ mr'[m].ram = mr[m].ram
      /\ mr'[m].page_table = mr[m].page_table /\ mr'[m].req_mapping_type = mr[m].req_mapping_type
      /\ mr'[m].cpu_mapping_type = ChosenType(m)
  BY <1>0, <1>2, <1>3 DEF MmapMaps, TypeOK, Region
<1>7. /\ vma'[v].state = "new" /\ vma'[v].pgoff = th[t].h /\ vma'[v].len = vma[v].len /\ vma'[v].mr = m
      /\ vma'[v].pte = Offsets(vma[v].pgoff, vma[v].len)
  BY <1>0, <1>2, <1>3 DEF MmapMaps, TypeOK, VMA
<1>8. vma'[v].pte # {}
  <2>1. vma[v].len \in Nat /\ 0 < vma[v].len /\ vma[v].pgoff \in Nat
    BY <1>0, <1>2 DEF ShutInv, TypeOK, VMA
  <2>2. vma[v].pgoff \in Offsets(vma[v].pgoff, vma[v].len)
    BY <2>1 DEF Offsets
  <2> QED  BY <1>7, <2>2
<1>9. /\ th'[t].pc = "mmap_link" /\ th'[t].vma = v
      /\ \A u \in Threads : u # t => th'[u] = th[u] /\ th[u].pc \notin MmapPCs \cup MunmapPCs
  BY <1>0, <1>1, <1>2, GotoFields, Exclusive DEF MmapMaps, MmapPCs
<1>10. ~Mapped(v) /\ Mapped(v)' /\ \A w \in VMAs : w # v => (Mapped(w)' <=> Mapped(w))
  <2>1. ~Mapped(v)
    BY <1>1, <1>2, <1>9, LoneMapped DEF MmapPCs, MunmapPCs
  <2>2. Mapped(v)'
    BY <1>9 DEF Mapped
  <2>3. ASSUME NEW w \in VMAs, w # v PROVE Mapped(w)' <=> Mapped(w)
    BY <1>1, <1>5, <1>9, <2>3, LoneMapped DEF MmapPCs, MunmapPCs
  <2> QED  BY <2>1, <2>2, <2>3
<1>11. \A x \in MRs : mr'[x].handle = mr[x].handle
  BY <1>5, <1>6
<1>12. ASSUME NEW w \in VMAs, w # v PROVE AbsMap'[w] = AbsMap[w]
  <2>1. Owner(w)' = Owner(w)
    BY <1>0, <1>5, <1>11, <1>12 DEF Owner, TypeOK
  <2>2. Map(w)' = Map(w)
    BY <1>5, <1>12, <2>1 DEF Map
  <2> QED  BY <1>0, <1>10, <1>12, <2>2, AbsAt, AbsNext DEF AbsView, Abs!Unused
<1>13. AbsMap[v] = Abs!Unused /\ AbsMap'[v] = Map(v)'
  BY <1>0, <1>10, AbsAt, AbsNext DEF AbsView
<1>14. AbsMap'[v] = [used |-> TRUE, of |-> m, live |-> TRUE]
  <2>1. Owner(v)' = m
    BY <1>3, <1>5, <1>6, <1>7 DEF Owner
  <2>2. (vma'[v].pte # {}) = TRUE
    BY <1>8
  <2> QED  BY <1>13, <2>1, <2>2 DEF Map
<1>15. AbsMap' = [AbsMap EXCEPT ![v] = [used |-> TRUE, of |-> m, live |-> TRUE]]
  BY <1>12, <1>14, AbsFuns
<1>16. \A x \in MRs : x # m => AbsBuf'[x] = AbsBuf[x]
  BY <1>0, <1>5, OtherBuffers
<1>17. AbsBuf[m] = Buf(m) /\ AbsBuf'[m] = Buf(m)'
  BY <1>0, <1>3, <1>5, AbsAt, AbsNext DEF AbsView
<1>18. ChosenType(m) \in MappingTypes /\ ChosenType(m) = Abs!NewType(m)
  BY <1>0, <1>3, ChosenIsType, SupportedAllowed DEF MappingTypes
<1>19. AbsBuf'[m] = Typed(AbsBuf[m], ChosenType(m))
  <2>1. PICK x \in Abs!Buffer, y \in Abs!Buffer : x = Buf(m) /\ y = Buf(m)'
    BY <1>0, AbsTypes, AbsTypesNext DEF AbsTyped
  <2>2. y.pinned = x.pinned /\ y.handle = x.handle /\ y.size = x.size /\ y.type = ChosenType(m) /\ y.req = x.req
    BY <1>6, <2>1 DEF Buf
  <2>3. y.ram = x.ram
    BY <1>6, <2>1 DEF Buf
  <2>4. y.revoked = x.revoked
    BY <1>6, <2>1 DEF Buf
  <2>5. y = Typed(x, ChosenType(m))
    BY <1>18, <2>2, <2>3, <2>4, TypedBuffer
  <2> QED  BY <1>17, <2>1, <2>5
<1>20. AbsBuf' = [AbsBuf EXCEPT ![m] = Typed(AbsBuf[m], Abs!NewType(m))]
  BY <1>16, <1>18, <1>19, AbsFuns
<1>21. AbsBuf[m].pinned /\ ~AbsBuf[m].revoked /\ AbsBuf[m].type = "NONE"
  <2>1. AbsBuf[m].pinned = TRUE /\ AbsBuf[m].revoked = (mr[m].page_table = 0) /\ AbsBuf[m].type = mr[m].cpu_mapping_type
    BY <1>17 DEF Buf
  <2> QED  BY <1>4, <2>1
<1>22. ~AbsMap[v].used
  BY <1>13 DEF Abs!Unused
<1>23. Abs!Map(m, v)
  BY <1>5, <1>15, <1>20, <1>21, <1>22 DEF Abs!Map, Typed
<1>24. BornInv'
  <2>1. \A u \in Threads : th[u].pc \in Creating => th[u].mr # m
    BY <1>0, <1>3 DEF SafeInv, OwnedInv
  <2> QED  BY <1>0, <1>5, <1>9, <2>1, BornApart
<1>25. BackInv'
  <2> SUFFICES ASSUME NEW w \in VMAs, NEW x \in mr_list, Mapped(w)', mr'[x].handle = vma'[w].pgoff
               PROVE  vma'[w].mr = x
    BY <1>5 DEF BackInv
  <2>1. mr'[x].handle = mr[x].handle
    BY <1>0, <1>11 DEF TypeOK
  <2>2. CASE w = v
    <3>1. x = m
      BY <1>0, <1>3, <1>7, <2>1, <2>2, HandlesDiffer
    <3> QED  BY <1>7, <2>2, <3>1
  <2>3. CASE w # v
    BY <1>0, <1>5, <1>10, <2>1, <2>3 DEF BackInv
  <2> QED  BY <2>2, <2>3
<1>26. ShutInv'
  BY <1>0, <1>2, <1>5, <1>7 DEF ShutInv
<1> QED  BY <1>23, <1>24, <1>25, <1>26 DEF Kept

\* gdrdrv_vma_close ends the mapping, and with it the buffer may be mapped again; if
\* gdr_close has unpinned the buffer before there is no region to tell.
LEMMA CloseRef ==
    ASSUME RefInv, TypeOK', NEW t \in Threads, CloseMiss(t) \/ gdrdrv_vma_close(t)
    PROVE  (\E v \in VMAs : Abs!Close(v)) /\ Kept
<1> USE DEF Stage, Creating
<1>0. TypeOK /\ SafeInv /\ OffsetsInv /\ CallersInv /\ BornInv /\ BackInv /\ ShutInv
  BY DEF RefInv, OrderlyInv
<1>1. th[t].pc = IF CloseMiss(t) THEN "close_lock" ELSE "close_body"
  BY DEF CloseMiss, LookupMiss, gdrdrv_vma_close, At
<1>2. PICK v \in VMAs : v = th[t].vma /\ vma[v].state = "closing" /\ vma[v].pgoff = th[t].h /\ vma[v].pte = {}
  BY <1>0, <1>1 DEF CallersInv, OpInv, VmaInv, MunmapPCs, ShutInv
<1>3. UNCHANGED <<mr_list, next_handle, vma>> /\ Goto(t, "munmap_end")
  BY DEF CloseMiss, LookupMiss, gdrdrv_vma_close, info, mm
<1>4. /\ th'[t].pc = "munmap_end"
      /\ \A u \in Threads : u # t => th'[u] = th[u] /\ th[u].pc \notin MmapPCs \cup MunmapPCs
  BY <1>0, <1>1, <1>3, GotoFields, Exclusive DEF MunmapPCs
<1>5. Mapped(v) /\ ~Mapped(v)' /\ \A w \in VMAs : w # v => (Mapped(w)' <=> Mapped(w))
  <2>1. Mapped(v)
    BY <1>1, <1>2 DEF Mapped
  <2>2. ~Mapped(v)'
    BY <1>2, <1>3, <1>4, LoneMapped DEF MmapPCs, MunmapPCs
  <2>3. ASSUME NEW w \in VMAs, w # v PROVE Mapped(w)' <=> Mapped(w)
    BY <1>1, <1>2, <1>3, <1>4, <2>3, LoneMapped DEF MmapPCs, MunmapPCs
  <2> QED  BY <2>1, <2>2, <2>3
<1>6. AbsMap[v] = Map(v) /\ AbsMap'[v] = Abs!Unused
  BY <1>0, <1>5, AbsAt, AbsNext DEF AbsView
<1>7. AbsMap[v].used /\ ~AbsMap[v].live /\ AbsMap[v].of = Owner(v)
  <2>1. AbsMap[v].used = TRUE /\ AbsMap[v].live = (vma[v].pte # {}) /\ AbsMap[v].of = Owner(v)
    BY <1>6 DEF Map
  <2> QED  BY <1>2, <2>1
<1>8. ASSUME \A x \in mr_list : mr'[x].handle = mr[x].handle
      PROVE  AbsMap' = [AbsMap EXCEPT ![v] = Abs!Unused] /\ BackInv' /\ ShutInv'
  <2>1. ASSUME NEW w \in VMAs, w # v PROVE AbsMap'[w] = AbsMap[w]
    <3>1. Owner(w)' = Owner(w)
      BY <1>3, <1>8, OwnerFrame
    <3>2. Map(w)' = Map(w)
      BY <1>3, <3>1 DEF Map
    <3> QED  BY <1>0, <1>5, <2>1, <3>2, AbsAt, AbsNext DEF AbsView, Abs!Unused
  <2>2. AbsMap' = [AbsMap EXCEPT ![v] = Abs!Unused]
    BY <1>6, <2>1, AbsFuns
  <2>3. BackInv'
    BY <1>0, <1>3, <1>5, <1>8 DEF BackInv
  <2>4. ShutInv'
    BY <1>0, <1>3 DEF ShutInv
  <2> QED  BY <2>2, <2>3, <2>4
<1>9. CASE CloseMiss(t)
  <2>1. mr_list = {} /\ mr' = mr
    BY <1>0, <1>9, LookupNone DEF CloseMiss, LookupMiss
  <2>2. Owner(v) = None
    BY <2>1 DEF Owner
  <2>3. AbsBuf' = AbsBuf
    BY <1>3, <2>1, BufFrame
  <2>4. \A b \in MRs : b # AbsMap[v].of
    BY <1>7, <2>2, NullAssumption
  <2>5. AbsBuf' = [b \in MRs |-> IF b = AbsMap[v].of THEN Typed(AbsBuf[b], "NONE") ELSE AbsBuf[b]]
    BY <2>3, <2>4, AbsFuns
  <2>6. Abs!Close(v)
    BY <1>3, <1>7, <1>8, <2>1, <2>5 DEF Abs!Close, Typed
  <2>7. BornInv'
    BY <1>0, <1>4, <2>1, BornApart, NullAssumption DEF SafeInv, OwnedInv
  <2> QED  BY <1>8, <2>1, <2>6, <2>7 DEF Kept
<1>10. CASE ~CloseMiss(t)
  <2>1. gdrdrv_vma_close(t) /\ th[t].pc = "close_body"
    BY <1>1, <1>10
  <2>2. PICK m \in MRs : m = th[t].mr /\ m \in mr_list /\ mr[m].handle = th[t].h
    BY <1>0, <2>1 DEF SafeInv, ListedInv, Writing, CallersInv, ExactInv, TypeOK
  <2>3. /\ \A x \in MRs \ {m} : mr'[x] = mr[x]
        /\ mr'[m].handle = mr[m].handle /\ mr'[m].size = mr[m].size /\ mr'[m].ram = mr[m].ram
        /\ mr'[m].page_table = mr[m].page_table /\ mr'[m].req_mapping_type = mr[m].req_mapping_type
        /\ mr'[m].cpu_mapping_type = "NONE"
    BY <1>0, <2>1, <2>2 DEF gdrdrv_vma_close, TypeOK, Region
  <2>4. \A x \in mr_list : mr'[x].handle = mr[x].handle
    BY <1>0, <2>3 DEF TypeOK
  <2>5. Owner(v) = m
    BY <1>0, <1>2, <1>5, <2>2 DEF BackInv, Owner
  <2>6. \A x \in MRs : x # m => AbsBuf'[x] = AbsBuf[x]
    BY <1>0, <1>3, <2>3, OtherBuffers
  <2>7. AbsBuf[m] = Buf(m) /\ AbsBuf'[m] = Buf(m)'
    BY <1>0, <1>3, <2>2, AbsAt, AbsNext DEF AbsView
  <2>8. AbsBuf'[m] = Typed(AbsBuf[m], "NONE")
    <3>1. PICK x \in Abs!Buffer, y \in Abs!Buffer : x = Buf(m) /\ y = Buf(m)'
      BY <1>0, AbsTypes, AbsTypesNext DEF AbsTyped
    <3>2. y.pinned = x.pinned /\ y.handle = x.handle /\ y.size = x.size /\ y.type = "NONE" /\ y.req = x.req
      BY <2>3, <3>1 DEF Buf
    <3>3. y.ram = x.ram
      BY <2>3, <3>1 DEF Buf
    <3>4. y.revoked = x.revoked
      BY <2>3, <3>1 DEF Buf
    <3>5. y = Typed(x, "NONE")
      BY <3>2, <3>3, <3>4, TypedBuffer DEF MappingTypes
    <3> QED  BY <2>7, <3>1, <3>5
  <2>9. AbsBuf' = [b \in MRs |-> IF b = AbsMap[v].of THEN Typed(AbsBuf[b], "NONE") ELSE AbsBuf[b]]
    BY <1>7, <2>5, <2>6, <2>8, AbsFuns
  <2>10. Abs!Close(v)
    BY <1>3, <1>7, <1>8, <2>4, <2>9 DEF Abs!Close, Typed
  <2>11. BornInv'
    <3>1. \A u \in Threads : th[u].pc \in Creating => th[u].mr # m
      BY <1>0, <2>2 DEF SafeInv, OwnedInv
    <3> QED  BY <1>0, <1>4, <2>3, <3>1, BornApart
  <2> QED  BY <1>8, <2>4, <2>10, <2>11 DEF Kept
<1> QED  BY <1>9, <1>10

-----------------------------------------------------------------------------
(* The refinement.                                                         *)

\* Every step is a step of BufferLife or leaves its variables alone, ...
LEMMA LifeStep ==
    ASSUME OrderlyCallers, RefInv, TypeOK', [Next]_vars
    PROVE  (Abs!LifeNext \/ AbsSame) /\ Kept
<1>1. ASSUME Still PROVE (Abs!LifeNext \/ AbsSame) /\ Kept
  BY <1>1 DEF Still, Kept
<1>2. ASSUME Open PROVE (Abs!LifeNext \/ AbsSame) /\ Kept
  BY <1>2, OpenRef DEF Abs!LifeNext
<1>3. ASSUME NEW m \in MRs, CbBody(m) PROVE (Abs!LifeNext \/ AbsSame) /\ Kept
  BY <1>3, RevokeRef DEF Abs!LifeNext
<1>4. ASSUME NEW t \in Threads, PinPublish(t) PROVE (Abs!LifeNext \/ AbsSame) /\ Kept
  BY <1>4, PinRef DEF Abs!LifeNext
<1>5. ASSUME NEW t \in Threads, UnpinRemove(t) \/ RelRemove(t) PROVE (Abs!LifeNext \/ AbsSame) /\ Kept
  BY <1>5, UnpinRef DEF Abs!LifeNext
<1>6. ASSUME NEW t \in Threads, NEW type \in MappingTypes, ReqBody(t, type) PROVE (Abs!LifeNext \/ AbsSame) /\ Kept
  <2>1. type \in Abs!Types
    BY DEF MappingTypes, Abs!Types
  <2> QED  BY <1>6, <2>1, ReqRef DEF Abs!LifeNext
<1>7. ASSUME NEW t \in Threads, MmapMaps(t) PROVE (Abs!LifeNext \/ AbsSame) /\ Kept
  BY <1>7, MapRef DEF Abs!LifeNext
<1>8. ASSUME NEW t \in Threads, NEW v \in VMAs, MunmapStart(t, v) PROVE (Abs!LifeNext \/ AbsSame) /\ Kept
  BY <1>8, UnmapRef DEF Abs!LifeNext
<1>9. ASSUME NEW t \in Threads, CloseMiss(t) \/ gdrdrv_vma_close(t) PROVE (Abs!LifeNext \/ AbsSame) /\ Kept
  BY <1>9, CloseRef DEF Abs!LifeNext
<1>10. ASSUME NEW t \in Threads, Telling(t) PROVE (Abs!LifeNext \/ AbsSame) /\ Kept
  BY <1>1, <1>4, <1>5, <1>6, <1>7, <1>8, <1>9, <1>10, BirthRef, HiddenRef DEF Telling
<1> QED  BY <1>1, <1>2, <1>3, <1>10, QuietRef

\* ... and keeps what that takes.
LEMMA RefStep ==
    ASSUME OrderlyCallers, LocksInv, RefInv, [Next]_vars
    PROVE  [Abs!LifeNext]_(Abs!life) /\ RefInv'
<1>0. TypeOK /\ SafeInv /\ OrderlyInv /\ FlagInv /\ CallbackInv
  BY DEF RefInv, OrderlyInv
<1>1. OrderlyInv'
  BY <1>0, TypeStep, SafeStep, SafeHasRegion, OffsetsStep, TypesStep, CallersStep, MapsStep DEF OrderlyInv
<1>2. TypeOK'
  BY <1>1 DEF OrderlyInv
<1>3. (Abs!LifeNext \/ AbsSame) /\ Kept
  BY <1>2, LifeStep
<1>4. [Abs!LifeNext]_(Abs!life)
  BY <1>3 DEF AbsSame, Abs!life
<1>5. FlagInv' /\ CallbackInv'
  BY <1>0, FlagStep, CallbackKept
<1> QED  BY <1>1, <1>3, <1>4, <1>5 DEF RefInv, Kept

\* No buffer and no mapping is there before the file is opened.
LEMMA RefInit ==
    ASSUME Init
    PROVE  Abs!LifeInit /\ FlagInv /\ BornInv /\ BackInv /\ ShutInv /\ CallbackInv
<1>1. /\ mr_list = {} /\ next_handle = 0
      /\ \A m \in MRs : mr[m].cb_flag = 0 /\ readers[m] = {} /\ nv[m] = "none"
      /\ \A t \in Threads : th[t].pc = "idle"
      /\ \A v \in VMAs : vma[v].state = "free"
  BY DEF Init, NewMR, IdleThread, FreeVMA
<1>2. FlagInv
  BY <1>1 DEF FlagInv, FlagOf, OwnerOf, Creating
<1>3. BornInv
  BY <1>1 DEF BornInv, BornOf, Creating, PagesPCs
<1>4. BackInv /\ ShutInv /\ CallbackInv
  BY <1>1 DEF BackInv, ShutInv, CallbackInv
<1>5. \A v \in VMAs : ~Mapped(v)
  BY <1>1 DEF Mapped
<1>6. AbsView
  BY InitInv, AbsAt
<1>7. AbsBuf = [m \in MRs |-> Abs!Gone] /\ AbsMap = [v \in VMAs |-> Abs!Unused]
  BY <1>1, <1>5, <1>6, AbsFuns DEF AbsView
<1>8. Abs!LifeInit
  BY <1>1, <1>7 DEF Abs!LifeInit
<1> QED  BY <1>2, <1>3, <1>4, <1>8

\* gdrdrv implements BufferLife, for any number of threads, regions and VMAs: every call takes
\* effect at one instant, on the buffer that has its handle and on no other, however the
\* handlers and the callback interleave, as long as the callers keep to libgdrapi's rules.
THEOREM DriverImplementsLife ==
    ASSUME OrderlyCallers
    PROVE  Spec => ImplementsBufferLife
<1>1. Init => Abs!LifeInit /\ FlagInv /\ BornInv /\ BackInv /\ ShutInv /\ CallbackInv
  BY RefInit
<1>2. OrderlyInv /\ (TypeOK /\ SafeInv /\ LocksInv /\ CountInv)
        /\ (FlagInv /\ BornInv /\ BackInv /\ ShutInv /\ CallbackInv) /\ [Next]_vars
      => [Abs!LifeNext]_(Abs!life) /\ (FlagInv /\ BornInv /\ BackInv /\ ShutInv /\ CallbackInv)'
  BY RefStep DEF RefInv
<1> QED  BY <1>1, <1>2, OrderlyInvariant, LocksInvariant, PTL DEF Spec, ImplementsBufferLife, Abs!LifeSpec

=============================================================================
