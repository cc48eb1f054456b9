------------------------- MODULE GdrDrv_maps_proofs -------------------------
(***************************************************************************)
(* Theorems about the mappings of GdrDrv: which type they have, and when   *)
(* the pages of a region are in reach of the process.                      *)
(***************************************************************************)
EXTENDS GdrDrv_locks_proofs

-----------------------------------------------------------------------------
(* Mapping types.                                                          *)

\* A region that counts as mapped has its pages, and the type that was asked for if
\* one was; what was asked for, and what it has, is possible on this platform.
TypesOf(m) ==
    /\ gdr_mr_is_mapped(m) => /\ mr[m].page_table = 1
                              /\ mr[m].req_mapping_type \in {"NONE", mr[m].cpu_mapping_type}
    /\ mr[m].page_table = 1 => /\ Supported(m, mr[m].req_mapping_type)
                               /\ Supported(m, mr[m].cpu_mapping_type)

\* Nothing was asked of the region, and it is not mapped.
Unasked(m) == mr[m].req_mapping_type = "NONE" /\ mr[m].cpu_mapping_type = "NONE"

\* Every region has such types, and nothing is asked of one before it has pages.
TypesInv ==
    /\ \A m \in MRs : TypesOf(m)
    /\ \A t \in Threads : th[t].pc = "pin_get" => Unasked(th[t].mr)

\* A step that starts no pin.
NoNewPin == \A t \in Threads : th'[t].pc = "pin_get" => th[t].pc = "pin_get" /\ th'[t].mr = th[t].mr

\* What a step does to the fields that mapping types are about: nothing at all, ...
SameTypes(m) == /\ mr'[m].page_table = mr[m].page_table /\ mr'[m].ram = mr[m].ram
                /\ mr'[m].cpu_mapping_type = mr[m].cpu_mapping_type
                /\ mr'[m].req_mapping_type = mr[m].req_mapping_type

\* ... nothing except that the region does not count as mapped any more, or ...
Unmapped(m) == /\ mr'[m].page_table = mr[m].page_table /\ mr'[m].ram = mr[m].ram
               /\ mr'[m].cpu_mapping_type = "NONE"
               /\ mr'[m].req_mapping_type = mr[m].req_mapping_type

\* ... a new life: the object is allocated or freed.
Renewed(m) == /\ mr'[m].page_table = 0
              /\ mr'[m].cpu_mapping_type = "NONE" /\ mr'[m].req_mapping_type = "NONE"
\* Only PinStart brings a thread to the call of nvidia_p2p_get_pages.
LEMMA PinSteps ==
    TypeOK /\ [Next]_vars =>
        NoNewPin \/ \E t \in Threads, m \in MRs, n \in Sizes : PinStart(t, m, n)
<1> SUFFICES ASSUME TypeOK, [Next]_vars,
                    ~(\E t \in Threads, m \in MRs, n \in Sizes : PinStart(t, m, n))
             PROVE  NoNewPin
  OBVIOUS
<1>1. ASSUME th' = th PROVE NoNewPin
  BY <1>1 DEF NoNewPin
<1>2. ASSUME NEW t \in Threads, th'[t].pc # "pin_get", \A u \in Threads : u # t => th'[u] = th[u]
      PROVE  NoNewPin
  BY <1>2 DEF NoNewPin
<1>3. ASSUME NEW t \in Threads, Return(t) PROVE NoNewPin
  BY <1>2, <1>3, ReturnFrame
<1>4. ASSUME NEW t \in Threads, NEW pc, Goto(t, pc), pc # "pin_get" PROVE NoNewPin
  BY <1>2, <1>4, GotoFrame
<1>5. ASSUME NEW t \in Threads, NEW op, NEW pc, NEW h, NEW m, NEW v, Begin(t, op, pc, h, m, v), pc # "pin_get"
      PROVE  NoNewPin
  <2>1. th'[t].pc = pc /\ \A u \in Threads : u # t => th'[u] = th[u]
    BY <1>5, BeginFrame
  <2> QED  BY <1>2, <1>5, <2>1
<1>6. ASSUME NEW t \in Threads, CallStart(t) PROVE NoNewPin
  <2>1. ASSUME NEW m \in MRs, PinRefused(t, m) PROVE NoNewPin
    BY <1>5, <2>1 DEF PinRefused
  <2>2. ASSUME NEW h \in AnyHandle,
               \/ UnpinStart(t, h) \/ ReqStart(t, h)
               \/ \E op \in {"get_info", "get_cb_flag"} : ReadStart(t, op, h)
               \/ \E v \in VMAs, n \in Sizes \ {0} : MmapStart(t, h, v, n)
        PROVE  NoNewPin
    <3>1. CASE UnpinStart(t, h)
      BY <1>5, <3>1 DEF UnpinStart
    <3>2. CASE ReqStart(t, h)
      BY <1>5, <3>2 DEF ReqStart
    <3>3. CASE \E op \in {"get_info", "get_cb_flag"} : ReadStart(t, op, h)
      BY <1>5, <3>3 DEF ReadStart
    <3>4. CASE \E v \in VMAs, n \in Sizes \ {0} : MmapStart(t, h, v, n)
      BY <1>5, <3>4 DEF MmapStart
    <3> QED  BY <2>2, <3>1, <3>2, <3>3, <3>4
  <2>3. ASSUME NEW v \in VMAs, MunmapStart(t, v) PROVE NoNewPin
    BY <1>5, <2>3 DEF MunmapStart
  <2>4. ASSUME NEW v \in VMAs, NEW w \in VMAs, NEW k \in 1 .. (vma[v].len - 1),
               MunmapHead(t, v, w, k) \/ MunmapTail(t, v, w, k)
        PROVE  NoNewPin
    <3>1. PICK kept, cut, keep, gone : MunmapPart(t, v, kept, keep, cut, gone)
      BY <2>4 DEF MunmapHead, MunmapTail
    <3> QED  BY <1>5, <3>1 DEF MunmapPart
  <2>5. ASSUME RelStart(t) PROVE NoNewPin
    BY <1>5, <2>5 DEF RelStart
  <2> QED  BY <1>6, <2>1, <2>2, <2>3, <2>4, <2>5 DEF CallStart
<1>7. ASSUME NEW t \in Threads, CallStep(t) PROVE NoNewPin
  <2>1. ASSUME \/ PinCopyToUser(t) \/ UnpinMiss(t) \/ ReadMiss(t) \/ ReqMiss(t) \/ ReadCopyToUser(t)
               \/ (\E type \in MappingTypes : ReqBody(t, type))
               \/ MmapLink(t) \/ MmapUndo(t) \/ MunmapEnd(t) \/ RelDone(t)
        PROVE  NoNewPin
    BY <1>3, <2>1 DEF PinCopyToUser, UnpinMiss, ReadMiss, ReqMiss, ReadCopyToUser, ReqBody, MmapLink,
       MmapUndo, MunmapEnd, RelDone
  <2>2. ASSUME \/ (\E ram \in RamPages : PinGetPages(t, ram)) \/ PinGetPagesFails(t)
               \/ PinBadPageTable(t) \/ PinLock(t) \/ PinNoHandle(t) \/ PinCopyFails(t)
               \/ UnpinRemove(t) \/ PutPages(t) \/ ReadSem(t)
        PROVE  NoNewPin
    BY <1>4, <2>2 DEF PinGetPages, PinGetPagesFails, PinBadPageTable, PinLock, PinNoHandle,
       PinCopyFails, UnpinRemove, PutPages, ReadSem
  <2>3. ASSUME FreeDropSem(t) PROVE NoNewPin
    BY <1>4, <2>3 DEF FreeDropSem
  <2>4. ASSUME ReqSem(t) \/ MmapSem(t) \/ CloseSem(t) PROVE NoNewPin
    BY <1>4, <2>4 DEF ReqSem, MmapSem, CloseSem, SemWrite
  <2>5. ASSUME \/ MmapMiss(t) \/ CloseMiss(t) \/ MmapRefused(t) \/ MmapMaps(t)
               \/ (\E k \in Sizes \cup {0} : MmapFails(t, k))
               \/ gdrdrv_vma_close(t) \/ RelRemove(t)
        PROVE  NoNewPin
    BY <1>4, <2>5 DEF MmapMiss, CloseMiss, MmapRefused, MmapMaps, MmapFails, MmapClear,
       gdrdrv_vma_close, RelRemove
  <2>6. ASSUME NEW from, NEW to, LookupHit(t, from, to), to # "pin_get" PROVE NoNewPin
    BY <1>2, <2>6 DEF LookupHit, TypeOK, Thread
  <2>7. ASSUME UnpinLookup(t) \/ ReadLookup(t) \/ ReqLookup(t) \/ MmapLookup(t) \/ CloseLookup(t)
        PROVE  NoNewPin
    BY <2>6, <2>7 DEF UnpinLookup, ReadLookup, ReqLookup, MmapLookup, CloseLookup
  <2>8. ASSUME PinPublish(t) PROVE NoNewPin
    BY <1>2, <2>8 DEF PinPublish, TypeOK, Thread
  <2>9. ASSUME Kfree(t) PROVE NoNewPin
    BY <1>2, <2>9 DEF Kfree, TypeOK, IdleThread
  <2>10. ASSUME ReadBody(t) PROVE NoNewPin
    BY <1>2, <2>10 DEF ReadBody, TypeOK, Thread
  <2>11. ASSUME NEW m \in MRs, RelPick(t, m) PROVE NoNewPin
    BY <1>2, <2>11 DEF RelPick, TypeOK, Thread
  <2> QED  BY <1>7, <2>1, <2>2, <2>3, <2>4, <2>5, <2>7, <2>8, <2>9, <2>10, <2>11 DEF CallStep
<1>8. ASSUME NEW m \in MRs, CbStart(m) \/ CbLock(m) \/ CbBody(m) PROVE NoNewPin
  BY <1>1, <1>8 DEF CbStart, CbLock, CbBody
<1>9. ASSUME Open \/ GdrClose \/ UNCHANGED vars PROVE NoNewPin
  BY <1>1, <1>9 DEF Open, GdrClose, vars
<1> QED  BY <1>6, <1>7, <1>8, <1>9 DEF Next, CallbackStep

\* What each step does to the mapping types: most leave them all alone, and the others
\* change one region in one of six ways.
LEMMA TypeSteps ==
    TypeOK /\ SafeInv /\ [Next]_vars =>
        \/ \A m \in MRs : SameTypes(m)
        \/ \E m \in MRs :
              /\ \A x \in MRs \ {m} : SameTypes(x)
              /\ \/ Unmapped(m) \/ Renewed(m)
                 \/ \E t \in Threads : th[t].mr = m /\
                       \/ \E ram \in RamPages : PinGetPages(t, ram)
                       \/ \E type \in MappingTypes : ReqBody(t, type)
                       \/ MmapMaps(t)
                 \/ CbBody(m)
<1> DEFINE Goal == \/ \A m \in MRs : SameTypes(m)
                   \/ \E m \in MRs :
                         /\ \A x \in MRs \ {m} : SameTypes(x)
                         /\ \/ Unmapped(m) \/ Renewed(m)
                            \/ \E t \in Threads : th[t].mr = m /\
                                  \/ \E ram \in RamPages : PinGetPages(t, ram)
                                  \/ \E type \in MappingTypes : ReqBody(t, type)
                                  \/ MmapMaps(t)
                            \/ CbBody(m)
<1> SUFFICES ASSUME TypeOK, SafeInv, [Next]_vars PROVE Goal
  OBVIOUS
<1>1. ASSUME mr' = mr PROVE Goal
  BY <1>1 DEF SameTypes
<1>2. ASSUME NEW m \in MRs, \A x \in MRs \ {m} : mr'[x] = mr[x], Unmapped(m) \/ Renewed(m) PROVE Goal
  BY <1>2 DEF SameTypes
<1>3. ASSUME NEW t \in Threads, Uses(t) PROVE th[t].mr \in MRs
  BY <1>3, SafeHasRegion DEF HasRegion
<1>4. ASSUME NEW t \in Threads, CallStart(t) PROVE Goal
  <2>1. ASSUME NEW m \in MRs, PinRefused(t, m) \/ \E n \in Sizes : PinStart(t, m, n) PROVE Goal
    <3>1. (\A x \in MRs \ {m} : mr'[x] = mr[x]) /\ Renewed(m)
      BY <2>1 DEF PinRefused, PinStart, TypeOK, NewMR, Renewed
    <3> QED  BY <1>2, <3>1
  <2>2. ASSUME NEW h \in AnyHandle,
               \/ UnpinStart(t, h) \/ ReqStart(t, h)
               \/ \E op \in {"get_info", "get_cb_flag"} : ReadStart(t, op, h)
               \/ \E v \in VMAs, n \in Sizes \ {0} : MmapStart(t, h, v, n)
        PROVE  mr' = mr
    BY <2>2 DEF UnpinStart, ReqStart, ReadStart, MmapStart
  <2>3. ASSUME NEW v \in VMAs,
               \/ MunmapStart(t, v)
               \/ \E w \in VMAs, k \in 1 .. (vma[v].len - 1) : MunmapHead(t, v, w, k) \/ MunmapTail(t, v, w, k)
        PROVE  mr' = mr
    BY <2>3 DEF MunmapStart, MunmapHead, MunmapTail, MunmapPart
  <2>4. ASSUME RelStart(t) PROVE mr' = mr
    BY <2>4 DEF RelStart
  <2> HIDE DEF Goal
  <2> QED  BY <1>1, <1>4, <2>1, <2>2, <2>3, <2>4 DEF CallStart
<1>5. ASSUME NEW t \in Threads, CallStep(t) PROVE Goal
  <2>1. ASSUME \/ PinGetPagesFails(t) \/ PinBadPageTable(t) \/ PinLock(t) \/ PinNoHandle(t)
               \/ PinCopyToUser(t) \/ PinCopyFails(t) \/ FreeDropSem(t) \/ PutPages(t)
               \/ ReadSem(t) \/ ReadBody(t) \/ ReadCopyToUser(t)
               \/ MmapLink(t) \/ MmapUndo(t) \/ MunmapEnd(t)
               \/ (\E m \in MRs : RelPick(t, m)) \/ RelDone(t)
        PROVE  mr' = mr
    BY <2>1 DEF PinGetPagesFails, PinBadPageTable, PinLock, PinNoHandle, PinCopyToUser,
       PinCopyFails, FreeDropSem, PutPages, ReadSem, ReadBody, ReadCopyToUser, MmapLink, MmapUndo,
       MunmapEnd, RelPick, RelDone
  <2>2. ASSUME NEW from, NEW to,
               LookupHit(t, from, to) \/ LookupMiss(t, from) \/ SemWrite(t, from, to)
        PROVE  mr' = mr
    BY <2>2 DEF LookupHit, LookupMiss, SemWrite
  <2>3. ASSUME \/ UnpinLookup(t) \/ ReadLookup(t) \/ ReqLookup(t) \/ MmapLookup(t) \/ CloseLookup(t)
               \/ UnpinMiss(t) \/ ReadMiss(t) \/ ReqMiss(t) \/ MmapMiss(t) \/ CloseMiss(t)
               \/ ReqSem(t) \/ MmapSem(t) \/ CloseSem(t)
        PROVE  mr' = mr
    BY <2>2, <2>3 DEF UnpinLookup, ReadLookup, ReqLookup, MmapLookup, CloseLookup,
       UnpinMiss, ReadMiss, ReqMiss, MmapMiss, CloseMiss, ReqSem, MmapSem, CloseSem
  <2>4. ASSUME PinPublish(t) PROVE \A m \in MRs : SameTypes(m)
    BY <2>4 DEF PinPublish, gdr_generate_mr_handle, SameTypes, TypeOK, Region
  <2>5. ASSUME \/ UnpinRemove(t) \/ RelRemove(t) \/ gdrdrv_vma_close(t)
               \/ MmapRefused(t) \/ \E k \in Sizes \cup {0} : MmapFails(t, k)
        PROVE  Goal
    <3>1. th[t].mr \in MRs
      BY <1>3, <2>5 DEF UnpinRemove, RelRemove, gdrdrv_vma_close, MmapRefused, MmapFails, At, Uses
    <3>2. /\ \A x \in MRs \ {th[t].mr} : mr'[x] = mr[x]
          /\ Unmapped(th[t].mr)
      <4>1. CASE UnpinRemove(t)
        BY <3>1, <4>1 DEF UnpinRemove, Unmapped, TypeOK, Region
      <4>2. CASE RelRemove(t)
        BY <3>1, <4>2 DEF RelRemove, Unmapped, TypeOK, Region
      <4>3. CASE gdrdrv_vma_close(t)
        BY <3>1, <4>3 DEF gdrdrv_vma_close, Unmapped, TypeOK, Region
      <4>4. CASE MmapRefused(t) \/ \E k \in Sizes \cup {0} : MmapFails(t, k)
        <5>1. MmapClear(t)
          BY <4>4 DEF MmapRefused, MmapFails
        <5> QED  BY <3>1, <5>1 DEF MmapClear, Unmapped, TypeOK, Region
      <4> QED  BY <2>5, <4>1, <4>2, <4>3, <4>4
    <3> QED  BY <1>2, <3>1, <3>2
  <2>6. ASSUME Kfree(t) PROVE Goal
    <3>1. th[t].mr \in MRs
      BY <1>3, <2>6 DEF Kfree, At, Uses
    <3>2. (\A x \in MRs \ {th[t].mr} : mr'[x] = mr[x]) /\ Renewed(th[t].mr)
      BY <2>6, <3>1 DEF Kfree, NewMR, Renewed, TypeOK
    <3> QED  BY <1>2, <3>1, <3>2
  <2>7. ASSUME \/ \E ram \in RamPages : PinGetPages(t, ram)
               \/ \E type \in MappingTypes : ReqBody(t, type)
               \/ MmapMaps(t)
        PROVE  Goal
    <3>1. th[t].mr \in MRs
      BY <1>3, <2>7 DEF PinGetPages, ReqBody, MmapMaps, At, Uses
    <3>2. \A x \in MRs \ {th[t].mr} : mr'[x] = mr[x]
      BY <2>7 DEF PinGetPages, ReqBody, MmapMaps, TypeOK
    <3>3. \A x \in MRs \ {th[t].mr} : SameTypes(x)
      BY <3>2 DEF SameTypes
    <3> QED  BY <2>7, <3>1, <3>3
  <2> HIDE DEF Goal
  <2>8. ASSUME \A m \in MRs : SameTypes(m) PROVE Goal
    BY <2>8 DEF Goal
  <2> QED  BY <1>1, <1>5, <2>1, <2>3, <2>4, <2>5, <2>6, <2>7, <2>8 DEF CallStep
<1>6. ASSUME NEW m \in MRs, CbLock(m) PROVE Goal
  <2>1. \A x \in MRs : SameTypes(x)
    BY <1>6 DEF CbLock, SameTypes, TypeOK, Region
  <2> QED  BY <2>1
<1>7. ASSUME NEW m \in MRs, CbBody(m) PROVE Goal
  <2>1. \A x \in MRs \ {m} : SameTypes(x)
    BY <1>7 DEF CbBody, SameTypes, TypeOK
  <2> QED  BY <1>7, <2>1
<1>8. ASSUME (\E m \in MRs : CbStart(m)) \/ Open \/ GdrClose \/ UNCHANGED vars PROVE mr' = mr
  BY <1>8 DEF CbStart, Open, GdrClose, vars
<1> HIDE DEF Goal
<1> QED  BY <1>1, <1>4, <1>5, <1>6, <1>7, <1>8 DEF Next, CallbackStep

\* Whether a type is supported depends on the pages of the region and on nothing else.
LEMMA SupportKept ==
    ASSUME NEW m, mr'[m].page_table = mr[m].page_table, mr'[m].ram = mr[m].ram, NEW type \in MappingTypes
    PROVE  Supported(m, type)' <=> Supported(m, type)
BY DEF Supported, gdr_mr_supports_cache_mapping, MappingTypes

\* gdrdrv_mmap chooses the type that was asked for or, if none was, one that is supported.
LEMMA ChosenSupported ==
    ASSUME NEW m, TypesOf(m), mr[m].page_table = 1
    PROVE  /\ Supported(m, ChosenType(m)) /\ ChosenType(m) # "NONE"
           /\ mr[m].req_mapping_type \in {"NONE", ChosenType(m)}
<1>1. CASE mr[m].req_mapping_type # "NONE"
  <2>1. ChosenType(m) = mr[m].req_mapping_type
    BY <1>1 DEF ChosenType
  <2> QED  BY <1>1, <2>1 DEF TypesOf
<1>2. CASE mr[m].req_mapping_type = "NONE" /\ gdr_mr_supports_cache_mapping(m)
  <2>1. ChosenType(m) = "CACHING"
    BY <1>2 DEF ChosenType
  <2> QED  BY <1>2, <2>1 DEF Supported
<1>3. CASE mr[m].req_mapping_type = "NONE" /\ ~gdr_mr_supports_cache_mapping(m)
  <2>1. ChosenType(m) = IF MustUseDevice THEN "DEVICE" ELSE "WC"
    BY <1>3 DEF ChosenType
  <2>2. CASE MustUseDevice
    BY <1>3, <2>1, <2>2 DEF Supported
  <2>3. CASE ~MustUseDevice
    BY <1>3, <2>1, <2>3 DEF Supported
  <2> QED  BY <2>2, <2>3
<1> QED  BY <1>1, <1>2, <1>3

\* What a step may do to the types of a region without harm.
LEMMA HarmlessChange ==
    ASSUME TypeOK, NEW m \in MRs
    PROVE  /\ SameTypes(m) \/ Unmapped(m) => (TypesOf(m) => TypesOf(m)') /\ (Unasked(m) => Unasked(m)')
           /\ Renewed(m) => TypesOf(m)' /\ Unasked(m)'
<1>1. mr[m].cpu_mapping_type \in MappingTypes /\ mr[m].req_mapping_type \in MappingTypes
  BY DEF TypeOK, Region
<1>2. ASSUME SameTypes(m) PROVE (TypesOf(m) => TypesOf(m)') /\ (Unasked(m) => Unasked(m)')
  <2>1. \A type \in MappingTypes : Supported(m, type)' <=> Supported(m, type)
    BY <1>2, SupportKept DEF SameTypes
  <2> QED  BY <1>1, <1>2, <2>1 DEF SameTypes, TypesOf, Unasked, gdr_mr_is_mapped
<1>3. ASSUME Unmapped(m) PROVE (TypesOf(m) => TypesOf(m)') /\ (Unasked(m) => Unasked(m)')
  <2>1. \A type \in MappingTypes : Supported(m, type)' <=> Supported(m, type)
    BY <1>3, SupportKept DEF Unmapped
  <2>2. Supported(m, "NONE")' /\ "NONE" \in MappingTypes
    BY DEF Supported, MappingTypes
  <2> QED  BY <1>1, <1>3, <2>1, <2>2 DEF Unmapped, TypesOf, Unasked, gdr_mr_is_mapped
<1>4. ASSUME Renewed(m) PROVE TypesOf(m)' /\ Unasked(m)'
  BY <1>4 DEF Renewed, TypesOf, Unasked, gdr_mr_is_mapped
<1> QED  BY <1>2, <1>3, <1>4

\* nvidia_p2p_get_pages, a request, mmap and the callback leave a region with types that
\* fit each other and the platform.
LEMMA OneTypeStep ==
    ASSUME TypeOK, SafeInv, TypesInv, NEW m \in MRs,
           \/ \E t \in Threads : th[t].mr = m /\
                 \/ \E ram \in RamPages : PinGetPages(t, ram)
                 \/ \E type \in MappingTypes : ReqBody(t, type)
                 \/ MmapMaps(t)
           \/ CbBody(m)
    PROVE  TypesOf(m)'
<1>0. TypesOf(m) /\ mr[m].cpu_mapping_type \in MappingTypes /\ mr[m].req_mapping_type \in MappingTypes
  BY DEF TypesInv, TypeOK, Region
<1>1. ASSUME NEW t \in Threads, th[t].mr = m, NEW ram \in RamPages, PinGetPages(t, ram) PROVE TypesOf(m)'
  <2>1. Unasked(m)
    BY <1>1 DEF PinGetPages, At, TypesInv
  <2>2. mr'[m].req_mapping_type = "NONE" /\ mr'[m].cpu_mapping_type = "NONE"
    BY <1>1, <2>1 DEF PinGetPages, Unasked, TypeOK, Region
  <2> QED  BY <2>2 DEF TypesOf, gdr_mr_is_mapped, Supported
<1>2. ASSUME NEW t \in Threads, th[t].mr = m, NEW type \in MappingTypes, ReqBody(t, type) PROVE TypesOf(m)'
  <2>1. CASE ~gdr_mr_is_mapped(m) /\ Supported(m, type)
    <3>1. /\ mr'[m].page_table = mr[m].page_table /\ mr'[m].ram = mr[m].ram
          /\ mr'[m].cpu_mapping_type = "NONE" /\ mr'[m].req_mapping_type = type
      BY <1>2, <2>1 DEF ReqBody, TypeOK, Region, gdr_mr_is_mapped
    <3>2. Supported(m, type)' /\ Supported(m, "NONE")'
      BY <2>1, <3>1, SupportKept DEF Supported
    <3> QED  BY <3>1, <3>2 DEF TypesOf, gdr_mr_is_mapped
  <2>2. CASE ~(~gdr_mr_is_mapped(m) /\ Supported(m, type))
    <3>1. SameTypes(m)
      BY <1>2, <2>2 DEF ReqBody, SameTypes
    <3> QED  BY <1>0, <3>1, HarmlessChange
  <2> QED  BY <2>1, <2>2
<1>3. ASSUME NEW t \in Threads, th[t].mr = m, MmapMaps(t) PROVE TypesOf(m)'
  <2>1. mr[m].page_table = 1
    BY <1>3 DEF MmapMaps, Refusal, TypeOK, Region
  <2>2. /\ mr'[m].page_table = mr[m].page_table /\ mr'[m].ram = mr[m].ram
        /\ mr'[m].req_mapping_type = mr[m].req_mapping_type
        /\ mr'[m].cpu_mapping_type = ChosenType(m)
    BY <1>3 DEF MmapMaps, TypeOK, Region
  <2>3. ChosenType(m) \in MappingTypes
    BY ChosenIsType
  <2>4. /\ Supported(m, ChosenType(m)) /\ Supported(m, mr[m].req_mapping_type)
        /\ mr[m].req_mapping_type \in {"NONE", ChosenType(m)}
    BY <1>0, <2>1, ChosenSupported DEF TypesOf
  <2>5. \A type \in MappingTypes : Supported(m, type)' <=> Supported(m, type)
    BY <2>2, SupportKept
  <2>6. PICK c \in MappingTypes : c = ChosenType(m)
    BY <2>3
  <2>7. PICK r \in MappingTypes : r = mr[m].req_mapping_type
    BY <1>0
  <2>8. Supported(m, c)' /\ Supported(m, r)'
    BY <2>4, <2>5, <2>6, <2>7
  <2> QED  BY <2>1, <2>2, <2>4, <2>6, <2>7, <2>8 DEF TypesOf
<1>4. ASSUME CbBody(m) PROVE TypesOf(m)'
  <2>1. mr[m].page_table = 1
    BY <1>4 DEF CbBody, SafeInv, PagesInv
  <2>2. mr'[m].page_table = 0 /\ mr'[m].cpu_mapping_type = "NONE"
    BY <1>4, <2>1 DEF CbBody, TypeOK, Region
  <2> QED  BY <2>2 DEF TypesOf, gdr_mr_is_mapped
<1> QED  BY <1>1, <1>2, <1>3, <1>4

\* Every step keeps TypesInv: what is changed belongs to a region on the list, or to the
\* thread that changes it, so that a pin in progress is not disturbed.
LEMMA TypesStep == TypeOK /\ SafeInv /\ TypesInv /\ [Next]_vars => TypesInv'
<1> SUFFICES ASSUME TypeOK, SafeInv, TypesInv, [Next]_vars PROVE TypesInv'
  OBVIOUS
<1>1. \A m \in MRs : TypesOf(m)'
  BY TypeSteps, HarmlessChange, OneTypeStep DEF TypesInv
<1>2. ASSUME NEW t \in Threads, NEW m \in MRs, NEW n \in Sizes, PinStart(t, m, n),
             NEW u \in Threads, th'[u].pc = "pin_get"
      PROVE  \E x \in MRs : x = th'[u].mr /\ Unasked(x)'
  <2>1. /\ mr[m].state = "free" /\ Renewed(m) /\ th'[t].mr = m
        /\ \A x \in MRs \ {m} : SameTypes(x)
        /\ \A v \in Threads : v # t => th'[v] = th[v]
    BY <1>2, BeginFrame DEF PinStart, TypeOK, NewMR, Renewed, SameTypes
  <2>2. CASE u = t
    BY <2>1, <2>2, HarmlessChange
  <2>3. CASE u # t
    <3>1. th[u].pc = "pin_get" /\ th'[u].mr = th[u].mr
      BY <1>2, <2>1, <2>3
    <3>2. th[u].mr \in MRs \ {m}
      BY <2>1, <3>1 DEF SafeInv, OwnedInv, Creating
    <3>3. PICK x \in MRs \ {m} : x = th[u].mr
      BY <3>2
    <3>4. Unasked(x)
      BY <3>1, <3>3 DEF TypesInv
    <3> QED  BY <2>1, <3>1, <3>3, <3>4, HarmlessChange
  <2> QED  BY <2>2, <2>3
<1>3. ASSUME NoNewPin, NEW u \in Threads, th'[u].pc = "pin_get"
      PROVE  \E x \in MRs : x = th'[u].mr /\ Unasked(x)'
  <2>1. th[u].pc = "pin_get" /\ th'[u].mr = th[u].mr
    BY <1>3 DEF NoNewPin
  <2>2. PICK x \in MRs : x = th[u].mr /\ x \notin mr_list
    BY <2>1 DEF SafeInv, OwnedInv, Creating
  <2>3. Unasked(x)
    BY <2>1, <2>2 DEF TypesInv
  <2>4. ASSUME NEW t \in Threads, th[t].mr = x, NEW ram \in RamPages, PinGetPages(t, ram) PROVE FALSE
    <3>1. th[t].pc = "pin_get" /\ th'[t].pc = "pin_check"
      BY <2>4, GotoFrame DEF PinGetPages, At
    <3>2. t # u
      BY <1>3, <3>1
    <3> QED  BY <2>1, <2>2, <2>4, <3>1, <3>2 DEF SafeInv, OwnedInv, Creating
  <2>5. ASSUME NEW t \in Threads, th[t].mr = x, (\E type \in MappingTypes : ReqBody(t, type)) \/ MmapMaps(t)
        PROVE  FALSE
    BY <2>2, <2>5 DEF ReqBody, MmapMaps, At, SafeInv, ListedInv, Writing
  <2>6. ASSUME CbBody(x) PROVE Unasked(x)'
    BY <2>3, <2>6 DEF CbBody, Unasked, SafeInv, PagesInv, TypeOK, Region
  <2>7. Unasked(x)'
    BY <2>3, <2>4, <2>5, <2>6, TypeSteps, HarmlessChange
  <2> QED  BY <2>1, <2>2, <2>7
<1>4. \A u \in Threads : th'[u].pc = "pin_get" => \E x \in MRs : x = th'[u].mr /\ Unasked(x)'
  BY <1>2, <1>3, PinSteps
<1>5. \A u \in Threads : th'[u].pc = "pin_get" => Unasked(th[u].mr)'
  BY <1>4 DEF Unasked
<1> QED  BY <1>1, <1>5 DEF TypesInv

\* A mapping has the type that was asked for before it was made, one that the platform
\* supports, on every platform and whatever the callers do; a request while the region
\* is mapped, and a callback between request and mmap, change nothing about that.
THEOREM TypesHonoured == Spec => []MappedAsRequested
<1>1. Init => TypesInv
  <2> SUFFICES ASSUME Init PROVE TypesInv
    OBVIOUS
  <2>1. \A m \in MRs : mr[m].page_table = 0 /\ mr[m].cpu_mapping_type = "NONE"
    BY DEF Init, NewMR
  <2>2. \A t \in Threads : th[t].pc = "idle"
    BY DEF Init, IdleThread
  <2> QED  BY <2>1, <2>2 DEF TypesInv, TypesOf, gdr_mr_is_mapped
<1>2. TypeOK /\ SafeInv /\ TypesInv => MappedAsRequested
  BY DEF TypesInv, TypesOf, MappedAsRequested, TypeOK
<1> QED  BY Inductive, TypesStep, <1>1, <1>2, PTL DEF Spec

-----------------------------------------------------------------------------
(* Callers that keep to the rules of libgdrapi.                            *)

\* What the callers do not do: use numbers that are no handles of theirs or one handle
\* in two calls at a time, map a handle twice, unpin a mapped buffer other than in
\* gdr_close, free GPU memory while it is being mapped, or unmap a part of a mapping.
\* They may still query any handle and pass flags that the driver refuses.
OrderlyCallers == Liberties \cap {"AnyHandle", "Remap", "UnpinMapped", "FreeDuringMap", "Split"} = {}

MmapPCs   == {"mmap_lock", "mmap_sem", "mmap_body", "mmap_link", "mmap_undo"}
MunmapPCs == {"close_lock", "close_sem", "close_body", "munmap_end"}
UnpinPCs  == {"pin_copy", "unpin_lock", "unpin_sem"}

\* The call a thread is in, from where it is; mmap and munmap hold mmap_lock throughout.
OpInv == \A t \in Threads :
    /\ th[t].op = "mmap" <=> th[t].pc \in MmapPCs
    /\ th[t].op = "munmap" <=> th[t].pc \in MunmapPCs
    /\ th[t].pc \in MmapPCs \cup MunmapPCs => mmap_lock = t /\ th[t].vma \in VMAs
    /\ th[t].pc \in Creating => th[t].op = "pin"
    /\ th[t].pc = "pin_copy" => th[t].op = "pin"
    /\ th[t].pc = "idle" => th[t].op = "none"

\* A handle that the callers may use belongs to a region on the list; one that is being
\* unpinned, or was not handed out yet, too, and no two threads unpin the same.
HandlesInv ==
    /\ file # "open" => handles = {}
    /\ \A h \in handles : \E m \in mr_list : mr[m].handle = h
    /\ \A t \in Threads : th[t].pc \in UnpinPCs =>
          th[t].h \notin handles /\ \E m \in mr_list : mr[m].handle = th[t].h
    /\ \A t, u \in Threads : t # u /\ th[t].pc \in UnpinPCs /\ th[u].pc \in UnpinPCs => th[t].h # th[u].h

\* ... and every region on the list has such a handle.
KnownInv == file = "open" => \A m \in mr_list :
    \/ mr[m].handle \in handles
    \/ \E t \in Threads : th[t].pc \in UnpinPCs /\ th[t].h = mr[m].handle

\* Unpin, mmap and munmap work on the region that has their handle.
ExactInv == \A t \in Threads :
    th[t].pc \in {"unpin_sem", "mmap_sem", "mmap_body", "close_sem", "close_body"} =>
        mr[th[t].mr].handle = th[t].h

\* mmap works on a handle the callers have; munmap too, until gdr_close has unpinned all.
UserInv == \A t \in Threads :
    /\ th[t].pc \in MmapPCs => th[t].h \in handles
    /\ th[t].pc \in MunmapPCs => th[t].h \in handles \/ mr_list = {}
    /\ closing = 1 => th[t].op \notin {"pin", "mmap"}
    /\ closing = 1 /\ th[t].pc \in MunmapPCs => mr_list = {}

\* A VMA has the offset of a handle of its own, until gdr_close; one that is being made
\* or closed belongs to the thread that does so.
VmaInv ==
    /\ \A v \in VMAs : vma[v].state # "free" => file = "open" /\ (closing = 0 => vma[v].pgoff \in handles)
    /\ \A v, w \in VMAs : v # w /\ vma[v].state # "free" /\ vma[w].state # "free" => vma[v].pgoff # vma[w].pgoff
    /\ \A v \in VMAs : vma[v].state = "new" => \E t \in Threads : th[t].pc \in MmapPCs /\ th[t].vma = v
    /\ \A t \in Threads : th[t].pc \in MmapPCs => vma[th[t].vma].state = "new" /\ vma[th[t].vma].pgoff = th[t].h
    /\ \A t \in Threads : th[t].pc \in MunmapPCs =>
          vma[th[t].vma].state = "closing" /\ vma[th[t].vma].pgoff = th[t].h

CallersInv == OpInv /\ HandlesInv /\ KnownInv /\ ExactInv /\ UserInv /\ VmaInv

\* A region that counts as mapped points to a VMA at its handle that points back.
LinkInv == \A m \in MRs : gdr_mr_is_mapped(m) =>
    /\ m \in mr_list
    /\ mr[m].vma \in VMAs /\ vma[mr[m].vma].state # "free"
    /\ vma[mr[m].vma].mr = m /\ vma[mr[m].vma].pgoff = mr[m].handle /\ vma[mr[m].vma].len <= mr[m].size

\* Before mmap has mapped its region, and after munmap has closed it, it is not mapped.
ClearInv == \A t \in Threads, m \in mr_list :
    th[t].pc \in {"mmap_lock", "mmap_sem", "mmap_body", "mmap_undo", "munmap_end"} /\ mr[m].handle = th[t].h
        => ~gdr_mr_is_mapped(m)

\* A VMA with entries, from the return of gdrdrv_mmap on, is the VMA of a mapped region,
\* and the entries are in its range.
Reaches(v) ==
    /\ vma[v].mr \in MRs /\ gdr_mr_is_mapped(vma[v].mr) /\ mr[vma[v].mr].vma = v
    /\ vma[v].pte \subseteq Offsets(vma[v].pgoff, vma[v].len)

ReachInv ==
    /\ \A v \in VMAs : vma[v].state = "linked" /\ vma[v].pte # {} => Reaches(v)
    /\ \A t \in Threads : th[t].pc = "mmap_link" => Reaches(th[t].vma)

\* The pages are not taken back while their region is being mapped, and a region on the
\* list that has a page table has its pages.
RegisteredInv ==
    /\ \A t \in Threads, m \in mr_list : th[t].pc \in MmapPCs /\ mr[m].handle = th[t].h => nv[m] # "revoking"
    /\ \A m \in mr_list : mr[m].page_table = 1 => nv[m] # "none"
    /\ \A t \in Threads : th[t].pc \in {"pin_check", "pin_publish"} /\ mr[th[t].mr].page_table = 1
          => nv[th[t].mr] # "none"

MapsInv == LinkInv /\ ClearInv /\ ReachInv /\ RegisteredInv

\* The steps at which a call works on the region it has found by its handle.
ExactPCs == {"unpin_sem", "mmap_sem", "mmap_body", "close_sem", "close_body"}

\* What a step may do to thread u without changing which call it is in: go on in it, ...
GoesOn(u) ==
    /\ th'[u].op = th[u].op /\ th'[u].h = th[u].h /\ th'[u].vma = th[u].vma
    /\ th'[u].pc \in MmapPCs <=> th[u].pc \in MmapPCs
    /\ th'[u].pc \in MunmapPCs <=> th[u].pc \in MunmapPCs
    /\ th'[u].pc \in UnpinPCs <=> th[u].pc \in UnpinPCs
    /\ th'[u].pc \in Creating => th[u].pc \in Creating
    /\ th'[u].pc = "pin_copy" => th[u].pc = "pin_copy"
    /\ th'[u].pc # "idle"
    /\ th'[u].pc \in ExactPCs => th'[u].mr \in mr_list /\ mr[th'[u].mr].handle = th[u].h

\* ... or begin, go on in or end a call that the handles of others do not matter to.
Plain(pc) == pc \notin MmapPCs \cup MunmapPCs \cup UnpinPCs

Elsewhere(u) ==
    /\ Plain(th[u].pc) /\ Plain(th'[u].pc)
    /\ th'[u].op \notin {"mmap", "munmap"}
    /\ th'[u].pc \in Creating => th'[u].op = "pin"
    /\ th'[u].pc = "idle" => th'[u].op = "none"
    /\ closing = 1 => th'[u].op # "pin"

\* A step that leaves handles, list and VMAs as they are keeps CallersInv if every
\* thread does one of these.
LEMMA CallersFrame ==
    ASSUME TypeOK, SafeInv, CallersInv,
           \A u \in Threads : th'[u] = th[u] \/ GoesOn(u) \/ Elsewhere(u),
           UNCHANGED <<file, mr_list, mmap_lock, handles, closing>>,
           \A m \in mr_list : mr'[m].handle = mr[m].handle,
           \A v \in VMAs : vma'[v].state = vma[v].state /\ vma'[v].pgoff = vma[v].pgoff
    PROVE  CallersInv'
<1> USE DEF MmapPCs, MunmapPCs, UnpinPCs, Creating, Plain, GoesOn, Elsewhere
<1>1. OpInv'
  BY DEF CallersInv, OpInv
<1>2. HandlesInv'
  BY DEF CallersInv, HandlesInv
<1>3. KnownInv'
  BY DEF CallersInv, KnownInv
<1>4. ExactInv'
  <2> SUFFICES ASSUME NEW u \in Threads, th'[u].pc \in ExactPCs PROVE mr'[th'[u].mr].handle = th'[u].h
    BY DEF ExactInv, ExactPCs
  <2>1. CASE th'[u] = th[u]
    <3>1. th[u].mr \in mr_list /\ mr[th[u].mr].handle = th[u].h
      BY <2>1 DEF SafeInv, ListedInv, CallersInv, ExactInv, ExactPCs, Waiting, Writing
    <3> QED  BY <2>1, <3>1
  <2>2. CASE GoesOn(u)
    BY <2>2
  <2>3. CASE Elsewhere(u)
    BY <2>3 DEF ExactPCs
  <2> QED  BY <2>1, <2>2, <2>3
<1>5. UserInv'
  BY DEF CallersInv, UserInv
<1>6. VmaInv'
  BY DEF CallersInv, VmaInv, OpInv
<1> QED  BY <1>1, <1>2, <1>3, <1>4, <1>5, <1>6 DEF CallersInv

\* A lookup with the handle of a region on the list finds that region.
LEMMA LookupExact ==
    ASSUME TypeOK, NEW h, \E m \in mr_list : mr[m].handle = h
    PROVE  /\ gdr_mr_from_handle_unlocked(h) \in mr_list
           /\ mr[gdr_mr_from_handle_unlocked(h)].handle = h
BY DEF gdr_mr_from_handle_unlocked

\* A lookup finds nothing only if the list is empty.
LEMMA LookupNone ==
    ASSUME TypeOK, NEW h
    PROVE  gdr_mr_from_handle_unlocked(h) = None <=> mr_list = {}
<1>1. CASE mr_list = {}
  BY <1>1 DEF gdr_mr_from_handle_unlocked
<1>2. CASE mr_list # {}
  <2>1. gdr_mr_from_handle_unlocked(h) \in mr_list
    BY <1>2, LastOnList DEF gdr_mr_from_handle_unlocked
  <2> QED  BY <1>2, <2>1, NullAssumption DEF TypeOK
<1> QED  BY <1>1, <1>2

\* No two regions on the list have the same handle.
LEMMA HandlesDiffer ==
    ASSUME TypeOK, OffsetsInv, NEW m \in mr_list, NEW k \in mr_list, mr[m].handle = mr[k].handle
    PROVE  m = k
<1>1. /\ mr[m].handle \in Nat /\ mr[k].handle \in Nat
      /\ Taken(m) \in Nat /\ Taken(m) > 0 /\ Taken(k) \in Nat /\ Taken(k) > 0
  BY TakenBounds DEF TypeOK
<1>2. m # k => \/ mr[m].handle + Taken(m) <= mr[k].handle
               \/ mr[k].handle + Taken(k) <= mr[m].handle
  BY DEF OffsetsInv
<1> QED  BY <1>1, <1>2

\* Every field of a thread after a step of it.
LEMMA GotoFields ==
    ASSUME TypeOK, NEW t \in Threads, NEW pc, Goto(t, pc)
    PROVE  /\ th'[t].pc = pc /\ th'[t].op = th[t].op /\ th'[t].h = th[t].h
           /\ th'[t].mr = th[t].mr /\ th'[t].vma = th[t].vma
           /\ \A u \in Threads : u # t => th'[u] = th[u]
BY DEF TypeOK, Thread, Goto

\* ... and what beginning a call does.
LEMMA BeginFields ==
    ASSUME TypeOK, NEW t \in Threads, NEW op, NEW pc, NEW h, NEW m, NEW v, Begin(t, op, pc, h, m, v)
    PROVE  /\ th'[t].pc = pc /\ th'[t].op = op /\ th'[t].h = h /\ th'[t].mr = m /\ th'[t].vma = v
           /\ \A u \in Threads : u # t => th'[u] = th[u]
BY DEF TypeOK, Thread, Begin, IdleThread

\* Destroying mappings takes entries away and changes nothing else of a VMA.
LEMMA DestroyFields ==
    ASSUME TypeOK, NEW m, NEW v \in VMAs
    PROVE  /\ DestroyMappings(m)[v].state = vma[v].state /\ DestroyMappings(m)[v].pgoff = vma[v].pgoff
           /\ DestroyMappings(m)[v].len = vma[v].len /\ DestroyMappings(m)[v].mr = vma[v].mr
           /\ DestroyMappings(m)[v].pte \subseteq vma[v].pte
BY DEF DestroyMappings, gdrdrv_zap_vma, TypeOK, VMA

\* A step that leaves file and list alone gives out no handle.
LEMMA HandlesStay ==
    ASSUME TypeOK, SafeInv, [Next]_vars, UNCHANGED <<file, mr_list>>
    PROVE  \A m \in mr_list : mr'[m].handle = mr[m].handle
<1>1. ~Open
  BY DEF Open
<1>2. ~(\E t \in Threads : PinPublish(t))
  BY DEF PinPublish, At, SafeInv, OwnedInv, Creating
<1>3. NoNewHandle
  BY <1>1, <1>2, HandleSteps
<1> QED  BY <1>3 DEF NoNewHandle

\* The steps that leave the handles, the list and the VMAs alone.
LEMMA CallersQuiet ==
    ASSUME TypeOK, SafeInv, CallersInv, [Next]_vars, NEW t \in Threads,
           \A u \in Threads : u # t => th'[u] = th[u], GoesOn(t) \/ Elsewhere(t),
           UNCHANGED <<file, mr_list, mmap_lock, handles, closing>>,
           \A v \in VMAs : vma'[v].state = vma[v].state /\ vma'[v].pgoff = vma[v].pgoff
    PROVE  CallersInv'
<1>1. \A m \in mr_list : mr'[m].handle = mr[m].handle
  BY HandlesStay
<1>2. \A u \in Threads : th'[u] = th[u] \/ GoesOn(u) \/ Elsewhere(u)
  OBVIOUS
<1> QED  BY <1>1, <1>2, CallersFrame


\* The steps that decide who may use which handle.
Decisive(t) ==
    \/ \E h \in AnyHandle :
         UnpinStart(t, h) \/ \E v \in VMAs, n \in Sizes \ {0} : MmapStart(t, h, v, n)
    \/ \E v \in VMAs : MunmapStart(t, v)
    \/ PinPublish(t) \/ PinCopyToUser(t) \/ UnpinMiss(t) \/ UnpinRemove(t)
    \/ MmapLink(t) \/ MmapUndo(t) \/ MunmapEnd(t)
    \/ RelStart(t) \/ RelRemove(t) \/ RelDone(t)

\* All the other steps keep CallersInv, because nothing it speaks of changes.
LEMMA QuietCallers ==
    ASSUME OrderlyCallers, TypeOK, SafeInv, CallersInv, [Next]_vars
    PROVE  CallersInv' \/ Open \/ GdrClose \/ \E t \in Threads : Decisive(t)
<1>1. ASSUME NEW t \in Threads, NEW v \in VMAs, NEW w \in VMAs, NEW k \in 1 .. (vma[v].len - 1)
      PROVE  ~MunmapHead(t, v, w, k) /\ ~MunmapTail(t, v, w, k)
  BY DEF OrderlyCallers, MunmapHead, MunmapTail, MunmapPart
<1>2. ASSUME NEW m \in MRs, CbStart(m) \/ CbLock(m) \/ CbBody(m) PROVE CallersInv'
  <2>1. th' = th /\ UNCHANGED <<file, mr_list, mmap_lock, handles, closing>>
    BY <1>2 DEF CbStart, CbLock, CbBody, info, mm, user
  <2>2. \A v \in VMAs : vma'[v].state = vma[v].state /\ vma'[v].pgoff = vma[v].pgoff
    <3>1. vma' = vma \/ vma' = DestroyMappings(m)
      BY <1>2 DEF CbStart, CbLock, CbBody, mm
    <3> QED  BY <3>1, DestroyFields
  <2>3. \A x \in mr_list : mr'[x].handle = mr[x].handle
    BY <2>1, HandlesStay
  <2> QED  BY <2>1, <2>2, <2>3, CallersFrame
<1>3. ASSUME UNCHANGED vars PROVE CallersInv'
  BY <1>3, CallersFrame DEF vars
<1>4. ASSUME NEW t \in Threads, NEW m \in MRs, PinRefused(t, m) PROVE CallersInv'
  <2>1. /\ th[t].pc = "idle"
        /\ th'[t].pc = "free" /\ th'[t].op = "pin"
        /\ closing = 0
        /\ \A u \in Threads : u # t => th'[u] = th[u]
    BY <1>4, BeginFields DEF PinRefused, MayCall, At
  <2>2. Elsewhere(t)
    BY <2>1 DEF Elsewhere, Plain, MmapPCs, MunmapPCs, UnpinPCs, Creating
  <2>3. UNCHANGED <<file, mr_list, mmap_lock, handles, closing>>
    BY <1>4 DEF PinRefused, MayCall, info, mm, user
  <2>4. vma' = vma
    BY <1>4 DEF PinRefused, MayCall, mm
  <2> QED  BY <2>1, <2>2, <2>3, <2>4, CallersQuiet
<1>5. ASSUME NEW t \in Threads, NEW m \in MRs, NEW n \in Sizes, PinStart(t, m, n) PROVE CallersInv'
  <2>1. /\ th[t].pc = "idle"
        /\ th'[t].pc = "pin_get" /\ th'[t].op = "pin"
        /\ closing = 0
        /\ \A u \in Threads : u # t => th'[u] = th[u]
    BY <1>5, BeginFields DEF PinStart, MayCall, At
  <2>2. Elsewhere(t)
    BY <2>1 DEF Elsewhere, Plain, MmapPCs, MunmapPCs, UnpinPCs, Creating
  <2>3. UNCHANGED <<file, mr_list, mmap_lock, handles, closing>>
    BY <1>5 DEF PinStart, MayCall, info, mm, user
  <2>4. vma' = vma
    BY <1>5 DEF PinStart, MayCall, mm
  <2> QED  BY <2>1, <2>2, <2>3, <2>4, CallersQuiet
<1>6. ASSUME NEW t \in Threads, FreeDropSem(t) PROVE CallersInv'
  <2>1. /\ th[t].pc = "free"
        /\ th'[t].pc \in {"put", "kfree"} /\ th'[t].op = th[t].op
        /\ \A u \in Threads : u # t => th'[u] = th[u]
    BY <1>6, GotoFields DEF FreeDropSem, At
  <2>2. Elsewhere(t)
    BY <2>1 DEF Elsewhere, Plain, MmapPCs, MunmapPCs, UnpinPCs, Creating, CallersInv, OpInv, UserInv
  <2>3. UNCHANGED <<file, mr_list, mmap_lock, handles, closing>>
    BY <1>6 DEF FreeDropSem, info, mm, user
  <2>4. vma' = vma
    BY <1>6 DEF FreeDropSem, mm
  <2> QED  BY <2>1, <2>2, <2>3, <2>4, CallersQuiet
<1>7. ASSUME NEW t \in Threads, PutPages(t) PROVE CallersInv'
  <2>1. /\ th[t].pc = "put"
        /\ th'[t].pc = "kfree" /\ th'[t].op = th[t].op /\ th'[t].h = th[t].h
        /\ \A u \in Threads : u # t => th'[u] = th[u]
    BY <1>7, GotoFields DEF PutPages, At
  <2>2. Elsewhere(t)
    BY <2>1 DEF Elsewhere, Plain, MmapPCs, MunmapPCs, UnpinPCs, Creating, CallersInv, OpInv, UserInv
  <2>3. UNCHANGED <<file, mr_list, mmap_lock, handles, closing>>
    BY <1>7 DEF PutPages, info, mm, user
  <2>4. vma' = vma
    BY <1>7 DEF PutPages, mm
  <2> QED  BY <2>1, <2>2, <2>3, <2>4, CallersQuiet
<1>8. ASSUME NEW t \in Threads, Kfree(t) PROVE CallersInv'
  <2>1. /\ th[t].pc = "kfree"
        /\ th'[t].pc \in {"idle", "rel_next"} /\ th'[t].op \in {"none", "release"}
        /\ th'[t].pc = "idle" => th'[t].op = "none"
        /\ \A u \in Threads : u # t => th'[u] = th[u]
    BY <1>8 DEF Kfree, At, IdleThread, TypeOK
  <2>2. Elsewhere(t)
    BY <2>1 DEF Elsewhere, Plain, MmapPCs, MunmapPCs, UnpinPCs, Creating
  <2>3. UNCHANGED <<file, mr_list, mmap_lock, handles, closing>>
    BY <1>8 DEF Kfree, info, mm, user
  <2>4. vma' = vma
    BY <1>8 DEF Kfree, mm
  <2> QED  BY <2>1, <2>2, <2>3, <2>4, CallersQuiet
<1>9. ASSUME NEW t \in Threads, NEW h, NEW op \in {"get_info", "get_cb_flag"}, ReadStart(t, op, h) PROVE CallersInv'
  <2>1. /\ th[t].pc = "idle"
        /\ th'[t].pc = "read_lock" /\ th'[t].op = op
        /\ closing = 0
        /\ \A u \in Threads : u # t => th'[u] = th[u]
    BY <1>9, BeginFields DEF ReadStart, MayCall, At
  <2>2. Elsewhere(t)
    BY <2>1 DEF Elsewhere, Plain, MmapPCs, MunmapPCs, UnpinPCs, Creating
  <2>3. UNCHANGED <<file, mr_list, mmap_lock, handles, closing>>
    BY <1>9 DEF ReadStart, MayCall, info, mm, user
  <2>4. vma' = vma
    BY <1>9 DEF ReadStart, MayCall, mm
  <2> QED  BY <2>1, <2>2, <2>3, <2>4, CallersQuiet
<1>10. ASSUME NEW t \in Threads, ReadMiss(t) PROVE CallersInv'
  <2>1. /\ th[t].pc = "read_lock"
        /\ th'[t].pc = "idle" /\ th'[t].op = "none"
        /\ \A u \in Threads : u # t => th'[u] = th[u]
    BY <1>10, ReturnFrame DEF ReadMiss, LookupMiss, At
  <2>2. Elsewhere(t)
    BY <2>1 DEF Elsewhere, Plain, MmapPCs, MunmapPCs, UnpinPCs, Creating
  <2>3. UNCHANGED <<file, mr_list, mmap_lock, handles, closing>>
    BY <1>10 DEF ReadMiss, LookupMiss, info, mm, user
  <2>4. vma' = vma
    BY <1>10 DEF ReadMiss, LookupMiss, mm
  <2> QED  BY <2>1, <2>2, <2>3, <2>4, CallersQuiet
<1>11. ASSUME NEW t \in Threads, ReadSem(t) PROVE CallersInv'
  <2>1. /\ th[t].pc = "read_sem"
        /\ th'[t].pc = "read_body" /\ th'[t].op = th[t].op /\ th'[t].h = th[t].h
        /\ \A u \in Threads : u # t => th'[u] = th[u]
    BY <1>11, GotoFields DEF ReadSem, At
  <2>2. Elsewhere(t)
    BY <2>1 DEF Elsewhere, Plain, MmapPCs, MunmapPCs, UnpinPCs, Creating, CallersInv, OpInv, UserInv
  <2>3. UNCHANGED <<file, mr_list, mmap_lock, handles, closing>>
    BY <1>11 DEF ReadSem, info, mm, user
  <2>4. vma' = vma
    BY <1>11 DEF ReadSem, mm
  <2> QED  BY <2>1, <2>2, <2>3, <2>4, CallersQuiet
<1>12. ASSUME NEW t \in Threads, ReadBody(t) PROVE CallersInv'
  <2>1. /\ th[t].pc = "read_body"
        /\ th'[t].pc = "read_copy" /\ th'[t].op = th[t].op
        /\ \A u \in Threads : u # t => th'[u] = th[u]
    BY <1>12 DEF ReadBody, At, TypeOK, Thread
  <2>2. Elsewhere(t)
    BY <2>1 DEF Elsewhere, Plain, MmapPCs, MunmapPCs, UnpinPCs, Creating, CallersInv, OpInv, UserInv
  <2>3. UNCHANGED <<file, mr_list, mmap_lock, handles, closing>>
    BY <1>12 DEF ReadBody, info, mm, user
  <2>4. vma' = vma
    BY <1>12 DEF ReadBody, mm
  <2> QED  BY <2>1, <2>2, <2>3, <2>4, CallersQuiet
<1>13. ASSUME NEW t \in Threads, ReadCopyToUser(t) PROVE CallersInv'
  <2>1. /\ th[t].pc = "read_copy"
        /\ th'[t].pc = "idle" /\ th'[t].op = "none"
        /\ \A u \in Threads : u # t => th'[u] = th[u]
    BY <1>13, ReturnFrame DEF ReadCopyToUser, At
  <2>2. Elsewhere(t)
    BY <2>1 DEF Elsewhere, Plain, MmapPCs, MunmapPCs, UnpinPCs, Creating
  <2>3. UNCHANGED <<file, mr_list, mmap_lock, handles, closing>>
    BY <1>13 DEF ReadCopyToUser, info, mm, user
  <2>4. vma' = vma
    BY <1>13 DEF ReadCopyToUser, mm
  <2> QED  BY <2>1, <2>2, <2>3, <2>4, CallersQuiet
<1>14. ASSUME NEW t \in Threads, NEW h, ReqStart(t, h) PROVE CallersInv'
  <2>1. /\ th[t].pc = "idle"
        /\ th'[t].pc = "req_lock" /\ th'[t].op = "req_type"
        /\ closing = 0
        /\ \A u \in Threads : u # t => th'[u] = th[u]
    BY <1>14, BeginFields DEF ReqStart, MayCall, At
  <2>2. Elsewhere(t)
    BY <2>1 DEF Elsewhere, Plain, MmapPCs, MunmapPCs, UnpinPCs, Creating
  <2>3. UNCHANGED <<file, mr_list, mmap_lock, handles, closing>>
    BY <1>14 DEF ReqStart, MayCall, info, mm, user
  <2>4. vma' = vma
    BY <1>14 DEF ReqStart, MayCall, mm
  <2> QED  BY <2>1, <2>2, <2>3, <2>4, CallersQuiet
<1>15. ASSUME NEW t \in Threads, ReqMiss(t) PROVE CallersInv'
  <2>1. /\ th[t].pc = "req_lock"
        /\ th'[t].pc = "idle" /\ th'[t].op = "none"
        /\ \A u \in Threads : u # t => th'[u] = th[u]
    BY <1>15, ReturnFrame DEF ReqMiss, LookupMiss, At
  <2>2. Elsewhere(t)
    BY <2>1 DEF Elsewhere, Plain, MmapPCs, MunmapPCs, UnpinPCs, Creating
  <2>3. UNCHANGED <<file, mr_list, mmap_lock, handles, closing>>
    BY <1>15 DEF ReqMiss, LookupMiss, info, mm, user
  <2>4. vma' = vma
    BY <1>15 DEF ReqMiss, LookupMiss, mm
  <2> QED  BY <2>1, <2>2, <2>3, <2>4, CallersQuiet
<1>16. ASSUME NEW t \in Threads, ReqSem(t) PROVE CallersInv'
  <2>1. /\ th[t].pc = "req_sem"
        /\ th'[t].pc = "req_body" /\ th'[t].op = th[t].op /\ th'[t].h = th[t].h
        /\ \A u \in Threads : u # t => th'[u] = th[u]
    BY <1>16, GotoFields DEF ReqSem, SemWrite, At
  <2>2. Elsewhere(t)
    BY <2>1 DEF Elsewhere, Plain, MmapPCs, MunmapPCs, UnpinPCs, Creating, CallersInv, OpInv, UserInv
  <2>3. UNCHANGED <<file, mr_list, mmap_lock, handles, closing>>
    BY <1>16 DEF ReqSem, SemWrite, info, mm, user
  <2>4. vma' = vma
    BY <1>16 DEF ReqSem, SemWrite, mm
  <2> QED  BY <2>1, <2>2, <2>3, <2>4, CallersQuiet
<1>17. ASSUME NEW t \in Threads, NEW type \in MappingTypes, ReqBody(t, type) PROVE CallersInv'
  <2>1. /\ th[t].pc = "req_body"
        /\ th'[t].pc = "idle" /\ th'[t].op = "none"
        /\ \A u \in Threads : u # t => th'[u] = th[u]
    BY <1>17, ReturnFrame DEF ReqBody, At
  <2>2. Elsewhere(t)
    BY <2>1 DEF Elsewhere, Plain, MmapPCs, MunmapPCs, UnpinPCs, Creating
  <2>3. UNCHANGED <<file, mr_list, mmap_lock, handles, closing>>
    BY <1>17 DEF ReqBody, info, mm, user
  <2>4. vma' = vma
    BY <1>17 DEF ReqBody, mm
  <2> QED  BY <2>1, <2>2, <2>3, <2>4, CallersQuiet
<1>18. ASSUME NEW t \in Threads, NEW m \in MRs, RelPick(t, m) PROVE CallersInv'
  <2>1. /\ th[t].pc = "rel_next"
        /\ th'[t].pc = "rel_sem" /\ th'[t].op = th[t].op
        /\ \A u \in Threads : u # t => th'[u] = th[u]
    BY <1>18 DEF RelPick, At, TypeOK, Thread
  <2>2. Elsewhere(t)
    BY <2>1 DEF Elsewhere, Plain, MmapPCs, MunmapPCs, UnpinPCs, Creating, CallersInv, OpInv, UserInv
  <2>3. UNCHANGED <<file, mr_list, mmap_lock, handles, closing>>
    BY <1>18 DEF RelPick, info, mm, user
  <2>4. vma' = vma
    BY <1>18 DEF RelPick, mm
  <2> QED  BY <2>1, <2>2, <2>3, <2>4, CallersQuiet
<1>19. ASSUME NEW t \in Threads, NEW ram \in RamPages, PinGetPages(t, ram) PROVE CallersInv'
  <2>1. /\ th[t].pc = "pin_get"
        /\ th'[t].pc = "pin_check" /\ th'[t].op = th[t].op /\ th'[t].h = th[t].h
        /\ th'[t].mr = th[t].mr /\ th'[t].vma = th[t].vma
        /\ \A u \in Threads : u # t => th'[u] = th[u]
    BY <1>19, GotoFields DEF PinGetPages, At
  <2>2. GoesOn(t)
    BY <2>1 DEF GoesOn, ExactPCs, MmapPCs, MunmapPCs, UnpinPCs, Creating
  <2>3. UNCHANGED <<file, mr_list, mmap_lock, handles, closing>>
    BY <1>19 DEF PinGetPages, info, mm, user
  <2>4. vma' = vma
    BY <1>19 DEF PinGetPages, mm
  <2> QED  BY <2>1, <2>2, <2>3, <2>4, CallersQuiet
<1>20. ASSUME NEW t \in Threads, PinGetPagesFails(t) PROVE CallersInv'
  <2>1. /\ th[t].pc = "pin_get"
        /\ th'[t].pc = "free" /\ th'[t].op = th[t].op /\ th'[t].h = th[t].h
        /\ th'[t].mr = th[t].mr /\ th'[t].vma = th[t].vma
        /\ \A u \in Threads : u # t => th'[u] = th[u]
    BY <1>20, GotoFields DEF PinGetPagesFails, At
  <2>2. GoesOn(t)
    BY <2>1 DEF GoesOn, ExactPCs, MmapPCs, MunmapPCs, UnpinPCs, Creating
  <2>3. UNCHANGED <<file, mr_list, mmap_lock, handles, closing>>
    BY <1>20 DEF PinGetPagesFails, info, mm, user
  <2>4. vma' = vma
    BY <1>20 DEF PinGetPagesFails, mm
  <2> QED  BY <2>1, <2>2, <2>3, <2>4, CallersQuiet
<1>21. ASSUME NEW t \in Threads, PinBadPageTable(t) PROVE CallersInv'
  <2>1. /\ th[t].pc = "pin_check"
        /\ th'[t].pc = "free" /\ th'[t].op = th[t].op /\ th'[t].h = th[t].h
        /\ th'[t].mr = th[t].mr /\ th'[t].vma = th[t].vma
        /\ \A u \in Threads : u # t => th'[u] = th[u]
    BY <1>21, GotoFields DEF PinBadPageTable, At
  <2>2. GoesOn(t)
    BY <2>1 DEF GoesOn, ExactPCs, MmapPCs, MunmapPCs, UnpinPCs, Creating
  <2>3. UNCHANGED <<file, mr_list, mmap_lock, handles, closing>>
    BY <1>21 DEF PinBadPageTable, info, mm, user
  <2>4. vma' = vma
    BY <1>21 DEF PinBadPageTable, mm
  <2> QED  BY <2>1, <2>2, <2>3, <2>4, CallersQuiet
<1>22. ASSUME NEW t \in Threads, PinLock(t) PROVE CallersInv'
  <2>1. /\ th[t].pc = "pin_check"
        /\ th'[t].pc = "pin_publish" /\ th'[t].op = th[t].op /\ th'[t].h = th[t].h
        /\ th'[t].mr = th[t].mr /\ th'[t].vma = th[t].vma
        /\ \A u \in Threads : u # t => th'[u] = th[u]
    BY <1>22, GotoFields DEF PinLock, At
  <2>2. GoesOn(t)
    BY <2>1 DEF GoesOn, ExactPCs, MmapPCs, MunmapPCs, UnpinPCs, Creating
  <2>3. UNCHANGED <<file, mr_list, mmap_lock, handles, closing>>
    BY <1>22 DEF PinLock, info, mm, user
  <2>4. vma' = vma
    BY <1>22 DEF PinLock, mm
  <2> QED  BY <2>1, <2>2, <2>3, <2>4, CallersQuiet
<1>23. ASSUME NEW t \in Threads, PinNoHandle(t) PROVE CallersInv'
  <2>1. /\ th[t].pc = "pin_publish"
        /\ th'[t].pc = "free" /\ th'[t].op = th[t].op /\ th'[t].h = th[t].h
        /\ th'[t].mr = th[t].mr /\ th'[t].vma = th[t].vma
        /\ \A u \in Threads : u # t => th'[u] = th[u]
    BY <1>23, GotoFields DEF PinNoHandle, At
  <2>2. GoesOn(t)
    BY <2>1 DEF GoesOn, ExactPCs, MmapPCs, MunmapPCs, UnpinPCs, Creating
  <2>3. UNCHANGED <<file, mr_list, mmap_lock, handles, closing>>
    BY <1>23 DEF PinNoHandle, info, mm, user
  <2>4. vma' = vma
    BY <1>23 DEF PinNoHandle, mm
  <2> QED  BY <2>1, <2>2, <2>3, <2>4, CallersQuiet
<1>24. ASSUME NEW t \in Threads, PinCopyFails(t) PROVE CallersInv'
  <2>1. /\ th[t].pc = "pin_copy"
        /\ th'[t].pc = "unpin_lock" /\ th'[t].op = th[t].op /\ th'[t].h = th[t].h
        /\ th'[t].mr = th[t].mr /\ th'[t].vma = th[t].vma
        /\ \A u \in Threads : u # t => th'[u] = th[u]
    BY <1>24, GotoFields DEF PinCopyFails, At
  <2>2. GoesOn(t)
    BY <2>1 DEF GoesOn, ExactPCs, MmapPCs, MunmapPCs, UnpinPCs, Creating
  <2>3. UNCHANGED <<file, mr_list, mmap_lock, handles, closing>>
    BY <1>24 DEF PinCopyFails, info, mm, user
  <2>4. vma' = vma
    BY <1>24 DEF PinCopyFails, mm
  <2> QED  BY <2>1, <2>2, <2>3, <2>4, CallersQuiet
<1>25. ASSUME NEW t \in Threads, MmapMiss(t) PROVE CallersInv'
  <2>1. /\ th[t].pc = "mmap_lock"
        /\ th'[t].pc = "mmap_undo" /\ th'[t].op = th[t].op /\ th'[t].h = th[t].h
        /\ th'[t].mr = th[t].mr /\ th'[t].vma = th[t].vma
        /\ \A u \in Threads : u # t => th'[u] = th[u]
    BY <1>25, GotoFields DEF MmapMiss, LookupMiss, At
  <2>2. GoesOn(t)
    BY <2>1 DEF GoesOn, ExactPCs, MmapPCs, MunmapPCs, UnpinPCs, Creating
  <2>3. UNCHANGED <<file, mr_list, mmap_lock, handles, closing>>
    BY <1>25 DEF MmapMiss, LookupMiss, info, mm, user
  <2>4. vma' = vma
    BY <1>25 DEF MmapMiss, LookupMiss, mm
  <2> QED  BY <2>1, <2>2, <2>3, <2>4, CallersQuiet
<1>26. ASSUME NEW t \in Threads, MmapSem(t) PROVE CallersInv'
  <2>1. /\ th[t].pc = "mmap_sem"
        /\ th'[t].pc = "mmap_body" /\ th'[t].op = th[t].op /\ th'[t].h = th[t].h
        /\ th'[t].mr = th[t].mr /\ th'[t].vma = th[t].vma
        /\ \A u \in Threads : u # t => th'[u] = th[u]
    BY <1>26, GotoFields DEF MmapSem, SemWrite, At
  <2>2. th[t].mr \in mr_list /\ mr[th[t].mr].handle = th[t].h
    BY <2>1 DEF SafeInv, ListedInv, Waiting, CallersInv, ExactInv
  <2>3. GoesOn(t)
    BY <2>1, <2>2 DEF GoesOn, ExactPCs, MmapPCs, MunmapPCs, UnpinPCs, Creating
  <2>4. UNCHANGED <<file, mr_list, mmap_lock, handles, closing>>
    BY <1>26 DEF MmapSem, SemWrite, info, mm, user
  <2>5. vma' = vma
    BY <1>26 DEF MmapSem, SemWrite, mm
  <2> QED  BY <2>1, <2>3, <2>4, <2>5, CallersQuiet
<1>27. ASSUME NEW t \in Threads, CloseMiss(t) PROVE CallersInv'
  <2>1. /\ th[t].pc = "close_lock"
        /\ th'[t].pc = "munmap_end" /\ th'[t].op = th[t].op /\ th'[t].h = th[t].h
        /\ th'[t].mr = th[t].mr /\ th'[t].vma = th[t].vma
        /\ \A u \in Threads : u # t => th'[u] = th[u]
    BY <1>27, GotoFields DEF CloseMiss, LookupMiss, At
  <2>2. GoesOn(t)
    BY <2>1 DEF GoesOn, ExactPCs, MmapPCs, MunmapPCs, UnpinPCs, Creating
  <2>3. UNCHANGED <<file, mr_list, mmap_lock, handles, closing>>
    BY <1>27 DEF CloseMiss, LookupMiss, info, mm, user
  <2>4. vma' = vma
    BY <1>27 DEF CloseMiss, LookupMiss, mm
  <2> QED  BY <2>1, <2>2, <2>3, <2>4, CallersQuiet
<1>28. ASSUME NEW t \in Threads, CloseSem(t) PROVE CallersInv'
  <2>1. /\ th[t].pc = "close_sem"
        /\ th'[t].pc = "close_body" /\ th'[t].op = th[t].op /\ th'[t].h = th[t].h
        /\ th'[t].mr = th[t].mr /\ th'[t].vma = th[t].vma
        /\ \A u \in Threads : u # t => th'[u] = th[u]
    BY <1>28, GotoFields DEF CloseSem, SemWrite, At
  <2>2. th[t].mr \in mr_list /\ mr[th[t].mr].handle = th[t].h
    BY <2>1 DEF SafeInv, ListedInv, Waiting, CallersInv, ExactInv
  <2>3. GoesOn(t)
    BY <2>1, <2>2 DEF GoesOn, ExactPCs, MmapPCs, MunmapPCs, UnpinPCs, Creating
  <2>4. UNCHANGED <<file, mr_list, mmap_lock, handles, closing>>
    BY <1>28 DEF CloseSem, SemWrite, info, mm, user
  <2>5. vma' = vma
    BY <1>28 DEF CloseSem, SemWrite, mm
  <2> QED  BY <2>1, <2>3, <2>4, <2>5, CallersQuiet
<1>29. ASSUME NEW t \in Threads, MmapRefused(t) PROVE CallersInv'
  <2>1. /\ th[t].pc = "mmap_body"
        /\ th'[t].pc = "mmap_undo" /\ th'[t].op = th[t].op /\ th'[t].h = th[t].h
        /\ th'[t].mr = th[t].mr /\ th'[t].vma = th[t].vma
        /\ \A u \in Threads : u # t => th'[u] = th[u]
    BY <1>29, GotoFields DEF MmapRefused, MmapClear, At
  <2>2. GoesOn(t)
    BY <2>1 DEF GoesOn, ExactPCs, MmapPCs, MunmapPCs, UnpinPCs, Creating
  <2>3. UNCHANGED <<file, mr_list, mmap_lock, handles, closing>>
    BY <1>29 DEF MmapRefused, MmapClear, info, mm, user
  <2>4. vma' = vma
    BY <1>29 DEF MmapRefused, MmapClear, mm
  <2> QED  BY <2>1, <2>2, <2>3, <2>4, CallersQuiet
<1>30. ASSUME NEW t \in Threads, NEW k \in Sizes \cup {0}, MmapFails(t, k) PROVE CallersInv'
  <2>1. /\ th[t].pc = "mmap_body"
        /\ th'[t].pc = "mmap_undo" /\ th'[t].op = th[t].op /\ th'[t].h = th[t].h
        /\ th'[t].mr = th[t].mr /\ th'[t].vma = th[t].vma
        /\ \A u \in Threads : u # t => th'[u] = th[u]
    BY <1>30, GotoFields DEF MmapFails, MmapClear, At
  <2>2. GoesOn(t)
    BY <2>1 DEF GoesOn, ExactPCs, MmapPCs, MunmapPCs, UnpinPCs, Creating
  <2>3. UNCHANGED <<file, mr_list, mmap_lock, handles, closing>>
    BY <1>30 DEF MmapFails, MmapClear, info, mm, user
  <2>4. \A v \in VMAs : vma'[v].state = vma[v].state /\ vma'[v].pgoff = vma[v].pgoff
    BY <1>30 DEF MmapFails, MmapClear, TypeOK, VMA
  <2> QED  BY <2>1, <2>2, <2>3, <2>4, CallersQuiet
<1>31. ASSUME NEW t \in Threads, MmapMaps(t) PROVE CallersInv'
  <2>1. /\ th[t].pc = "mmap_body"
        /\ th'[t].pc = "mmap_link" /\ th'[t].op = th[t].op /\ th'[t].h = th[t].h
        /\ th'[t].mr = th[t].mr /\ th'[t].vma = th[t].vma
        /\ \A u \in Threads : u # t => th'[u] = th[u]
    BY <1>31, GotoFields DEF MmapMaps, At
  <2>2. GoesOn(t)
    BY <2>1 DEF GoesOn, ExactPCs, MmapPCs, MunmapPCs, UnpinPCs, Creating
  <2>3. UNCHANGED <<file, mr_list, mmap_lock, handles, closing>>
    BY <1>31 DEF MmapMaps, info, mm, user
  <2>4. \A v \in VMAs : vma'[v].state = vma[v].state /\ vma'[v].pgoff = vma[v].pgoff
    BY <1>31 DEF MmapMaps, TypeOK, VMA
  <2> QED  BY <2>1, <2>2, <2>3, <2>4, CallersQuiet
<1>32. ASSUME NEW t \in Threads, gdrdrv_vma_close(t) PROVE CallersInv'
  <2>1. /\ th[t].pc = "close_body"
        /\ th'[t].pc = "munmap_end" /\ th'[t].op = th[t].op /\ th'[t].h = th[t].h
        /\ th'[t].mr = th[t].mr /\ th'[t].vma = th[t].vma
        /\ \A u \in Threads : u # t => th'[u] = th[u]
    BY <1>32, GotoFields DEF gdrdrv_vma_close, At
  <2>2. GoesOn(t)
    BY <2>1 DEF GoesOn, ExactPCs, MmapPCs, MunmapPCs, UnpinPCs, Creating
  <2>3. UNCHANGED <<file, mr_list, mmap_lock, handles, closing>>
    BY <1>32 DEF gdrdrv_vma_close, info, mm, user
  <2>4. vma' = vma
    BY <1>32 DEF gdrdrv_vma_close, mm
  <2> QED  BY <2>1, <2>2, <2>3, <2>4, CallersQuiet
<1>33. ASSUME NEW t \in Threads, UnpinLookup(t) PROVE CallersInv'
  <2>1. /\ th[t].pc = "unpin_lock"
        /\ th'[t].pc = "unpin_sem" /\ th'[t].op = th[t].op /\ th'[t].h = th[t].h
        /\ th'[t].mr = gdr_mr_from_handle_unlocked(th[t].h) /\ th'[t].vma = th[t].vma
        /\ \A u \in Threads : u # t => th'[u] = th[u]
    BY <1>33 DEF UnpinLookup, LookupHit, At, TypeOK, Thread
  <2>2. \E m \in mr_list : mr[m].handle = th[t].h
    BY <2>1 DEF CallersInv, HandlesInv, UnpinPCs
  <2>3. th'[t].mr \in mr_list /\ mr[th'[t].mr].handle = th[t].h
    BY <2>1, <2>2, LookupExact
  <2>4. GoesOn(t)
    BY <2>1, <2>3 DEF GoesOn, ExactPCs, MmapPCs, MunmapPCs, UnpinPCs, Creating
  <2>5. UNCHANGED <<file, mr_list, mmap_lock, handles, closing>>
    BY <1>33 DEF UnpinLookup, LookupHit, info, mm, user
  <2>6. vma' = vma
    BY <1>33 DEF UnpinLookup, LookupHit, mm
  <2> QED  BY <2>1, <2>4, <2>5, <2>6, CallersQuiet
<1>34. ASSUME NEW t \in Threads, ReadLookup(t) PROVE CallersInv'
  <2>1. /\ th[t].pc = "read_lock"
        /\ th'[t].pc = "read_sem" /\ th'[t].op = th[t].op /\ th'[t].h = th[t].h
        /\ \A u \in Threads : u # t => th'[u] = th[u]
    BY <1>34 DEF ReadLookup, LookupHit, At, TypeOK, Thread
  <2>2. Elsewhere(t)
    BY <2>1 DEF Elsewhere, Plain, MmapPCs, MunmapPCs, UnpinPCs, Creating, CallersInv, OpInv, UserInv
  <2>3. UNCHANGED <<file, mr_list, mmap_lock, handles, closing>>
    BY <1>34 DEF ReadLookup, LookupHit, info, mm, user
  <2>4. vma' = vma
    BY <1>34 DEF ReadLookup, LookupHit, mm
  <2> QED  BY <2>1, <2>2, <2>3, <2>4, CallersQuiet
<1>35. ASSUME NEW t \in Threads, ReqLookup(t) PROVE CallersInv'
  <2>1. /\ th[t].pc = "req_lock"
        /\ th'[t].pc = "req_sem" /\ th'[t].op = th[t].op /\ th'[t].h = th[t].h
        /\ \A u \in Threads : u # t => th'[u] = th[u]
    BY <1>35 DEF ReqLookup, LookupHit, At, TypeOK, Thread
  <2>2. Elsewhere(t)
    BY <2>1 DEF Elsewhere, Plain, MmapPCs, MunmapPCs, UnpinPCs, Creating, CallersInv, OpInv, UserInv
  <2>3. UNCHANGED <<file, mr_list, mmap_lock, handles, closing>>
    BY <1>35 DEF ReqLookup, LookupHit, info, mm, user
  <2>4. vma' = vma
    BY <1>35 DEF ReqLookup, LookupHit, mm
  <2> QED  BY <2>1, <2>2, <2>3, <2>4, CallersQuiet
<1>36. ASSUME NEW t \in Threads, MmapLookup(t) PROVE CallersInv'
  <2>1. /\ th[t].pc = "mmap_lock"
        /\ th'[t].pc = "mmap_sem" /\ th'[t].op = th[t].op /\ th'[t].h = th[t].h
        /\ th'[t].mr = gdr_mr_from_handle_unlocked(th[t].h) /\ th'[t].vma = th[t].vma
        /\ \A u \in Threads : u # t => th'[u] = th[u]
    BY <1>36 DEF MmapLookup, LookupHit, At, TypeOK, Thread
  <2>2. \E m \in mr_list : mr[m].handle = th[t].h
    BY <2>1 DEF CallersInv, HandlesInv, UserInv, MmapPCs
  <2>3. th'[t].mr \in mr_list /\ mr[th'[t].mr].handle = th[t].h
    BY <2>1, <2>2, LookupExact
  <2>4. GoesOn(t)
    BY <2>1, <2>3 DEF GoesOn, ExactPCs, MmapPCs, MunmapPCs, UnpinPCs, Creating
  <2>5. UNCHANGED <<file, mr_list, mmap_lock, handles, closing>>
    BY <1>36 DEF MmapLookup, LookupHit, info, mm, user
  <2>6. vma' = vma
    BY <1>36 DEF MmapLookup, LookupHit, mm
  <2> QED  BY <2>1, <2>4, <2>5, <2>6, CallersQuiet
<1>37. ASSUME NEW t \in Threads, CloseLookup(t) PROVE CallersInv'
  <2>1. /\ th[t].pc = "close_lock"
        /\ th'[t].pc = "close_sem" /\ th'[t].op = th[t].op /\ th'[t].h = th[t].h
        /\ th'[t].mr = gdr_mr_from_handle_unlocked(th[t].h) /\ th'[t].vma = th[t].vma
        /\ \A u \in Threads : u # t => th'[u] = th[u]
    BY <1>37 DEF CloseLookup, LookupHit, At, TypeOK, Thread
  <2>2. \E m \in mr_list : mr[m].handle = th[t].h
    BY <1>37, <2>1, LookupNone DEF CloseLookup, LookupHit, CallersInv, HandlesInv, UserInv, MunmapPCs
  <2>3. th'[t].mr \in mr_list /\ mr[th'[t].mr].handle = th[t].h
    BY <2>1, <2>2, LookupExact
  <2>4. GoesOn(t)
    BY <2>1, <2>3 DEF GoesOn, ExactPCs, MmapPCs, MunmapPCs, UnpinPCs, Creating
  <2>5. UNCHANGED <<file, mr_list, mmap_lock, handles, closing>>
    BY <1>37 DEF CloseLookup, LookupHit, info, mm, user
  <2>6. vma' = vma
    BY <1>37 DEF CloseLookup, LookupHit, mm
  <2> QED  BY <2>1, <2>4, <2>5, <2>6, CallersQuiet
<1>38. ASSUME NEW t \in Threads, CallStart(t) PROVE CallersInv' \/ Decisive(t)
  BY <1>38, <1>1, <1>4, <1>5, <1>9, <1>14 DEF CallStart, Decisive
<1>39. ASSUME NEW t \in Threads, CallStep(t) PROVE CallersInv' \/ Decisive(t)
  BY <1>39, <1>6, <1>7, <1>8, <1>10, <1>11, <1>12, <1>13, <1>15, <1>16, <1>17, <1>18, <1>19, <1>20, <1>21, <1>22, <1>23, <1>24, <1>25, <1>26, <1>27, <1>28, <1>29, <1>30, <1>31, <1>32, <1>33, <1>34, <1>35, <1>36, <1>37
     DEF CallStep, Decisive
<1> QED  BY <1>2, <1>3, <1>38, <1>39 DEF Next, CallbackStep

\* mmap and munmap exclude each other, and every other call on a file that is being released.
LEMMA Exclusive ==
    ASSUME TypeOK, CallersInv
    PROVE  /\ mmap_lock = None => \A u \in Threads : th[u].pc \notin MmapPCs \cup MunmapPCs
           /\ \A t, u \in Threads : t # u /\ th[t].pc \in MmapPCs \cup MunmapPCs
                 => th[u].pc \notin MmapPCs \cup MunmapPCs
BY NullAssumption DEF CallersInv, OpInv

\* While the file is not open, release is the only call.
LEMMA NoCallOnRelease ==
    ASSUME TypeOK, SafeInv, NEW u \in Threads, file # "open"
    PROVE  th[u].pc \in {"idle", "rel_next", "rel_sem", "free", "put", "kfree"}
BY DEF SafeInv, FileInv, InfoInv, Freeing, TypeOK

\* The decisive steps keep CallersInv: opening, closing and releasing the file, ...
LEMMA FileCallers ==
    ASSUME OrderlyCallers, TypeOK, SafeInv, CallersInv, [Next]_vars,
           Open \/ GdrClose \/ \E t \in Threads : RelStart(t) \/ RelRemove(t) \/ RelDone(t)
    PROVE  CallersInv'
<1> USE DEF MmapPCs, MunmapPCs, UnpinPCs, Creating
<1>1. ASSUME Open PROVE CallersInv'
  <2>1. /\ file = "closed" /\ handles = {} /\ mr_list' = {}
        /\ UNCHANGED <<vma, mmap_lock, th, handles, closing>>
    BY <1>1 DEF Open, mm, user, CallersInv, HandlesInv
  <2>2. (\A u \in Threads : th[u].pc = "idle") /\ (\A v \in VMAs : vma[v].state = "free")
    BY <2>1 DEF SafeInv, FileInv, CallersInv, VmaInv
  <2> QED  BY <2>1, <2>2 DEF CallersInv, OpInv, HandlesInv, KnownInv, ExactInv, UserInv, VmaInv
<1>2. ASSUME GdrClose PROVE CallersInv'
  <2>1. /\ \A u \in Threads : th[u].pc = "idle" /\ th[u].op = "none"
        /\ closing' = 1
        /\ UNCHANGED <<file, mr_list, mr, vma, mmap_lock, th, handles>>
    BY <1>2 DEF GdrClose, AllIdle, At, info, mm, CallersInv, OpInv
  <2> QED  BY <2>1 DEF CallersInv, OpInv, HandlesInv, KnownInv, ExactInv, UserInv, VmaInv
<1>3. ASSUME NEW t \in Threads, RelStart(t) PROVE CallersInv'
  <2>1. /\ \A u \in Threads : th[u].pc = "idle" /\ th[u].op = "none"
        /\ th'[t].pc = "rel_next" /\ th'[t].op = "release"
        /\ \A u \in Threads : u # t => th'[u] = th[u]
        /\ \A v \in VMAs : vma[v].state = "free"
        /\ file' = "release" /\ handles' = {}
        /\ UNCHANGED <<mr_list, mr, vma, mmap_lock, closing>>
    BY <1>3, BeginFields DEF RelStart, AllIdle, At, mm, CallersInv, OpInv
  <2>2. \A u \in Threads : th'[u].pc \in {"idle", "rel_next"} /\ th'[u].op \in {"none", "release"}
    BY <2>1
  <2>3. OpInv'
    BY <2>1 DEF CallersInv, OpInv
  <2>4. HandlesInv' /\ KnownInv' /\ ExactInv' /\ UserInv' /\ VmaInv'
    BY <2>1, <2>2 DEF HandlesInv, KnownInv, ExactInv, UserInv, VmaInv
  <2> QED  BY <2>3, <2>4 DEF CallersInv
<1>4. ASSUME NEW t \in Threads, RelRemove(t) \/ RelDone(t) PROVE CallersInv'
  <2>1. th[t].pc \in {"rel_sem", "rel_next"} /\ file = "release"
    BY <1>4 DEF RelRemove, RelDone, At, SafeInv, InfoInv, FileInv
  <2>2. /\ \A u \in Threads : th[u].pc \in {"idle", "rel_next", "rel_sem", "free", "put", "kfree"}
        /\ \A v \in VMAs : vma[v].state = "free"
        /\ handles = {}
    BY <2>1, NoCallOnRelease DEF CallersInv, VmaInv, HandlesInv
  <2>3. /\ th'[t].pc \in {"free", "idle"}
        /\ th'[t].op = th[t].op \/ th'[t].op = "none"
        /\ th'[t].pc = "idle" => th'[t].op = "none"
        /\ \A u \in Threads : u # t => th'[u] = th[u]
    BY <1>4, GotoFields, ReturnFrame DEF RelRemove, RelDone
  <2>4. file' # "open" /\ UNCHANGED <<mmap_lock, handles>> /\ (closing' = closing \/ closing' = 0)
    BY <1>4, <2>1 DEF RelRemove, RelDone, mm, user
  <2>5. \A v \in VMAs : vma'[v].state = "free"
    BY <1>4, <2>2, DestroyFields DEF RelRemove, RelDone, mm
  <2>6. \A u \in Threads : th'[u].pc \in {"idle", "rel_next", "rel_sem", "free", "put", "kfree"}
    BY <2>2, <2>3
  <2>7. OpInv'
    BY <2>2, <2>3, <2>4 DEF CallersInv, OpInv
  <2>8. UserInv'
    BY <2>2, <2>3, <2>4, <2>6 DEF CallersInv, UserInv
  <2>9. HandlesInv' /\ KnownInv' /\ ExactInv' /\ VmaInv'
    BY <2>2, <2>4, <2>5, <2>6 DEF HandlesInv, KnownInv, ExactInv, VmaInv
  <2> QED  BY <2>7, <2>8, <2>9 DEF CallersInv
<1> QED  BY <1>1, <1>2, <1>3, <1>4

\* ... making, mapping and closing a VMA, ...
LEMMA VmaCallers ==
    ASSUME OrderlyCallers, TypeOK, SafeInv, CallersInv, [Next]_vars, NEW t \in Threads,
           \/ \E h \in AnyHandle, v \in VMAs, n \in Sizes \ {0} : MmapStart(t, h, v, n)
           \/ \E v \in VMAs : MunmapStart(t, v)
           \/ MmapLink(t) \/ MmapUndo(t) \/ MunmapEnd(t)
    PROVE  CallersInv'
<1> USE DEF MmapPCs, MunmapPCs, UnpinPCs, Creating
<1>1. UNCHANGED <<file, mr_list, mr, handles, closing>>
  BY DEF MmapStart, MunmapStart, MmapLink, MmapUndo, MunmapEnd, info, user
<1>2. \A u \in Threads : u # t => th'[u] = th[u] /\ th[u].pc \notin MmapPCs \cup MunmapPCs
  <2>1. CASE \E h \in AnyHandle, v \in VMAs, n \in Sizes \ {0} : MmapStart(t, h, v, n)
    <3>1. mmap_lock = None /\ \A u \in Threads : u # t => th'[u] = th[u]
      BY <2>1, BeginFields DEF MmapStart
    <3> QED  BY <3>1, Exclusive
  <2>2. CASE \E v \in VMAs : MunmapStart(t, v)
    <3>1. mmap_lock = None /\ \A u \in Threads : u # t => th'[u] = th[u]
      BY <2>2, BeginFields DEF MunmapStart, MayUnmap
    <3> QED  BY <3>1, Exclusive
  <2>3. CASE MmapLink(t) \/ MmapUndo(t) \/ MunmapEnd(t)
    <3>1. th[t].pc \in MmapPCs \cup MunmapPCs /\ \A u \in Threads : u # t => th'[u] = th[u]
      BY <2>3, ReturnFrame DEF MmapLink, MmapUndo, MunmapEnd, At
    <3> QED  BY <3>1, Exclusive
  <2> QED  BY <2>1, <2>2, <2>3
<1>3. ASSUME NEW h \in AnyHandle, NEW v \in VMAs, NEW n \in Sizes \ {0}, MmapStart(t, h, v, n)
      PROVE  CallersInv'
  <2>1. /\ th[t].pc = "idle"
        /\ th'[t].pc = "mmap_lock" /\ th'[t].op = "mmap" /\ th'[t].h = h /\ th'[t].vma = v
        /\ file = "open" /\ closing = 0 /\ h \in handles
        /\ \A w \in VMAs : vma[w].state # "free" => vma[w].pgoff # h
        /\ mmap_lock' = t
    <3>1. th'[t].pc = "mmap_lock" /\ th'[t].op = "mmap" /\ th'[t].h = h /\ th'[t].vma = v
      <4>1. Begin(t, "mmap", "mmap_lock", h, None, v)
        BY <1>3 DEF MmapStart
      <4> QED  BY <4>1, BeginFields
    <3>2. MayCall(t, "mmap") /\ MayUse(h) /\ closing = 0 /\ (MappedAt(h) => "Remap" \in Liberties) /\ mmap_lock' = t
      BY <1>3 DEF MmapStart
    <3> QED  BY <3>1, <3>2 DEF MayCall, MayUse, MappedAt, At, OrderlyCallers
  <2>2. /\ vma'[v].state = "new" /\ vma'[v].pgoff = h /\ vma[v].state = "free"
        /\ \A w \in VMAs : w # v => vma'[w] = vma[w]
    BY <1>3 DEF MmapStart, FreeVMA, TypeOK
  <2>3. OpInv'
    BY <1>2, <2>1 DEF CallersInv, OpInv
  <2>4. HandlesInv' /\ KnownInv'
    BY <1>1, <1>2, <2>1 DEF CallersInv, HandlesInv, KnownInv
  <2>5. ExactInv' /\ UserInv'
    BY <1>1, <1>2, <2>1 DEF CallersInv, ExactInv, UserInv
  <2>6. VmaInv'
    BY <1>1, <1>2, <2>1, <2>2 DEF CallersInv, VmaInv
  <2> QED  BY <2>3, <2>4, <2>5, <2>6 DEF CallersInv
<1>4. ASSUME NEW v \in VMAs, MunmapStart(t, v) PROVE CallersInv'
  <2>1. /\ th[t].pc = "idle"
        /\ th'[t].pc = "close_lock" /\ th'[t].op = "munmap" /\ th'[t].h = vma[v].pgoff /\ th'[t].vma = v
        /\ file = "open" /\ (closing = 1 => handles = {} /\ \A u \in Threads : th[u].pc = "idle")
        /\ mmap_lock' = t
    BY <1>4, BeginFields DEF MunmapStart, MayUnmap, MayCall, AllIdle, At
  <2>2. /\ vma'[v].state = "closing" /\ vma'[v].pgoff = vma[v].pgoff /\ vma[v].state = "linked"
        /\ \A w \in VMAs : w # v => vma'[w] = vma[w]
    BY <1>4 DEF MunmapStart, MayUnmap, TypeOK, VMA
  <2>3. closing = 1 => mr_list = {}
    BY <2>1 DEF CallersInv, KnownInv
  <2>4. closing = 0 => vma[v].pgoff \in handles
    BY <2>2 DEF CallersInv, VmaInv
  <2>5. OpInv'
    BY <1>2, <2>1 DEF CallersInv, OpInv
  <2>6. HandlesInv' /\ KnownInv'
    BY <1>1, <1>2, <2>1 DEF CallersInv, HandlesInv, KnownInv
  <2>7. ExactInv'
    BY <1>1, <1>2, <2>1 DEF CallersInv, ExactInv
  <2>8. UserInv'
    BY <1>1, <1>2, <2>1, <2>3, <2>4 DEF CallersInv, UserInv, TypeOK
  <2>9. VmaInv'
    BY <1>1, <1>2, <2>1, <2>2 DEF CallersInv, VmaInv
  <2> QED  BY <2>5, <2>6, <2>7, <2>8, <2>9 DEF CallersInv
<1>5. ASSUME MmapLink(t) \/ MmapUndo(t) \/ MunmapEnd(t) PROVE CallersInv'
  <2>1. /\ th[t].pc \in {"mmap_link", "mmap_undo", "munmap_end"}
        /\ th'[t].pc = "idle" /\ th'[t].op = "none"
    BY <1>5, ReturnFrame DEF MmapLink, MmapUndo, MunmapEnd, At
  <2>2. PICK v \in VMAs : v = th[t].vma
    BY <2>1 DEF CallersInv, OpInv
  <2>3. /\ vma'[v].state \in {"linked", "free"}
        /\ vma'[v].state = "linked" => vma'[v].pgoff = vma[v].pgoff /\ vma[v].state = "new"
        /\ \A w \in VMAs : w # v => vma'[w] = vma[w]
    <3>1. CASE MmapLink(t)
      BY <2>2, <3>1 DEF MmapLink, At, TypeOK, VMA, CallersInv, VmaInv
    <3>2. CASE MmapUndo(t) \/ MunmapEnd(t)
      BY <2>2, <3>2 DEF MmapUndo, MunmapEnd, FreeVMA, TypeOK
    <3> QED  BY <1>5, <3>1, <3>2
  <2>4. OpInv'
    BY <1>2, <2>1 DEF CallersInv, OpInv
  <2>5. HandlesInv' /\ KnownInv'
    BY <1>1, <1>2, <2>1 DEF CallersInv, HandlesInv, KnownInv
  <2>6. ExactInv' /\ UserInv'
    BY <1>1, <1>2, <2>1 DEF CallersInv, ExactInv, UserInv
  <2>7. VmaInv'
    BY <1>1, <1>2, <2>1, <2>2, <2>3 DEF CallersInv, VmaInv
  <2> QED  BY <2>4, <2>5, <2>6, <2>7 DEF CallersInv
<1> QED  BY <1>3, <1>4, <1>5

\* ... and giving a handle to a region, handing it to the caller and unpinning it.
LEMMA HandleCallers ==
    ASSUME OrderlyCallers, TypeOK, SafeInv, OffsetsInv, CallersInv, [Next]_vars, NEW t \in Threads,
           \/ \E h \in AnyHandle : UnpinStart(t, h)
           \/ PinPublish(t) \/ PinCopyToUser(t) \/ UnpinMiss(t) \/ UnpinRemove(t)
    PROVE  CallersInv'
<1> USE DEF MmapPCs, MunmapPCs, UnpinPCs, Creating
<1>1. ASSUME NEW h \in AnyHandle, UnpinStart(t, h) PROVE CallersInv'
  <2>1. /\ th[t].pc = "idle" /\ th'[t].pc = "unpin_lock" /\ th'[t].op = "unpin" /\ th'[t].h = h
        /\ \A u \in Threads : u # t => th'[u] = th[u]
        /\ file = "open" /\ h \in handles /\ handles' = handles \ {h}
        /\ UNCHANGED <<file, mr_list, mr, vma, mmap_lock, closing>>
    BY <1>1, BeginFields DEF UnpinStart, MayCall, MayUse, At, OrderlyCallers, info, mm
  <2>2. \A u \in Threads : th[u].pc \in MmapPCs \cup MunmapPCs => th[u].h # h
    BY <1>1 DEF UnpinStart, MayUse, Busy, OrderlyCallers, CallersInv, OpInv
  <2>3. closing = 0 => \A v \in VMAs : vma[v].state # "free" => vma[v].pgoff # h
    BY <1>1 DEF UnpinStart, MappedAt, OrderlyCallers
  <2>4. OpInv' /\ ExactInv'
    BY <2>1 DEF CallersInv, OpInv, ExactInv
  <2>5. HandlesInv'
    BY <2>1 DEF CallersInv, HandlesInv
  <2>6. KnownInv'
    BY <2>1 DEF CallersInv, KnownInv
  <2>7. UserInv'
    BY <2>1, <2>2 DEF CallersInv, UserInv
  <2>8. VmaInv'
    BY <2>1, <2>3 DEF CallersInv, VmaInv
  <2> QED  BY <2>4, <2>5, <2>6, <2>7, <2>8 DEF CallersInv
<1>2. ASSUME PinPublish(t) PROVE CallersInv'
  <2>1. PICK m \in MRs : m = th[t].mr /\ m \notin mr_list
    BY <1>2 DEF PinPublish, At, SafeInv, OwnedInv
  <2>2. /\ th[t].pc = "pin_publish" /\ th[t].op = "pin"
        /\ th'[t].pc = "pin_copy" /\ th'[t].op = th[t].op /\ th'[t].h = next_handle
        /\ \A u \in Threads : u # t => th'[u] = th[u]
        /\ mr_list' = mr_list \cup {m}
        /\ UNCHANGED <<file, vma, mmap_lock, handles, closing>>
    BY <1>2, <2>1 DEF PinPublish, At, TypeOK, Thread, mm, user, CallersInv, OpInv
  <2>3. mr'[m].handle = next_handle /\ \A k \in MRs : k # m => mr'[k] = mr[k]
    BY <1>2, <2>1 DEF PinPublish, gdr_generate_mr_handle, TypeOK, Region
  <2>4. \A k \in mr_list : mr[k].handle # next_handle
    <3> SUFFICES ASSUME NEW k \in mr_list PROVE mr[k].handle # next_handle
      OBVIOUS
    <3>1. mr[k].handle \in Nat /\ Taken(k) \in Nat /\ 0 < Taken(k) /\ next_handle \in Nat
      BY TakenBounds DEF TypeOK
    <3>2. mr[k].handle + Taken(k) <= next_handle
      BY DEF OffsetsInv
    <3> QED  BY <3>1, <3>2
  <2>5. \A k \in mr_list : k # m /\ mr'[k].handle = mr[k].handle
    BY <2>1, <2>3 DEF TypeOK
  <2>6. OpInv'
    BY <2>2 DEF CallersInv, OpInv
  <2>7. HandlesInv'
    <3>1. \A h \in handles' : \E k \in mr_list' : mr'[k].handle = h
      BY <2>2, <2>5 DEF CallersInv, HandlesInv
    <3>2. next_handle \notin handles
      BY <2>4 DEF CallersInv, HandlesInv
    <3>3. \A u \in Threads : u # t /\ th[u].pc \in UnpinPCs => th[u].h # next_handle
      BY <2>4 DEF CallersInv, HandlesInv
    <3>4. \A u \in Threads : th'[u].pc \in UnpinPCs =>
             th'[u].h \notin handles' /\ \E k \in mr_list' : mr'[k].handle = th'[u].h
      BY <2>1, <2>2, <2>3, <2>5, <3>2 DEF CallersInv, HandlesInv
    <3>5. \A u, w \in Threads : u # w /\ th'[u].pc \in UnpinPCs /\ th'[w].pc \in UnpinPCs => th'[u].h # th'[w].h
      BY <2>2, <3>3 DEF CallersInv, HandlesInv
    <3> QED  BY <2>2, <3>1, <3>4, <3>5 DEF CallersInv, HandlesInv
  <2>8. KnownInv'
    <3> SUFFICES ASSUME file = "open", NEW k \in mr_list'
                 PROVE  \/ mr'[k].handle \in handles'
                        \/ \E u \in Threads : th'[u].pc \in UnpinPCs /\ th'[u].h = mr'[k].handle
      BY <2>2 DEF KnownInv
    <3>1. CASE k = m
      BY <2>2, <2>3, <3>1
    <3>2. CASE k \in mr_list
      <4>1. CASE mr[k].handle \in handles
        BY <2>2, <2>5, <3>2, <4>1
      <4>2. CASE \E u \in Threads : th[u].pc \in UnpinPCs /\ th[u].h = mr[k].handle
        <5>1. PICK u \in Threads : th[u].pc \in UnpinPCs /\ th[u].h = mr[k].handle
          BY <4>2
        <5>2. u # t
          BY <2>2, <5>1
        <5> QED  BY <2>2, <2>5, <3>2, <5>1, <5>2
      <4> QED  BY <3>2, <4>1, <4>2 DEF CallersInv, KnownInv
    <3> QED  BY <2>2, <3>1, <3>2
  <2>9. ExactInv'
    <3> SUFFICES ASSUME NEW u \in Threads, th'[u].pc \in ExactPCs PROVE mr'[th'[u].mr].handle = th'[u].h
      BY DEF ExactInv, ExactPCs
    <3>1. u # t
      BY <2>2 DEF ExactPCs
    <3>2. th'[u] = th[u] /\ th[u].mr \in mr_list /\ mr[th[u].mr].handle = th[u].h
      BY <2>2, <3>1 DEF SafeInv, ListedInv, CallersInv, ExactInv, ExactPCs, Waiting, Writing
    <3> QED  BY <2>5, <3>2
  <2>10. UserInv'
    <3>1. closing = 0
      BY <2>2 DEF CallersInv, UserInv, TypeOK
    <3>2. \A u \in Threads : th[u].pc \in MunmapPCs => th[u].h \in handles
      BY <3>1 DEF CallersInv, VmaInv, OpInv
    <3> QED  BY <2>2, <3>1, <3>2 DEF CallersInv, UserInv
  <2>11. VmaInv'
    BY <2>2 DEF CallersInv, VmaInv
  <2> QED  BY <2>6, <2>7, <2>8, <2>9, <2>10, <2>11 DEF CallersInv
<1>3. ASSUME PinCopyToUser(t) PROVE CallersInv'
  <2>1. /\ th[t].pc = "pin_copy" /\ th[t].op = "pin" /\ th'[t].pc = "idle" /\ th'[t].op = "none"
        /\ \A u \in Threads : u # t => th'[u] = th[u]
        /\ handles' = handles \cup {th[t].h}
        /\ UNCHANGED <<file, mr_list, mr, vma, mmap_lock, closing>>
    BY <1>3, ReturnFrame DEF PinCopyToUser, At, info, mm, CallersInv, OpInv
  <2>2. file = "open"
    BY <2>1, NoCallOnRelease
  <2>3. OpInv' /\ ExactInv' /\ VmaInv'
    BY <2>1 DEF CallersInv, OpInv, ExactInv, VmaInv
  <2>4. HandlesInv' /\ KnownInv'
    BY <2>1, <2>2 DEF CallersInv, HandlesInv, KnownInv
  <2>5. UserInv'
    BY <2>1 DEF CallersInv, UserInv
  <2> QED  BY <2>3, <2>4, <2>5 DEF CallersInv
<1>4. ASSUME UnpinMiss(t) PROVE CallersInv'
  <2>1. mr_list = {} /\ th[t].pc = "unpin_lock"
    BY <1>4, LookupNone DEF UnpinMiss, LookupMiss, At
  <2> QED  BY <2>1 DEF CallersInv, HandlesInv
<1>5. ASSUME UnpinRemove(t) PROVE CallersInv'
  <2>1. PICK m \in MRs : m = th[t].mr /\ m \in mr_list /\ mr[m].handle = th[t].h
    BY <1>5 DEF UnpinRemove, At, SafeInv, ListedInv, Waiting, TypeOK, CallersInv, ExactInv
  <2>2. /\ th[t].pc = "unpin_sem" /\ th'[t].pc = "free" /\ th'[t].op = th[t].op
        /\ \A u \in Threads : u # t => th'[u] = th[u]
        /\ mr_list' = mr_list \ {m}
        /\ UNCHANGED <<file, mmap_lock, handles, closing>>
    BY <1>5, <2>1, GotoFields DEF UnpinRemove, At, user
  <2>3. \A k \in MRs : mr'[k].handle = mr[k].handle
    BY <1>5, <2>1 DEF UnpinRemove, TypeOK, Region
  <2>4. \A v \in VMAs : vma'[v].state = vma[v].state /\ vma'[v].pgoff = vma[v].pgoff
    BY <1>5, DestroyFields DEF UnpinRemove
  <2>5. mr[m].handle \notin handles /\ \A u \in Threads : u # t /\ th[u].pc \in UnpinPCs => th[u].h # mr[m].handle
    BY <2>1, <2>2 DEF CallersInv, HandlesInv
  <2>6. \A k \in mr_list : k # m => mr[k].handle # mr[m].handle
    BY <2>1, HandlesDiffer
  <2>7. OpInv'
    BY <2>2 DEF CallersInv, OpInv
  <2>8. HandlesInv'
    BY <2>2, <2>3, <2>5 DEF CallersInv, HandlesInv, TypeOK
  <2>9. KnownInv'
    BY <2>1, <2>2, <2>3, <2>6 DEF CallersInv, KnownInv, TypeOK
  <2>10. ExactInv'
    <3> SUFFICES ASSUME NEW u \in Threads, th'[u].pc \in ExactPCs PROVE mr'[th'[u].mr].handle = th'[u].h
      BY DEF ExactInv, ExactPCs
    <3>1. th'[u] = th[u] /\ th[u].mr \in MRs /\ mr[th[u].mr].handle = th[u].h
      BY <2>2 DEF SafeInv, ListedInv, CallersInv, ExactInv, ExactPCs, Waiting, Writing, TypeOK
    <3> QED  BY <2>3, <3>1
  <2>11. UserInv'
    BY <2>2 DEF CallersInv, UserInv
  <2>12. VmaInv'
    BY <2>2, <2>4 DEF CallersInv, VmaInv, OpInv
  <2> QED  BY <2>7, <2>8, <2>9, <2>10, <2>11, <2>12 DEF CallersInv
<1> QED  BY <1>1, <1>2, <1>3, <1>4, <1>5

\* Every step of orderly callers, of the driver and of the callback keeps CallersInv.
LEMMA CallersStep ==
    ASSUME OrderlyCallers, TypeOK, SafeInv, OffsetsInv, CallersInv, [Next]_vars
    PROVE  CallersInv'
<1>1. ASSUME NEW t \in Threads, Decisive(t) PROVE CallersInv'
  BY <1>1, FileCallers, VmaCallers, HandleCallers DEF Decisive
<1> QED  BY <1>1, QuietCallers, FileCallers

-----------------------------------------------------------------------------
(* The mappings of orderly callers.                                        *)

\* The steps that ClearInv and RegisteredInv speak of.
ClearPCs == {"mmap_lock", "mmap_sem", "mmap_body", "mmap_undo", "munmap_end"}
PagesPCs == {"pin_check", "pin_publish"}

\* A step keeps what MapsInv says about a region, or the region is not on the list and
\* starts or ends its life.
SameLinks(m) == /\ mr'[m].cpu_mapping_type = mr[m].cpu_mapping_type /\ mr'[m].vma = mr[m].vma
                /\ mr'[m].handle = mr[m].handle /\ mr'[m].size = mr[m].size
                /\ mr'[m].page_table = mr[m].page_table
Blank(m) == m \notin mr_list /\ mr'[m].cpu_mapping_type = "NONE" /\ mr'[m].page_table = 0

\* It brings thread u to none of the steps that MapsInv speaks of.
SameCall(u) ==
    /\ th'[u].pc \in ClearPCs => th[u].pc \in ClearPCs /\ th'[u].h = th[u].h
    /\ th'[u].pc \in MmapPCs => th[u].pc \in MmapPCs /\ th'[u].h = th[u].h
    /\ th'[u].pc = "mmap_link" => th[u].pc = "mmap_link" /\ th'[u].vma = th[u].vma
    /\ th'[u].pc \in PagesPCs => th[u].pc \in PagesPCs /\ th'[u].mr = th[u].mr

\* Such a step keeps MapsInv, if it leaves list, registrations and VMAs alone.
LEMMA MapsFrame ==
    ASSUME TypeOK, SafeInv, CallersInv, MapsInv, UNCHANGED <<mr_list, nv, vma>>,
           \A m \in MRs : SameLinks(m) \/ Blank(m), \A u \in Threads : SameCall(u)
    PROVE  MapsInv'
<1>1. \A m \in mr_list : SameLinks(m)
  BY DEF Blank, TypeOK
<1>2. \A m \in MRs : gdr_mr_is_mapped(m) => SameLinks(m)
  BY <1>1 DEF MapsInv, LinkInv
<1>3. \A m \in MRs : gdr_mr_is_mapped(m)' => gdr_mr_is_mapped(m)
  BY DEF gdr_mr_is_mapped, SameLinks, Blank
<1>4. LinkInv'
  BY <1>2, <1>3 DEF MapsInv, LinkInv, SameLinks, gdr_mr_is_mapped
<1>5. ClearInv'
  BY <1>1 DEF MapsInv, ClearInv, ClearPCs, SameCall, SameLinks, gdr_mr_is_mapped
<1>6. ASSUME NEW v \in VMAs, Reaches(v) PROVE Reaches(v)'
  BY <1>2, <1>6 DEF Reaches, SameLinks, gdr_mr_is_mapped
<1>7. ASSUME NEW u \in Threads, th'[u].pc = "mmap_link" PROVE Reaches(th[u].vma)'
  <2>1. PICK v \in VMAs : v = th[u].vma /\ v = th'[u].vma
    BY <1>7 DEF SameCall, CallersInv, OpInv, MmapPCs
  <2>2. Reaches(v)
    BY <1>7, <2>1 DEF SameCall, MapsInv, ReachInv
  <2>3. Reaches(v)'
    BY <1>6, <2>2
  <2> QED  BY <2>1, <2>3 DEF Reaches
<1>8. ReachInv'
  BY <1>6, <1>7 DEF MapsInv, ReachInv
<1>9. RegisteredInv'
  <2>1. \A t \in Threads, m \in mr_list' : th'[t].pc \in MmapPCs /\ mr'[m].handle = th'[t].h => nv'[m] # "revoking"
    BY <1>1 DEF MapsInv, RegisteredInv, SameCall, SameLinks
  <2>2. \A m \in mr_list' : mr'[m].page_table = 1 => nv'[m] # "none"
    BY <1>1 DEF MapsInv, RegisteredInv, SameLinks
  <2>3. ASSUME NEW t \in Threads, th'[t].pc \in PagesPCs, mr'[th'[t].mr].page_table = 1
        PROVE  nv'[th'[t].mr] # "none"
    <3>1. th[t].pc \in PagesPCs /\ th'[t].mr = th[t].mr /\ th[t].mr \in MRs
      BY <2>3 DEF SameCall, PagesPCs, SafeInv, OwnedInv, Creating
    <3> QED  BY <2>3, <3>1 DEF MapsInv, RegisteredInv, PagesPCs, SameLinks, Blank
  <2> QED  BY <2>1, <2>2, <2>3 DEF RegisteredInv, PagesPCs
<1> QED  BY <1>4, <1>5, <1>8, <1>9 DEF MapsInv

\* The steps that make or end a mapping, or change what is registered or listed.
Mapping(t) ==
    \/ \E ram \in RamPages : PinGetPages(t, ram)
    \/ PinPublish(t) \/ PutPages(t) \/ UnpinRemove(t) \/ RelRemove(t)
    \/ \E h \in AnyHandle, v \in VMAs, n \in Sizes \ {0} : MmapStart(t, h, v, n)
    \/ MmapRefused(t) \/ (\E k \in Sizes \cup {0} : MmapFails(t, k))
    \/ MmapMaps(t) \/ MmapLink(t) \/ MmapUndo(t)
    \/ (\E v \in VMAs : MunmapStart(t, v)) \/ CloseMiss(t) \/ gdrdrv_vma_close(t) \/ MunmapEnd(t)

\* All the other steps keep MapsInv.
LEMMA QuietMaps ==
    ASSUME OrderlyCallers, TypeOK, SafeInv, CallersInv, MapsInv, [Next]_vars
    PROVE  \/ MapsInv'
           \/ \E t \in Threads : Mapping(t)
           \/ \E m \in MRs : CbStart(m) \/ CbBody(m)
<1> USE DEF ClearPCs, MmapPCs, PagesPCs
<1>1. ASSUME NEW t \in Threads, \A u \in Threads : u # t => th'[u] = th[u], SameCall(t)
      PROVE  \A u \in Threads : SameCall(u)
  BY <1>1 DEF SameCall
<1>2. ASSUME NEW t \in Threads, Return(t) PROVE \A u \in Threads : SameCall(u)
  BY <1>1, <1>2, ReturnFrame DEF SameCall
<1>3. ASSUME NEW t \in Threads, NEW pc, Goto(t, pc), pc \notin ClearPCs \cup MmapPCs \cup PagesPCs
      PROVE  \A u \in Threads : SameCall(u)
  BY <1>1, <1>3, GotoFields DEF SameCall
<1>4. ASSUME NEW t \in Threads, NEW op, NEW pc, NEW h, NEW m, NEW v, Begin(t, op, pc, h, m, v),
             pc \notin ClearPCs \cup MmapPCs \cup PagesPCs
      PROVE  \A u \in Threads : SameCall(u)
  BY <1>1, <1>4, BeginFields DEF SameCall
<1>5. ASSUME UNCHANGED <<mr, mr_list, nv, vma>>, \A u \in Threads : SameCall(u) PROVE MapsInv'
  BY <1>5, MapsFrame DEF SameLinks
<1>6. ASSUME NEW t \in Threads, CallStart(t), ~Mapping(t) PROVE MapsInv'
  <2>1. ASSUME NEW m \in MRs, PinRefused(t, m) \/ \E n \in Sizes : PinStart(t, m, n) PROVE MapsInv'
    <3>1. UNCHANGED <<mr_list, nv, vma>> /\ m \notin mr_list
      BY <2>1 DEF PinRefused, PinStart, info, mm, SafeInv, ListedInv
    <3>2. (\A x \in MRs \ {m} : mr'[x] = mr[x]) /\ mr'[m].cpu_mapping_type = "NONE" /\ mr'[m].page_table = 0
      BY <2>1 DEF PinRefused, PinStart, TypeOK, NewMR
    <3>3. \A u \in Threads : SameCall(u)
      BY <1>4, <2>1 DEF PinRefused, PinStart
    <3>4. \A x \in MRs : SameLinks(x) \/ Blank(x)
      BY <3>1, <3>2 DEF SameLinks, Blank
    <3> QED  BY <3>1, <3>3, <3>4, MapsFrame
  <2>2. ASSUME NEW h \in AnyHandle,
               UnpinStart(t, h) \/ ReqStart(t, h) \/ \E op \in {"get_info", "get_cb_flag"} : ReadStart(t, op, h)
        PROVE  MapsInv'
    <3>1. UNCHANGED <<mr, mr_list, nv, vma>>
      BY <2>2 DEF UnpinStart, ReqStart, ReadStart, info, mm
    <3>2. \A u \in Threads : SameCall(u)
      BY <1>4, <2>2 DEF UnpinStart, ReqStart, ReadStart
    <3> QED  BY <1>5, <3>1, <3>2
  <2>3. ASSUME NEW v \in VMAs, NEW w \in VMAs, NEW k \in 1 .. (vma[v].len - 1)
        PROVE  ~MunmapHead(t, v, w, k) /\ ~MunmapTail(t, v, w, k)
    BY DEF OrderlyCallers, MunmapHead, MunmapTail, MunmapPart
  <2>4. ASSUME RelStart(t) PROVE MapsInv'
    <3>1. UNCHANGED <<mr, mr_list, nv, vma>>
      BY <2>4 DEF RelStart, mm
    <3>2. \A u \in Threads : SameCall(u)
      BY <1>4, <2>4 DEF RelStart
    <3> QED  BY <1>5, <3>1, <3>2
  <2> QED  BY <1>6, <2>1, <2>2, <2>3, <2>4 DEF CallStart, Mapping
<1>7. ASSUME NEW t \in Threads, CallStep(t), ~Mapping(t) PROVE MapsInv'
  <2>1. ASSUME \/ PinGetPagesFails(t) \/ PinBadPageTable(t) \/ PinNoHandle(t) \/ PinCopyToUser(t)
               \/ PinCopyFails(t) \/ FreeDropSem(t) \/ ReadSem(t) \/ ReadCopyToUser(t) \/ RelDone(t)
        PROVE  MapsInv'
    <3>1. UNCHANGED <<mr, mr_list, nv, vma>>
      BY <2>1 DEF PinGetPagesFails, PinBadPageTable, PinNoHandle, PinCopyToUser, PinCopyFails,
         FreeDropSem, ReadSem, ReadCopyToUser, RelDone, info, mm
    <3>2. \A u \in Threads : SameCall(u)
      BY <1>2, <1>3, <2>1 DEF PinGetPagesFails, PinBadPageTable, PinNoHandle, PinCopyToUser, PinCopyFails,
         FreeDropSem, ReadSem, ReadCopyToUser, RelDone
    <3> QED  BY <1>5, <3>1, <3>2
  <2>2. ASSUME PinLock(t) PROVE MapsInv'
    <3>1. UNCHANGED <<mr, mr_list, nv, vma>> /\ th[t].pc = "pin_check"
      BY <2>2 DEF PinLock, At, info, mm
    <3>2. \A u \in Threads : SameCall(u)
      BY <1>1, <2>2, <3>1, GotoFields DEF PinLock, SameCall
    <3> QED  BY <1>5, <3>1, <3>2
  <2>3. ASSUME NEW from, NEW to, LookupHit(t, from, to), to \notin ClearPCs \cup MmapPCs \cup PagesPCs
        PROVE  MapsInv'
    <3>1. UNCHANGED <<mr, mr_list, nv, vma>>
      BY <2>3 DEF LookupHit, info, mm
    <3>2. \A u \in Threads : SameCall(u)
      BY <1>1, <2>3 DEF LookupHit, SameCall, TypeOK, Thread
    <3> QED  BY <1>5, <3>1, <3>2
  <2>4. ASSUME UnpinLookup(t) \/ ReadLookup(t) \/ ReqLookup(t) \/ CloseLookup(t) PROVE MapsInv'
    BY <2>3, <2>4 DEF UnpinLookup, ReadLookup, ReqLookup, CloseLookup
  <2>5. ASSUME MmapLookup(t) PROVE MapsInv'
    <3>1. UNCHANGED <<mr, mr_list, nv, vma>> /\ th[t].pc = "mmap_lock"
      BY <2>5 DEF MmapLookup, LookupHit, At, info, mm
    <3>2. \A u \in Threads : SameCall(u)
      BY <1>1, <2>5, <3>1 DEF MmapLookup, LookupHit, SameCall, TypeOK, Thread
    <3> QED  BY <1>5, <3>1, <3>2
  <2>6. ASSUME UnpinMiss(t) \/ ReadMiss(t) \/ ReqMiss(t) PROVE MapsInv'
    <3>1. UNCHANGED <<mr, mr_list, nv, vma>>
      BY <2>6 DEF UnpinMiss, ReadMiss, ReqMiss, LookupMiss, info, mm
    <3>2. \A u \in Threads : SameCall(u)
      BY <1>2, <2>6 DEF UnpinMiss, ReadMiss, ReqMiss
    <3> QED  BY <1>5, <3>1, <3>2
  <2>7. ASSUME MmapMiss(t) \/ MmapSem(t) PROVE MapsInv'
    <3>1. UNCHANGED <<mr, mr_list, nv, vma>> /\ th[t].pc \in {"mmap_lock", "mmap_sem"}
      BY <2>7 DEF MmapMiss, MmapSem, LookupMiss, SemWrite, At, info, mm
    <3>2. \A u \in Threads : SameCall(u)
      BY <1>1, <2>7, <3>1, GotoFields DEF MmapMiss, MmapSem, SemWrite, SameCall
    <3> QED  BY <1>5, <3>1, <3>2
  <2>8. ASSUME ReqSem(t) \/ CloseSem(t) PROVE MapsInv'
    <3>1. UNCHANGED <<mr, mr_list, nv, vma>>
      BY <2>8 DEF ReqSem, CloseSem, SemWrite, info, mm
    <3>2. \A u \in Threads : SameCall(u)
      BY <1>3, <2>8 DEF ReqSem, CloseSem, SemWrite
    <3> QED  BY <1>5, <3>1, <3>2
  <2>9. ASSUME ReadBody(t) PROVE MapsInv'
    <3>1. UNCHANGED <<mr, mr_list, nv, vma>>
      BY <2>9 DEF ReadBody, info, mm
    <3>2. \A u \in Threads : SameCall(u)
      BY <1>1, <2>9 DEF ReadBody, SameCall, TypeOK, Thread
    <3> QED  BY <1>5, <3>1, <3>2
  <2>10. ASSUME NEW m \in MRs, RelPick(t, m) PROVE MapsInv'
    <3>1. UNCHANGED <<mr, mr_list, nv, vma>>
      BY <2>10 DEF RelPick, info, mm
    <3>2. \A u \in Threads : SameCall(u)
      BY <1>1, <2>10 DEF RelPick, SameCall, TypeOK, Thread
    <3> QED  BY <1>5, <3>1, <3>2
  <2>11. ASSUME NEW type \in MappingTypes, ReqBody(t, type) PROVE MapsInv'
    <3>1. UNCHANGED <<mr_list, nv, vma>>
      BY <2>11 DEF ReqBody, info, mm
    <3>2. \A u \in Threads : SameCall(u)
      BY <1>2, <2>11 DEF ReqBody
    <3>3. \A m \in MRs : SameLinks(m)
      BY <2>11 DEF ReqBody, SameLinks, TypeOK, Region
    <3> QED  BY <3>1, <3>2, <3>3, MapsFrame
  <2>12. ASSUME Kfree(t) PROVE MapsInv'
    <3>1. UNCHANGED <<mr_list, nv, vma>> /\ th[t].mr \in MRs \ mr_list
      BY <2>12 DEF Kfree, At, info, mm, SafeInv, OwnedInv, Freeing
    <3>2. \A u \in Threads : SameCall(u)
      BY <1>1, <2>12 DEF Kfree, SameCall, TypeOK, IdleThread
    <3>3. \A m \in MRs : SameLinks(m) \/ Blank(m)
      BY <2>12, <3>1 DEF Kfree, NewMR, SameLinks, Blank, TypeOK
    <3> QED  BY <3>1, <3>2, <3>3, MapsFrame
  <2> QED  BY <1>7, <2>1, <2>2, <2>4, <2>5, <2>6, <2>7, <2>8, <2>9, <2>10, <2>11, <2>12 DEF CallStep, Mapping
<1>8. ASSUME NEW m \in MRs, CbLock(m) PROVE MapsInv'
  <2>1. UNCHANGED <<mr_list, nv, vma, th>>
    BY <1>8 DEF CbLock, info, mm
  <2>2. \A x \in MRs : SameLinks(x)
    BY <1>8 DEF CbLock, SameLinks, TypeOK, Region
  <2> QED  BY <2>1, <2>2, MapsFrame DEF SameCall
<1>9. ASSUME Open \/ GdrClose \/ UNCHANGED vars PROVE MapsInv'
  <2>1. UNCHANGED <<mr, mr_list, nv, vma, th>>
    BY <1>9 DEF Open, GdrClose, vars, info, mm, SafeInv, FileInv
  <2> QED  BY <1>5, <2>1 DEF SameCall
<1> QED  BY <1>6, <1>7, <1>8, <1>9 DEF Next, CallbackStep

\* A handle that is given out next is none that is in use.
LEMMA FreshHandle ==
    ASSUME TypeOK, OffsetsInv, CallersInv
    PROVE  next_handle \notin handles /\ \A k \in mr_list : mr[k].handle # next_handle
<1>1. ASSUME NEW k \in mr_list PROVE mr[k].handle # next_handle
  <2>1. mr[k].handle \in Nat /\ Taken(k) \in Nat /\ 0 < Taken(k) /\ next_handle \in Nat
    BY TakenBounds DEF TypeOK
  <2>2. mr[k].handle + Taken(k) <= next_handle
    BY DEF OffsetsInv
  <2> QED  BY <2>1, <2>2
<1> QED  BY <1>1 DEF CallersInv, HandlesInv

\* Pinning keeps MapsInv, ...
LEMMA PinMaps ==
    ASSUME TypeOK, SafeInv, OffsetsInv, CallersInv, MapsInv, NEW t \in Threads,
           (\E ram \in RamPages : PinGetPages(t, ram)) \/ PinPublish(t) \/ PutPages(t)
    PROVE  MapsInv'
<1> USE DEF MmapPCs, PagesPCs, Creating, Freeing
<1>1. PICK m \in MRs : m = th[t].mr /\ m \notin mr_list
  BY DEF PinGetPages, PinPublish, PutPages, At, SafeInv, OwnedInv
<1>2. ~gdr_mr_is_mapped(m)
  BY <1>1 DEF MapsInv, LinkInv
<1>3. /\ th[t].pc \in {"pin_get", "pin_publish", "put"}
      /\ th'[t].pc \in {"pin_check", "pin_copy", "kfree"}
      /\ th'[t].mr = th[t].mr
      /\ \A u \in Threads : u # t => th'[u] = th[u]
  <2>1. CASE \E ram \in RamPages : PinGetPages(t, ram)
    BY <2>1, GotoFields DEF PinGetPages, At
  <2>2. CASE PinPublish(t)
    BY <2>2 DEF PinPublish, At, TypeOK, Thread
  <2>3. CASE PutPages(t)
    BY <2>3, GotoFields DEF PutPages, At
  <2> QED  BY <2>1, <2>2, <2>3
<1>4. /\ vma' = vma
      /\ mr'[m].cpu_mapping_type = mr[m].cpu_mapping_type
      /\ \A k \in MRs \ {m} : mr'[k] = mr[k] /\ nv'[k] = nv[k]
  <2>1. CASE \E ram \in RamPages : PinGetPages(t, ram)
    BY <1>1, <2>1 DEF PinGetPages, TypeOK, Region, mm
  <2>2. CASE PinPublish(t)
    BY <1>1, <2>2 DEF PinPublish, gdr_generate_mr_handle, TypeOK, Region, mm
  <2>3. CASE PutPages(t)
    BY <1>1, <2>3 DEF PutPages, TypeOK, mm
  <2> QED  BY <2>1, <2>2, <2>3
<1>5. \A x \in MRs : gdr_mr_is_mapped(x)' => gdr_mr_is_mapped(x) /\ x # m
  BY <1>2, <1>4 DEF gdr_mr_is_mapped
<1>6. mr_list' = mr_list \/ (PinPublish(t) /\ mr_list' = mr_list \cup {m})
  BY <1>1 DEF PinGetPages, PinPublish, PutPages, info
<1>7. LinkInv'
  BY <1>4, <1>5, <1>6 DEF MapsInv, LinkInv, gdr_mr_is_mapped
<1>8. ClearInv'
  <2> SUFFICES ASSUME NEW u \in Threads, NEW k \in mr_list', th'[u].pc \in ClearPCs,
                      mr'[k].handle = th'[u].h, k # m
               PROVE  ~gdr_mr_is_mapped(k)'
    BY <1>5 DEF ClearInv, ClearPCs
  <2>1. th'[u] = th[u] /\ k \in mr_list /\ k \in MRs \ {m}
    BY <1>3, <1>6 DEF ClearPCs, TypeOK
  <2>2. ~gdr_mr_is_mapped(k)
    BY <1>4, <2>1 DEF MapsInv, ClearInv, ClearPCs
  <2> QED  BY <1>5, <2>1, <2>2
<1>9. ASSUME NEW v \in VMAs, Reaches(v) PROVE Reaches(v)'
  BY <1>2, <1>4, <1>9 DEF Reaches, gdr_mr_is_mapped
<1>10. ReachInv'
  <2>1. ASSUME NEW u \in Threads, th'[u].pc = "mmap_link" PROVE Reaches(th[u].vma)'
    <3>1. PICK v \in VMAs : v = th[u].vma /\ v = th'[u].vma /\ Reaches(v)
      BY <1>3, <2>1 DEF CallersInv, OpInv, MapsInv, ReachInv
    <3>2. Reaches(v)'
      BY <1>9, <3>1
    <3> QED  BY <3>1, <3>2 DEF Reaches
  <2> QED  BY <1>4, <1>9, <2>1 DEF MapsInv, ReachInv
<1>11. RegisteredInv'
  <2>1. ASSUME NEW u \in Threads, NEW k \in mr_list', th'[u].pc \in MmapPCs, mr'[k].handle = th'[u].h
        PROVE  nv'[k] # "revoking"
    <3>1. th'[u] = th[u] /\ th[u].pc \in MmapPCs /\ th[u].h \in handles
      BY <1>3, <2>1 DEF CallersInv, UserInv
    <3>2. k # m
      <4>1. ASSUME PinPublish(t), k = m PROVE FALSE
        <5>1. mr'[m].handle = next_handle
          BY <1>1, <4>1 DEF PinPublish, gdr_generate_mr_handle, TypeOK, Region
        <5> QED  BY <2>1, <3>1, <4>1, <5>1, FreshHandle
      <4> QED  BY <1>1, <1>6, <2>1, <4>1
    <3> QED  BY <1>4, <1>6, <2>1, <3>1, <3>2 DEF MapsInv, RegisteredInv, TypeOK
  <2>2. ASSUME NEW k \in mr_list', mr'[k].page_table = 1 PROVE nv'[k] # "none"
    <3>1. CASE k # m
      BY <1>4, <1>6, <2>2, <3>1 DEF MapsInv, RegisteredInv, TypeOK
    <3>2. CASE k = m
      <4>1. PinPublish(t)
        BY <1>1, <1>6, <3>2
      <4>2. mr'[m].page_table = mr[m].page_table /\ nv' = nv /\ th[t].pc = "pin_publish"
        BY <1>1, <4>1 DEF PinPublish, At, gdr_generate_mr_handle, TypeOK, Region
      <4> QED  BY <1>1, <2>2, <3>2, <4>2 DEF MapsInv, RegisteredInv
    <3> QED  BY <3>1, <3>2
  <2>3. ASSUME NEW u \in Threads, th'[u].pc \in PagesPCs, mr'[th'[u].mr].page_table = 1
        PROVE  nv'[th'[u].mr] # "none"
    <3>1. CASE u = t
      <4>1. \E ram \in RamPages : PinGetPages(t, ram)
        <5>1. PinPublish(t) => th'[t].pc = "pin_copy"
          BY DEF PinPublish, TypeOK, Thread
        <5>2. PutPages(t) => th'[t].pc = "kfree"
          BY GotoFields DEF PutPages
        <5> QED  BY <2>3, <3>1, <5>1, <5>2
      <4>2. nv'[m] = "held"
        BY <1>1, <4>1 DEF PinGetPages, TypeOK
      <4> QED  BY <1>1, <1>3, <3>1, <4>2
    <3>2. CASE u # t
      <4>1. th'[u] = th[u] /\ th[u].mr \in MRs \ {m}
        BY <1>1, <1>3, <2>3, <3>2 DEF SafeInv, OwnedInv
      <4> QED  BY <1>4, <2>3, <4>1 DEF MapsInv, RegisteredInv
    <3> QED  BY <3>1, <3>2
  <2> QED  BY <2>1, <2>2, <2>3 DEF RegisteredInv
<1> QED  BY <1>7, <1>8, <1>10, <1>11 DEF MapsInv

\* What DestroyMappings leaves of a VMA that reaches the region: no entry at all.
LEMMA DestroyClears ==
    ASSUME TypeOK, NEW v \in VMAs, vma[v].state = "linked", Reaches(v)
    PROVE  DestroyMappings(vma[v].mr)[v].pte = {}
<1>1. gdr_mr_is_mapped(vma[v].mr) /\ mr[vma[v].mr].vma = v /\ v # None
  BY NullAssumption DEF Reaches
<1>2. DestroyMappings(vma[v].mr) = gdrdrv_zap_vma(v)
  BY <1>1 DEF DestroyMappings
<1>3. gdrdrv_zap_vma(v)[v].pte = vma[v].pte \ Offsets(vma[v].pgoff, vma[v].len)
  BY DEF gdrdrv_zap_vma, TypeOK, VMA
<1> QED  BY <1>2, <1>3 DEF Reaches

\* ... unpinning a region and taking back its pages do, because the VMA that reaches it
\* loses all its entries, and no mmap of it is in progress, ...
LEMMA DestroyMaps ==
    ASSUME TypeOK, SafeInv, CallersInv, MapsInv, NEW m \in MRs,
           CbBody(m) \/ \E t \in Threads : UnpinRemove(t) /\ m = th[t].mr
    PROVE  MapsInv'
<1> USE DEF MmapPCs, MunmapPCs, PagesPCs, UnpinPCs
<1>1. /\ mr'[m].cpu_mapping_type = "NONE" /\ vma' = DestroyMappings(m)
      /\ \A x \in MRs : mr'[x].handle = mr[x].handle /\ mr'[x].size = mr[x].size
      /\ \A x \in MRs \ {m} : mr'[x] = mr[x] /\ nv'[x] = nv[x]
  <2>1. CASE CbBody(m)
    BY <2>1 DEF CbBody, SafeInv, PagesInv, TypeOK, Region
  <2>2. CASE \E t \in Threads : UnpinRemove(t) /\ m = th[t].mr
    BY <2>2 DEF UnpinRemove, TypeOK, Region
  <2> QED  BY <2>1, <2>2
<1>2. /\ mr_list' \subseteq mr_list
      /\ mr_list' = mr_list \/ mr_list' = mr_list \ {m}
      /\ \A u \in Threads : th'[u] = th[u] \/ th'[u].pc = "free"
  <2>1. CASE CbBody(m)
    BY <2>1 DEF CbBody, info
  <2>2. CASE \E t \in Threads : UnpinRemove(t) /\ m = th[t].mr
    BY <2>2, GotoFields DEF UnpinRemove
  <2> QED  BY <2>1, <2>2
<1>3. nv'[m] # "revoking" \/ nv'[m] = nv[m]
  <2>1. CASE CbBody(m)
    BY <2>1 DEF CbBody, TypeOK
  <2>2. CASE \E t \in Threads : UnpinRemove(t) /\ m = th[t].mr
    BY <2>2 DEF UnpinRemove
  <2> QED  BY <2>1, <2>2
<1>4. \A v \in VMAs : /\ vma'[v].state = vma[v].state /\ vma'[v].pgoff = vma[v].pgoff
                      /\ vma'[v].len = vma[v].len /\ vma'[v].mr = vma[v].mr
                      /\ vma'[v].pte \subseteq vma[v].pte
  BY <1>1, DestroyFields
<1>5. \A x \in MRs : gdr_mr_is_mapped(x)' => gdr_mr_is_mapped(x) /\ x # m
  BY <1>1 DEF gdr_mr_is_mapped
<1>6. LinkInv'
  BY <1>1, <1>2, <1>4, <1>5 DEF MapsInv, LinkInv
<1>7. ClearInv'
  BY <1>1, <1>2, <1>5 DEF MapsInv, ClearInv, TypeOK
<1>8. ASSUME NEW v \in VMAs, Reaches(v), vma[v].mr # m PROVE Reaches(v)'
  BY <1>1, <1>4, <1>8 DEF Reaches, gdr_mr_is_mapped
<1>9. ReachInv'
  <2>1. ASSUME NEW v \in VMAs, vma'[v].state = "linked", vma'[v].pte # {} PROVE Reaches(v)'
    <3>1. vma[v].state = "linked" /\ vma[v].pte # {} /\ Reaches(v)
      BY <1>4, <2>1 DEF MapsInv, ReachInv
    <3>2. vma[v].mr # m
      BY <1>1, <2>1, <3>1, DestroyClears
    <3> QED  BY <1>8, <3>1, <3>2
  <2>2. ASSUME NEW u \in Threads, th'[u].pc = "mmap_link" PROVE Reaches(th[u].vma)'
    <3>1. PICK v \in VMAs : v = th[u].vma /\ v = th'[u].vma /\ Reaches(v)
      BY <1>2, <2>2 DEF CallersInv, OpInv, MapsInv, ReachInv
    <3>2. th[u].pc = "mmap_link" /\ th[u].h \in handles /\ vma[v].pgoff = th[u].h
      BY <1>2, <2>2, <3>1 DEF CallersInv, UserInv, VmaInv
    <3>3. ASSUME vma[v].mr = m PROVE FALSE
      <4>1. m \in mr_list /\ mr[m].handle = th[u].h
        BY <3>1, <3>2, <3>3 DEF Reaches, MapsInv, LinkInv
      <4>2. nv[m] # "revoking"
        BY <3>2, <4>1 DEF MapsInv, RegisteredInv
      <4>3. ~CbBody(m)
        BY <4>2 DEF CbBody
      <4>4. PICK t \in Threads : UnpinRemove(t) /\ m = th[t].mr
        BY <4>3
      <4>5. mr[m].handle = th[t].h /\ th[t].h \notin handles
        BY <4>4 DEF UnpinRemove, At, CallersInv, ExactInv, HandlesInv
      <4> QED  BY <3>2, <4>1, <4>5
    <3>4. Reaches(v)'
      BY <1>8, <3>1, <3>3
    <3> QED  BY <3>1, <3>4 DEF Reaches
  <2> QED  BY <2>1, <2>2 DEF ReachInv
<1>10. RegisteredInv'
  <2>1. ASSUME NEW u \in Threads, NEW k \in mr_list', th'[u].pc \in MmapPCs, mr'[k].handle = th'[u].h
        PROVE  nv'[k] # "revoking"
    <3>1. k \in mr_list /\ k \in MRs /\ th[u].pc \in MmapPCs /\ mr[k].handle = th[u].h
      BY <1>1, <1>2, <2>1 DEF TypeOK
    <3>2. nv[k] # "revoking"
      BY <3>1 DEF MapsInv, RegisteredInv
    <3> QED  BY <1>1, <1>3, <3>1, <3>2
  <2>2. ASSUME NEW k \in MRs, mr'[k].page_table = 1, nv'[k] = "none"
        PROVE  nv[k] = "none" /\ mr[k].page_table = 1
    <3>1. CASE k = m
      <4>1. ~CbBody(m)
        BY <2>2, <3>1 DEF CbBody, SafeInv, PagesInv, TypeOK, Region
      <4>2. PICK t \in Threads : UnpinRemove(t) /\ m = th[t].mr
        BY <4>1
      <4> QED  BY <2>2, <3>1, <4>2 DEF UnpinRemove, TypeOK, Region
    <3>2. CASE k # m
      BY <1>1, <2>2, <3>2
    <3> QED  BY <3>1, <3>2
  <2>3. ASSUME NEW k \in mr_list', mr'[k].page_table = 1 PROVE nv'[k] # "none"
    BY <1>2, <2>2, <2>3 DEF MapsInv, RegisteredInv, TypeOK
  <2>4. ASSUME NEW u \in Threads, th'[u].pc \in PagesPCs, mr'[th'[u].mr].page_table = 1
        PROVE  nv'[th'[u].mr] # "none"
    <3>1. th'[u] = th[u] /\ th[u].mr \in MRs
      BY <1>2, <2>4 DEF SafeInv, OwnedInv, Creating
    <3> QED  BY <2>2, <2>4, <3>1 DEF MapsInv, RegisteredInv
  <2> QED  BY <2>1, <2>3, <2>4 DEF RegisteredInv
<1> QED  BY <1>6, <1>7, <1>9, <1>10 DEF MapsInv

\* ... and so does release, when no VMA is left, ...
LEMMA ReleaseMaps ==
    ASSUME TypeOK, SafeInv, CallersInv, MapsInv, NEW t \in Threads, RelRemove(t)
    PROVE  MapsInv'
<1> USE DEF MmapPCs, PagesPCs
<1>1. th[t].pc = "rel_sem" /\ file = "release"
  BY DEF RelRemove, At, SafeInv, InfoInv, FileInv
<1>2. /\ \A u \in Threads : th[u].pc \in {"idle", "rel_next", "rel_sem", "free", "put", "kfree"}
      /\ \A v \in VMAs : vma[v].state = "free"
  BY <1>1, NoCallOnRelease DEF CallersInv, VmaInv
<1>3. \A m \in MRs : ~gdr_mr_is_mapped(m)
  BY <1>2 DEF MapsInv, LinkInv
<1>4. th'[t].pc = "free" /\ \A u \in Threads : u # t => th'[u] = th[u]
  BY GotoFields DEF RelRemove
<1>5. \A m \in MRs : ~gdr_mr_is_mapped(m)' /\ mr'[m].page_table = mr[m].page_table
  BY <1>3 DEF RelRemove, gdr_mr_is_mapped, TypeOK, Region
<1>6. \A v \in VMAs : vma'[v].state = "free"
  BY <1>2, DestroyFields DEF RelRemove
<1>7. nv' = nv /\ mr_list' \subseteq mr_list
  BY DEF RelRemove
<1>8. \A u \in Threads : th'[u].pc \notin MmapPCs \cup PagesPCs
  BY <1>2, <1>4
<1>9. LinkInv' /\ ClearInv'
  BY <1>5, <1>7 DEF LinkInv, ClearInv, TypeOK
<1>10. ReachInv'
  BY <1>6, <1>8 DEF ReachInv
<1>11. RegisteredInv'
  BY <1>5, <1>7, <1>8 DEF MapsInv, RegisteredInv, TypeOK
<1> QED  BY <1>9, <1>10, <1>11 DEF MapsInv

\* ... and the start of a callback, which waits for the mmap of its region to end.
LEMMA RevokeMaps ==
    ASSUME OrderlyCallers, TypeOK, SafeInv, CallersInv, MapsInv, NEW m \in MRs, CbStart(m)
    PROVE  MapsInv'
<1>1. UNCHANGED <<mr, mr_list, vma, th>> /\ nv' = [nv EXCEPT ![m] = "revoking"]
  BY DEF CbStart, info, mm
<1>2. m \in mr_list => \A t \in Threads : th[t].pc \in MmapPCs => th[t].h # mr[m].handle
  BY DEF CbStart, OrderlyCallers, CallersInv, OpInv
<1>3. LinkInv' /\ ClearInv' /\ ReachInv'
  BY <1>1 DEF MapsInv, LinkInv, ClearInv, ReachInv, Reaches, gdr_mr_is_mapped
<1>4. \A x \in MRs : nv'[x] = "none" => nv[x] = "none"
  BY <1>1 DEF TypeOK
<1>5. \A x \in MRs : x # m => nv'[x] = nv[x]
  BY <1>1 DEF TypeOK
<1>6. RegisteredInv'
  <2>1. \A t \in Threads, k \in mr_list : th[t].pc \in MmapPCs /\ mr[k].handle = th[t].h => nv'[k] # "revoking"
    BY <1>2, <1>5 DEF MapsInv, RegisteredInv, TypeOK
  <2>2. \A k \in mr_list : mr[k].page_table = 1 => nv'[k] # "none"
    BY <1>4 DEF MapsInv, RegisteredInv, TypeOK
  <2>3. \A t \in Threads : th[t].pc \in {"pin_check", "pin_publish"} /\ mr[th[t].mr].page_table = 1
           => nv'[th[t].mr] # "none"
    BY <1>4 DEF MapsInv, RegisteredInv, SafeInv, OwnedInv, Creating
  <2> QED  BY <1>1, <2>1, <2>2, <2>3 DEF RegisteredInv
<1> QED  BY <1>3, <1>6 DEF MapsInv

\* The kernel's part of mmap and munmap keeps MapsInv: a VMA that is made, linked, closed
\* or freed is none that a mapped region points to, or stays where it points.
LEMMA VmaMaps ==
    ASSUME OrderlyCallers, TypeOK, SafeInv, CallersInv, MapsInv, NEW t \in Threads,
           \/ \E h \in AnyHandle, v \in VMAs, n \in Sizes \ {0} : MmapStart(t, h, v, n)
           \/ \E v \in VMAs : MunmapStart(t, v)
           \/ MmapLink(t) \/ MmapUndo(t) \/ MunmapEnd(t)
    PROVE  MapsInv'
<1> USE DEF MmapPCs, MunmapPCs, PagesPCs, ClearPCs
<1>1. UNCHANGED <<mr, mr_list, nv>>
  BY DEF MmapStart, MunmapStart, MmapLink, MmapUndo, MunmapEnd, info
<1>2. ASSUME NEW v \in VMAs, \A w \in VMAs : w # v => vma'[w] = vma[w],
             \A u \in Threads : u # t => th'[u] = th[u] /\ th[u].pc \notin MmapPCs \cup MunmapPCs,
             th'[t].pc \notin PagesPCs \cup {"mmap_link"},
             \/ \A x \in MRs : gdr_mr_is_mapped(x) => mr[x].vma # v
             \/ /\ vma'[v].state # "free" /\ vma'[v].mr = vma[v].mr
                /\ vma'[v].pgoff = vma[v].pgoff /\ vma'[v].len = vma[v].len,
             \A m \in mr_list : th'[t].pc \in ClearPCs /\ mr[m].handle = th'[t].h => ~gdr_mr_is_mapped(m),
             \A m \in mr_list : th'[t].pc \in MmapPCs /\ mr[m].handle = th'[t].h => nv[m] # "revoking",
             vma'[v].state = "linked" /\ vma'[v].pte # {} => Reaches(v)'
      PROVE  MapsInv'
  <2>1. LinkInv'
    BY <1>1, <1>2 DEF MapsInv, LinkInv, gdr_mr_is_mapped
  <2>2. ClearInv'
    BY <1>1, <1>2 DEF ClearInv, gdr_mr_is_mapped
  <2>3. ASSUME NEW w \in VMAs, w # v, Reaches(w) PROVE Reaches(w)'
    BY <1>1, <1>2, <2>3 DEF Reaches, gdr_mr_is_mapped
  <2>4. \A u \in Threads : th'[u].pc # "mmap_link"
    BY <1>2
  <2>5. ReachInv'
    BY <1>2, <2>3, <2>4 DEF MapsInv, ReachInv
  <2>6. RegisteredInv'
    BY <1>1, <1>2 DEF MapsInv, RegisteredInv
  <2> QED  BY <2>1, <2>2, <2>5, <2>6 DEF MapsInv
<1>3. ASSUME NEW h \in AnyHandle, NEW v \in VMAs, NEW n \in Sizes \ {0}, MmapStart(t, h, v, n)
      PROVE  MapsInv'
  <2>1. Begin(t, "mmap", "mmap_lock", h, None, v) /\ mmap_lock = None /\ vma[v].state = "free"
    BY <1>3 DEF MmapStart
  <2>2. /\ th'[t].pc = "mmap_lock" /\ th'[t].h = h
        /\ \A u \in Threads : u # t => th'[u] = th[u] /\ th[u].pc \notin MmapPCs \cup MunmapPCs
    BY <2>1, BeginFields, Exclusive
  <2>3. vma'[v].state = "new" /\ \A w \in VMAs : w # v => vma'[w] = vma[w]
    BY <1>3 DEF MmapStart, FreeVMA, TypeOK
  <2>4. \A x \in MRs : gdr_mr_is_mapped(x) => mr[x].vma # v
    BY <2>1 DEF MapsInv, LinkInv
  <2>5. \A m \in mr_list : mr[m].handle = h => ~gdr_mr_is_mapped(m) /\ nv[m] # "revoking"
    <3>1. ~MappedAt(h) /\ \A m \in mr_list : mr[m].handle = h => nv[m] # "revoking"
      BY <1>3 DEF MmapStart, OrderlyCallers
    <3> QED  BY <3>1 DEF MappedAt, MapsInv, LinkInv, TypeOK
  <2> QED  BY <1>2, <2>2, <2>3, <2>4, <2>5
<1>4. ASSUME NEW v \in VMAs, MunmapStart(t, v) PROVE MapsInv'
  <2>1. Begin(t, "munmap", "close_lock", vma[v].pgoff, None, v) /\ mmap_lock = None
    BY <1>4 DEF MunmapStart, MayUnmap
  <2>2. /\ th'[t].pc = "close_lock"
        /\ \A u \in Threads : u # t => th'[u] = th[u] /\ th[u].pc \notin MmapPCs \cup MunmapPCs
    BY <2>1, BeginFields, Exclusive
  <2>3. /\ vma'[v].state = "closing" /\ vma'[v].mr = vma[v].mr
        /\ vma'[v].pgoff = vma[v].pgoff /\ vma'[v].len = vma[v].len
        /\ \A w \in VMAs : w # v => vma'[w] = vma[w]
    BY <1>4 DEF MunmapStart, TypeOK, VMA
  <2> QED  BY <1>2, <2>2, <2>3
<1>5. ASSUME MmapLink(t) PROVE MapsInv'
  <2>1. /\ th[t].pc = "mmap_link" /\ th'[t].pc = "idle"
        /\ \A u \in Threads : u # t => th'[u] = th[u] /\ th[u].pc \notin MmapPCs \cup MunmapPCs
    BY <1>5, ReturnFrame, Exclusive DEF MmapLink, At
  <2>2. PICK v \in VMAs : v = th[t].vma /\ Reaches(v)
    BY <2>1 DEF CallersInv, OpInv, MapsInv, ReachInv
  <2>3. /\ vma'[v].state = "linked" /\ vma'[v].mr = vma[v].mr /\ vma'[v].pte = vma[v].pte
        /\ vma'[v].pgoff = vma[v].pgoff /\ vma'[v].len = vma[v].len
        /\ \A w \in VMAs : w # v => vma'[w] = vma[w]
    BY <1>5, <2>2 DEF MmapLink, TypeOK, VMA
  <2>4. Reaches(v)'
    BY <1>1, <2>2, <2>3 DEF Reaches, gdr_mr_is_mapped
  <2> QED  BY <1>2, <2>1, <2>3, <2>4
<1>6. ASSUME MmapUndo(t) \/ MunmapEnd(t) PROVE MapsInv'
  <2>1. /\ th[t].pc \in {"mmap_undo", "munmap_end"} /\ th'[t].pc = "idle"
        /\ \A u \in Threads : u # t => th'[u] = th[u] /\ th[u].pc \notin MmapPCs \cup MunmapPCs
    BY <1>6, ReturnFrame, Exclusive DEF MmapUndo, MunmapEnd, At
  <2>2. PICK v \in VMAs : v = th[t].vma
    BY <2>1 DEF CallersInv, OpInv
  <2>3. vma'[v].state = "free" /\ \A w \in VMAs : w # v => vma'[w] = vma[w]
    BY <1>6, <2>2 DEF MmapUndo, MunmapEnd, FreeVMA, TypeOK
  <2>4. \A x \in MRs : gdr_mr_is_mapped(x) => mr[x].vma # v
    <3> SUFFICES ASSUME NEW x \in MRs, gdr_mr_is_mapped(x), mr[x].vma = v PROVE FALSE
      OBVIOUS
    <3>1. x \in mr_list /\ mr[x].handle = vma[v].pgoff
      BY DEF MapsInv, LinkInv
    <3>2. vma[v].pgoff = th[t].h
      BY <2>1, <2>2 DEF CallersInv, VmaInv
    <3> QED  BY <2>1, <3>1, <3>2 DEF MapsInv, ClearInv
  <2> QED  BY <1>2, <2>1, <2>3, <2>4
<1> QED  BY <1>3, <1>4, <1>5, <1>6

\* gdrdrv_mmap and gdrdrv_vma_close keep MapsInv: they work on the region with the handle
\* of their VMA, and no other region points to that VMA.
LEMMA HandlerMaps ==
    ASSUME TypeOK, SafeInv, OffsetsInv, TypesInv, CallersInv, MapsInv, NEW t \in Threads,
           \/ MmapRefused(t) \/ (\E k \in Sizes \cup {0} : MmapFails(t, k)) \/ MmapMaps(t)
           \/ gdrdrv_vma_close(t)
    PROVE  MapsInv'
<1> USE DEF MmapPCs, MunmapPCs, PagesPCs, ClearPCs
<1>1. th[t].pc \in {"mmap_body", "close_body"}
  BY DEF MmapRefused, MmapFails, MmapMaps, gdrdrv_vma_close, At
<1>2. PICK m \in MRs : m = th[t].mr /\ m \in mr_list /\ mr[m].handle = th[t].h
  BY <1>1 DEF SafeInv, ListedInv, Writing, TypeOK, CallersInv, ExactInv
<1>3. PICK v \in VMAs : v = th[t].vma /\ vma[v].pgoff = th[t].h /\ vma[v].state \in {"new", "closing"}
  BY <1>1 DEF CallersInv, OpInv, VmaInv
<1>4. th[t].pc = "mmap_body" => ~gdr_mr_is_mapped(m) /\ vma[v].state = "new"
  BY <1>2, <1>3 DEF MapsInv, ClearInv, CallersInv, VmaInv
<1>5. UNCHANGED <<mr_list, nv>>
  BY DEF MmapRefused, MmapFails, MmapMaps, MmapClear, gdrdrv_vma_close, info
<1>6. ASSUME NEW pc, Goto(t, pc)
      PROVE  /\ th'[t].pc = pc /\ th'[t].h = th[t].h /\ th'[t].vma = th[t].vma
             /\ \A u \in Threads : u # t => th'[u] = th[u] /\ th[u].pc \notin MmapPCs \cup MunmapPCs
  BY <1>1, <1>6, GotoFields, Exclusive
<1>7. \A x \in mr_list : mr[x].handle = th[t].h => x = m
  BY <1>2, HandlesDiffer
<1>8. \A x \in MRs : gdr_mr_is_mapped(x) /\ mr[x].vma = v => x = m
  BY <1>3, <1>7 DEF MapsInv, LinkInv
<1>9. /\ \A x \in MRs : /\ mr'[x].handle = mr[x].handle /\ mr'[x].size = mr[x].size
                        /\ mr'[x].page_table = mr[x].page_table
      /\ \A x \in MRs \ {m} : mr'[x] = mr[x]
  <2>1. CASE MmapMaps(t)
    BY <1>2, <2>1 DEF MmapMaps, TypeOK, Region
  <2>2. CASE gdrdrv_vma_close(t)
    BY <1>2, <2>2 DEF gdrdrv_vma_close, TypeOK, Region
  <2>3. CASE MmapClear(t)
    BY <1>2, <2>3 DEF MmapClear, TypeOK, Region
  <2> QED  BY <2>1, <2>2, <2>3 DEF MmapRefused, MmapFails
<1>10. \A w \in VMAs : w # v => vma'[w] = vma[w]
  BY <1>3 DEF MmapRefused, MmapFails, MmapMaps, gdrdrv_vma_close, mm, TypeOK
<1>11. /\ vma'[v].state = vma[v].state /\ vma'[v].pgoff = vma[v].pgoff /\ vma'[v].len = vma[v].len
       /\ th[t].pc = "close_body" => vma' = vma
  <2>1. CASE MmapMaps(t)
    BY <1>3, <2>1 DEF MmapMaps, At, TypeOK, VMA
  <2>3. ASSUME NEW k \in Sizes \cup {0}, MmapFails(t, k)
        PROVE  /\ vma'[v].state = vma[v].state /\ vma'[v].pgoff = vma[v].pgoff /\ vma'[v].len = vma[v].len
               /\ th[t].pc = "close_body" => vma' = vma
    BY <1>3, <2>3 DEF MmapFails, At, TypeOK, VMA
  <2>2. CASE MmapRefused(t) \/ gdrdrv_vma_close(t)
    BY <2>2 DEF MmapRefused, gdrdrv_vma_close, mm
  <2> QED  BY <2>1, <2>2, <2>3
<1>12. RegisteredInv'
  <2>1. th'[t].pc \in MmapPCs => th[t].pc \in MmapPCs /\ th'[t].h = th[t].h
    BY <1>1, <1>6 DEF MmapRefused, MmapFails, MmapMaps, MmapClear, gdrdrv_vma_close, At
  <2>2. th'[t].pc \notin PagesPCs /\ \A u \in Threads : u # t => th'[u] = th[u]
    BY <1>6 DEF MmapRefused, MmapFails, MmapMaps, MmapClear, gdrdrv_vma_close
  <2>3. \A u \in Threads, k \in mr_list' : th'[u].pc \in MmapPCs /\ mr'[k].handle = th'[u].h => nv'[k] # "revoking"
    BY <1>5, <1>9, <2>1, <2>2 DEF MapsInv, RegisteredInv, TypeOK
  <2>4. \A k \in mr_list' : mr'[k].page_table = 1 => nv'[k] # "none"
    BY <1>5, <1>9 DEF MapsInv, RegisteredInv, TypeOK
  <2>5. ASSUME NEW u \in Threads, th'[u].pc \in PagesPCs, mr'[th'[u].mr].page_table = 1
        PROVE  nv'[th'[u].mr] # "none"
    <3>1. th'[u] = th[u] /\ th[u].mr \in MRs
      BY <2>2, <2>5 DEF SafeInv, OwnedInv, Creating
    <3> QED  BY <1>5, <1>9, <2>5, <3>1 DEF MapsInv, RegisteredInv
  <2> QED  BY <2>3, <2>4, <2>5 DEF RegisteredInv
<1>13. ASSUME mr'[m].cpu_mapping_type = "NONE", th'[t].pc \in {"mmap_undo", "munmap_end"}, th'[t].h = th[t].h,
              \A u \in Threads : u # t => th'[u] = th[u] /\ th[u].pc \notin MmapPCs \cup MunmapPCs
       PROVE  MapsInv'
  <2>1. \A x \in MRs : gdr_mr_is_mapped(x)' => gdr_mr_is_mapped(x) /\ x # m /\ mr'[x] = mr[x] /\ mr[x].vma # v
    BY <1>8, <1>9, <1>13 DEF gdr_mr_is_mapped
  <2>2. LinkInv'
    BY <1>5, <1>10, <2>1 DEF MapsInv, LinkInv
  <2>3. ClearInv'
    <3> SUFFICES ASSUME NEW u \in Threads, NEW k \in mr_list', th'[u].pc \in ClearPCs, mr'[k].handle = th'[u].h
                 PROVE  ~gdr_mr_is_mapped(k)'
      BY DEF ClearInv
    <3>1. u = t
      BY <1>13
    <3>2. k = m
      BY <1>5, <1>7, <1>9, <1>13, <3>1 DEF TypeOK
    <3> QED  BY <1>13, <3>2 DEF gdr_mr_is_mapped
  <2>4. ASSUME NEW w \in VMAs, vma'[w].state = "linked", vma'[w].pte # {} PROVE Reaches(w)'
    <3>1. w # v
      BY <1>3, <1>11, <2>4
    <3>2. vma'[w] = vma[w] /\ Reaches(w)
      BY <1>10, <2>4, <3>1 DEF MapsInv, ReachInv
    <3>3. vma[w].mr # m
      <4> SUFFICES ASSUME vma[w].mr = m PROVE FALSE
        OBVIOUS
      <4>1. gdr_mr_is_mapped(m) /\ mr[m].vma = w
        BY <3>2 DEF Reaches
      <4>2. vma[w].pgoff = vma[v].pgoff
        BY <1>2, <1>3, <4>1 DEF MapsInv, LinkInv
      <4> QED  BY <1>3, <2>4, <3>1, <3>2, <4>2 DEF CallersInv, VmaInv
    <3> QED  BY <1>9, <3>2, <3>3 DEF Reaches, gdr_mr_is_mapped
  <2>5. ReachInv'
    BY <1>13, <2>4 DEF ReachInv
  <2> QED  BY <1>12, <2>2, <2>3, <2>5 DEF MapsInv
<1>14. ASSUME MmapClear(t) PROVE MapsInv'
  <2>1. Goto(t, "mmap_undo") /\ mr'[m].cpu_mapping_type = "NONE"
    BY <1>2, <1>14 DEF MmapClear, TypeOK, Region
  <2> QED  BY <1>6, <1>13, <2>1
<1>15. ASSUME gdrdrv_vma_close(t) PROVE MapsInv'
  <2>1. Goto(t, "munmap_end") /\ mr'[m].cpu_mapping_type = "NONE"
    BY <1>2, <1>15 DEF gdrdrv_vma_close, TypeOK, Region
  <2> QED  BY <1>6, <1>13, <2>1
<1>16. ASSUME MmapMaps(t) PROVE MapsInv'
  <2>1. /\ Goto(t, "mmap_link") /\ ~gdr_mr_is_mapped(m)
        /\ mr[m].page_table = 1 /\ ~(vma[v].len > mr[m].size)
    BY <1>2, <1>3, <1>16 DEF MmapMaps, Refusal, TypeOK, Region
  <2>2. mr'[m].cpu_mapping_type # "NONE" /\ mr'[m].vma = v
    <3>1. mr'[m].cpu_mapping_type = ChosenType(m) /\ mr'[m].vma = v
      BY <1>2, <1>3, <1>16 DEF MmapMaps, TypeOK, Region
    <3>2. ChosenType(m) # "NONE"
      BY <2>1, ChosenSupported DEF TypesInv
    <3> QED  BY <3>1, <3>2
  <2>3. vma'[v].mr = m /\ vma'[v].pte = Offsets(vma[v].pgoff, vma[v].len)
    BY <1>2, <1>3, <1>16 DEF MmapMaps, TypeOK, VMA
  <2>4. vma[v].len <= mr[m].size
    <3>1. vma[v].len \in Nat /\ mr[m].size \in Nat
      BY TakenBounds DEF TypeOK, VMA
    <3> QED  BY <2>1, <3>1
  <2>5. LinkInv'
    <3> SUFFICES ASSUME NEW x \in MRs, gdr_mr_is_mapped(x)'
                 PROVE  /\ x \in mr_list'
                        /\ mr'[x].vma \in VMAs /\ vma'[mr'[x].vma].state # "free"
                        /\ vma'[mr'[x].vma].mr = x /\ vma'[mr'[x].vma].pgoff = mr'[x].handle
                        /\ vma'[mr'[x].vma].len <= mr'[x].size
      BY DEF LinkInv
    <3>1. CASE x = m
      BY <1>2, <1>3, <1>5, <1>9, <1>11, <2>2, <2>3, <2>4, <3>1
    <3>2. CASE x # m
      <4>1. gdr_mr_is_mapped(x) /\ mr'[x] = mr[x]
        BY <1>9, <3>2 DEF gdr_mr_is_mapped
      <4>2. mr[x].vma # v
        BY <1>8, <3>2, <4>1
      <4> QED  BY <1>5, <1>10, <4>1, <4>2 DEF MapsInv, LinkInv
    <3> QED  BY <3>1, <3>2
  <2>6. /\ th'[t].pc = "mmap_link" /\ th'[t].vma = v
        /\ \A u \in Threads : u # t => th'[u] = th[u] /\ th[u].pc \notin MmapPCs \cup MunmapPCs
    BY <1>3, <1>6, <2>1
  <2>7. ClearInv'
    BY <2>6 DEF ClearInv
  <2>8. ASSUME NEW w \in VMAs, vma'[w].state = "linked", vma'[w].pte # {} PROVE Reaches(w)'
    <3>1. w # v
      BY <1>3, <1>11, <2>8
    <3>2. vma'[w] = vma[w] /\ Reaches(w)
      BY <1>10, <2>8, <3>1 DEF MapsInv, ReachInv
    <3>3. vma[w].mr # m
      BY <2>1, <3>2 DEF Reaches
    <3> QED  BY <1>9, <3>2, <3>3 DEF Reaches, gdr_mr_is_mapped
  <2>9. Reaches(v)'
    BY <1>11, <2>2, <2>3 DEF Reaches, gdr_mr_is_mapped, Offsets
  <2>10. ASSUME NEW u \in Threads, th'[u].pc = "mmap_link" PROVE Reaches(th[u].vma)'
    <3>1. th'[u].vma = v
      BY <2>6, <2>10
    <3> QED  BY <2>9, <3>1 DEF Reaches
  <2>11. ReachInv'
    BY <2>8, <2>10 DEF ReachInv
  <2> QED  BY <1>12, <2>5, <2>7, <2>11 DEF MapsInv
<1> QED  BY <1>14, <1>15, <1>16 DEF MmapRefused, MmapFails

\* A munmap that finds no region leaves the list as empty as it was.
LEMMA MissMaps ==
    ASSUME TypeOK, SafeInv, CallersInv, MapsInv, NEW t \in Threads, CloseMiss(t)
    PROVE  MapsInv'
<1>1. mr_list = {} /\ UNCHANGED <<mr, mr_list, nv, vma>>
  BY LookupNone DEF CloseMiss, LookupMiss, info, mm
<1>2. th'[t].pc = "munmap_end" /\ \A u \in Threads : u # t => th'[u] = th[u]
  BY GotoFields DEF CloseMiss
<1>3. \A m \in MRs : ~gdr_mr_is_mapped(m)
  BY <1>1 DEF MapsInv, LinkInv
<1>4. LinkInv' /\ ClearInv'
  BY <1>1, <1>3 DEF LinkInv, ClearInv, gdr_mr_is_mapped
<1>5. \A u \in Threads : th[u].pc # "mmap_link"
  BY <1>3 DEF MapsInv, ReachInv, Reaches
<1>6. ReachInv'
  BY <1>1, <1>2, <1>3, <1>5 DEF MapsInv, ReachInv, Reaches
<1>7. RegisteredInv'
  BY <1>1, <1>2 DEF MapsInv, RegisteredInv
<1> QED  BY <1>4, <1>6, <1>7 DEF MapsInv

\* Every step of orderly callers, of the driver and of the callback keeps MapsInv.
LEMMA MapsStep ==
    ASSUME OrderlyCallers, TypeOK, SafeInv, OffsetsInv, TypesInv, CallersInv, MapsInv, [Next]_vars
    PROVE  MapsInv'
<1>1. ASSUME NEW t \in Threads, UnpinRemove(t) PROVE MapsInv'
  <2>1. th[t].mr \in MRs
    BY <1>1 DEF UnpinRemove, At, SafeInv, ListedInv, Waiting, TypeOK
  <2> QED  BY <1>1, <2>1, DestroyMaps
<1>2. ASSUME NEW t \in Threads, Mapping(t) PROVE MapsInv'
  BY <1>1, <1>2, PinMaps, ReleaseMaps, VmaMaps, HandlerMaps, MissMaps DEF Mapping
<1>3. ASSUME NEW m \in MRs, CbStart(m) \/ CbBody(m) PROVE MapsInv'
  BY <1>3, RevokeMaps, DestroyMaps
<1> QED  BY <1>2, <1>3, QuietMaps

\* The inductive invariant for orderly callers.
OrderlyInv == TypeOK /\ SafeInv /\ OffsetsInv /\ TypesInv /\ CallersInv /\ MapsInv

\* All that is needed of orderly callers holds in every reachable state.
LEMMA OrderlyInvariant ==
    ASSUME OrderlyCallers
    PROVE  Spec => []OrderlyInv
<1>1. Init => OrderlyInv
  <2> SUFFICES ASSUME Init PROVE OrderlyInv
    OBVIOUS
  <2>1. TypeOK /\ SafeInv
    BY InitInv
  <2>2. /\ \A m \in MRs : mr[m].page_table = 0 /\ mr[m].cpu_mapping_type = "NONE"
        /\ \A t \in Threads : th[t].pc = "idle" /\ th[t].op = "none"
        /\ \A v \in VMAs : vma[v].state = "free"
        /\ mr_list = {} /\ handles = {} /\ next_handle = 0 /\ next_handle_overflow = 0 /\ closing = 0
    BY DEF Init, NewMR, IdleThread, FreeVMA
  <2>3. OffsetsInv
    BY <2>2, SizeAssumption DEF OffsetsInv
  <2>4. TypesInv
    BY <2>2 DEF TypesInv, TypesOf, gdr_mr_is_mapped
  <2>5. CallersInv
    BY <2>2 DEF CallersInv, OpInv, HandlesInv, KnownInv, ExactInv, UserInv, VmaInv,
       MmapPCs, MunmapPCs, UnpinPCs, Creating
  <2>6. MapsInv
    BY <2>2 DEF MapsInv, LinkInv, ClearInv, ReachInv, RegisteredInv, gdr_mr_is_mapped, MmapPCs
  <2> QED  BY <2>1, <2>3, <2>4, <2>5, <2>6 DEF OrderlyInv
<1>2. OrderlyInv /\ [Next]_vars => OrderlyInv'
  BY TypeStep, SafeStep, SafeHasRegion, OffsetsStep, TypesStep, CallersStep, MapsStep DEF OrderlyInv
<1> QED  BY <1>1, <1>2, PTL DEF Spec

\* Once the NVIDIA driver has its pages back, no page table entry of the process reaches
\* them, for any number of threads, regions and VMAs and however unpin, munmap, the
\* callback and gdr_close interleave, as long as the callers keep to libgdrapi's rules.
THEOREM NothingStale ==
    ASSUME OrderlyCallers
    PROVE  Spec => []NoStaleMapping
<1>1. OrderlyInv => NoStaleMapping
  <2> SUFFICES ASSUME OrderlyInv, NEW v \in VMAs, vma[v].state = "linked", vma[v].pte # {}
               PROVE  nv[vma[v].mr] # "none"
    BY DEF NoStaleMapping
  <2>1. Reaches(v)
    BY DEF OrderlyInv, MapsInv, ReachInv
  <2>2. vma[v].mr \in mr_list /\ mr[vma[v].mr].page_table = 1
    BY <2>1 DEF OrderlyInv, MapsInv, Reaches, LinkInv, TypesInv, TypesOf
  <2> QED  BY <2>2 DEF OrderlyInv, MapsInv, RegisteredInv
<1> QED  BY OrderlyInvariant, <1>1, PTL

\* A region that counts as mapped points to a VMA that exists, so that the callback and
\* unpin read vm_pgoff and the length of a live object.
THEOREM NothingDangling ==
    ASSUME OrderlyCallers
    PROVE  Spec => []NoDanglingVma
<1>1. OrderlyInv => NoDanglingVma
  BY DEF OrderlyInv, MapsInv, LinkInv, NoDanglingVma
<1> QED  BY OrderlyInvariant, <1>1, PTL

\* Only destroying mappings takes entries from a VMA that is linked and stays so.
LEMMA ZapSteps ==
    ASSUME OrderlyCallers, TypeOK, SafeInv, CallersInv, [Next]_vars,
           NEW v \in VMAs, vma[v].state = "linked", vma'[v].state = "linked", vma'[v].pte # vma[v].pte
    PROVE  \/ \E m \in MRs : CbBody(m)
           \/ \E t \in Threads : UnpinRemove(t) \/ RelRemove(t)
<1> SUFFICES ASSUME ~(\E m \in MRs : CbBody(m)), ~(\E t \in Threads : UnpinRemove(t) \/ RelRemove(t))
             PROVE  vma'[v] = vma[v]
  OBVIOUS
<1>1. ASSUME vma' = vma PROVE vma'[v] = vma[v]
  BY <1>1
<1>2. ASSUME NEW t \in Threads, CallStart(t) PROVE vma'[v] = vma[v]
  <2>1. ASSUME \/ \E m \in MRs : PinRefused(t, m) \/ \E n \in Sizes : PinStart(t, m, n)
               \/ \E h \in AnyHandle : UnpinStart(t, h) \/ ReqStart(t, h)
               \/ \E h \in AnyHandle, op \in {"get_info", "get_cb_flag"} : ReadStart(t, op, h)
               \/ RelStart(t)
        PROVE  vma' = vma
    BY <2>1 DEF PinRefused, PinStart, UnpinStart, ReqStart, ReadStart, RelStart, mm
  <2>2. ASSUME NEW h \in AnyHandle, NEW w \in VMAs, NEW n \in Sizes \ {0}, MmapStart(t, h, w, n)
        PROVE  vma'[v] = vma[v]
    BY <2>2 DEF MmapStart, TypeOK
  <2>3. ASSUME NEW w \in VMAs, MunmapStart(t, w) PROVE vma'[v] = vma[v]
    BY <2>3 DEF MunmapStart, TypeOK, VMA
  <2>4. ASSUME NEW x \in VMAs, NEW w \in VMAs, NEW k \in 1 .. (vma[x].len - 1)
        PROVE  ~MunmapHead(t, x, w, k) /\ ~MunmapTail(t, x, w, k)
    BY DEF OrderlyCallers, MunmapHead, MunmapTail, MunmapPart
  <2> QED  BY <1>2, <2>1, <2>2, <2>3, <2>4 DEF CallStart
<1>3. ASSUME NEW t \in Threads, CallStep(t) PROVE vma'[v] = vma[v]
  <2>1. ASSUME NEW from, NEW to,
               LookupHit(t, from, to) \/ LookupMiss(t, from) \/ SemWrite(t, from, to)
        PROVE  vma' = vma
    BY <2>1 DEF LookupHit, LookupMiss, SemWrite, mm
  <2>2. ASSUME \/ UnpinLookup(t) \/ ReadLookup(t) \/ ReqLookup(t) \/ MmapLookup(t) \/ CloseLookup(t)
               \/ UnpinMiss(t) \/ ReadMiss(t) \/ ReqMiss(t) \/ MmapMiss(t) \/ CloseMiss(t)
               \/ ReqSem(t) \/ MmapSem(t) \/ CloseSem(t)
        PROVE  vma' = vma
    BY <2>1, <2>2 DEF UnpinLookup, ReadLookup, ReqLookup, MmapLookup, CloseLookup,
       UnpinMiss, ReadMiss, ReqMiss, MmapMiss, CloseMiss, ReqSem, MmapSem, CloseSem
  <2>3. ASSUME \/ (\E ram \in RamPages : PinGetPages(t, ram)) \/ PinGetPagesFails(t) \/ PinBadPageTable(t)
               \/ PinLock(t) \/ PinPublish(t) \/ PinNoHandle(t) \/ PinCopyToUser(t) \/ PinCopyFails(t)
               \/ FreeDropSem(t) \/ PutPages(t) \/ Kfree(t) \/ ReadSem(t) \/ ReadBody(t) \/ ReadCopyToUser(t)
               \/ (\E type \in MappingTypes : ReqBody(t, type)) \/ MmapRefused(t) \/ gdrdrv_vma_close(t)
               \/ (\E m \in MRs : RelPick(t, m)) \/ RelDone(t)
        PROVE  vma' = vma
    BY <2>3 DEF PinGetPages, PinGetPagesFails, PinBadPageTable, PinLock, PinPublish, PinNoHandle,
       PinCopyToUser, PinCopyFails, FreeDropSem, PutPages, Kfree, ReadSem, ReadBody, ReadCopyToUser,
       ReqBody, MmapRefused, gdrdrv_vma_close, RelPick, RelDone, mm
  <2>4. ASSUME MmapMaps(t) \/ (\E k \in Sizes \cup {0} : MmapFails(t, k)) \/ MmapLink(t) \/ MmapUndo(t) \/ MunmapEnd(t)
        PROVE  vma'[v] = vma[v]
    <3>1. v # th[t].vma
      BY <2>4 DEF MmapMaps, MmapFails, MmapLink, MmapUndo, MunmapEnd, At, CallersInv, VmaInv, MmapPCs, MunmapPCs
    <3> QED  BY <2>4, <3>1 DEF MmapMaps, MmapFails, MmapLink, MmapUndo, MunmapEnd, TypeOK
  <2> QED  BY <1>1, <1>3, <2>2, <2>3, <2>4 DEF CallStep
<1>4. ASSUME (\E m \in MRs : CbStart(m) \/ CbLock(m)) \/ Open \/ GdrClose \/ UNCHANGED vars PROVE vma' = vma
  BY <1>4 DEF CbStart, CbLock, Open, GdrClose, vars, mm
<1> QED  BY <1>1, <1>2, <1>3, <1>4 DEF Next, CallbackStep

\* Destroying the mappings of one region takes entries only from the VMA that reaches it:
\* the offsets of two regions do not overlap, and neither do those of their VMAs.
LEMMA DestroyApart ==
    ASSUME OrderlyInv, NEW m \in MRs, NEW v \in VMAs, vma[v].state = "linked",
           DestroyMappings(m)[v].pte # vma[v].pte
    PROVE  vma[v].mr = m
<1>1. gdr_mr_is_mapped(m) /\ mr[m].vma # None /\ vma[v].pte # {}
  BY DestroyFields DEF DestroyMappings, OrderlyInv
<1>2. PICK w \in VMAs : w = mr[m].vma
  BY <1>1 DEF OrderlyInv, MapsInv, LinkInv
<1>3. m \in mr_list /\ vma[w].pgoff = mr[m].handle /\ vma[w].len <= mr[m].size
  BY <1>1, <1>2 DEF OrderlyInv, MapsInv, LinkInv
<1>4. PICK e : e \in vma[v].pte /\ e \in Offsets(vma[w].pgoff, vma[w].len)
  <2>1. DestroyMappings(m) = gdrdrv_zap_vma(w)
    BY <1>1, <1>2 DEF DestroyMappings
  <2>2. gdrdrv_zap_vma(w)[v].pte = vma[v].pte \ Offsets(vma[w].pgoff, vma[w].len)
    BY DEF gdrdrv_zap_vma, OrderlyInv, TypeOK, VMA
  <2> QED  BY <2>1, <2>2
<1>5. PICK x \in MRs : x = vma[v].mr
  BY <1>1 DEF OrderlyInv, MapsInv, ReachInv, Reaches
<1>6. /\ gdr_mr_is_mapped(x) /\ mr[x].vma = v
      /\ e \in Offsets(vma[v].pgoff, vma[v].len)
  BY <1>1, <1>4, <1>5 DEF OrderlyInv, MapsInv, ReachInv, Reaches
<1>7. x \in mr_list /\ vma[v].pgoff = mr[x].handle /\ vma[v].len <= mr[x].size
  BY <1>6 DEF OrderlyInv, MapsInv, LinkInv
<1>8. /\ mr[m].handle \in Nat /\ mr[m].size \in Nat /\ Taken(m) \in Nat /\ mr[m].size <= Taken(m)
      /\ mr[x].handle \in Nat /\ mr[x].size \in Nat /\ Taken(x) \in Nat /\ mr[x].size <= Taken(x)
      /\ vma[v].len \in Nat /\ vma[w].len \in Nat
  BY TakenBounds DEF OrderlyInv, TypeOK, VMA, Taken
<1>9. /\ e \in Int /\ mr[m].handle <= e /\ e < mr[m].handle + Taken(m)
      /\ mr[x].handle <= e /\ e < mr[x].handle + Taken(x)
  BY <1>3, <1>4, <1>6, <1>7, <1>8 DEF Offsets
<1>10. x # m => \/ mr[m].handle + Taken(m) <= mr[x].handle
                \/ mr[x].handle + Taken(x) <= mr[m].handle
  BY <1>3, <1>7 DEF OrderlyInv, OffsetsInv
<1> QED  BY <1>5, <1>8, <1>9, <1>10

\* Unpinning or revoking one buffer takes page table entries only from its own mapping,
\* never from a neighbour's in the file's offsets, for any sizes of the buffers.
THEOREM ZapsApart ==
    ASSUME OrderlyCallers
    PROVE  Spec => ZapIsolation
<1>1. ASSUME OrderlyInv, [Next]_vars,
             NEW v \in VMAs, vma[v].state = "linked", vma'[v].state = "linked", vma'[v].pte # vma[v].pte
      PROVE  nv'[vma[v].mr] = "none" \/ vma[v].mr \notin mr_list'
  <2>1. TypeOK /\ SafeInv /\ CallersInv
    BY <1>1 DEF OrderlyInv
  <2>2. ASSUME NEW m \in MRs, CbBody(m) PROVE nv'[vma[v].mr] = "none"
    <3>1. vma' = DestroyMappings(m) /\ nv'[m] = "none"
      BY <1>1, <2>1, <2>2 DEF CbBody, TypeOK
    <3> QED  BY <1>1, <3>1, DestroyApart
  <2>3. ASSUME NEW t \in Threads, UnpinRemove(t) \/ RelRemove(t) PROVE vma[v].mr \notin mr_list'
    <3>1. PICK m \in MRs : m = th[t].mr
      BY <2>1, <2>3 DEF UnpinRemove, RelRemove, At, SafeInv, ListedInv, Waiting, TypeOK
    <3>2. vma' = DestroyMappings(m) /\ mr_list' = mr_list \ {m}
      BY <2>3, <3>1 DEF UnpinRemove, RelRemove
    <3> QED  BY <1>1, <3>2, DestroyApart
  <2> QED  BY <1>1, <2>1, <2>2, <2>3, ZapSteps
<1>2. OrderlyInv /\ [Next]_vars =>
         [\A v \in VMAs :
            /\ vma[v].state = "linked" /\ vma'[v].state = "linked"
            /\ vma'[v].pte # vma[v].pte
            => nv'[vma[v].mr] = "none" \/ vma[v].mr \notin mr_list']_vars
  BY <1>1
<1> QED  BY OrderlyInvariant, <1>2, PTL DEF Spec, ZapIsolation

-----------------------------------------------------------------------------
(* The flag that says that the callback has come.                          *)

\* A region whose flag is set has lost its pages, or the callback is just taking them
\* back and holds the semaphore, which no reader shares with a writer.
FlagOf(m) ==
    /\ mr[m].cb_flag = 1 => nv[m] = "none" \/ writer[m] = Callback
    /\ readers[m] # {} => writer[m] = None

\* Who creates a region holds its semaphore, and so does who starts to free one that has
\* pages; before it asks for the pages the flag is not set.
OwnerOf(t) ==
    /\ th[t].pc = "pin_get" => mr[th[t].mr].cb_flag = 0
    /\ th[t].pc \in Creating => writer[th[t].mr] = t
    /\ th[t].pc = "free" => writer[th[t].mr] = t \/ mr[th[t].mr].page_table = 0

FlagInv == (\A m \in MRs : FlagOf(m)) /\ (\A t \in Threads : OwnerOf(t))

\* A step leaves all that alone, of a region and of a thread.
SameFlag(m) == /\ mr'[m].cb_flag = mr[m].cb_flag /\ mr'[m].page_table = mr[m].page_table
               /\ writer'[m] = writer[m] /\ readers'[m] = readers[m] /\ nv'[m] = nv[m]
SameOwner(u) ==
    /\ th'[u].pc \in Creating \cup {"free"} => th'[u].mr = th[u].mr
    /\ th'[u].pc = "pin_get" => th[u].pc = "pin_get"
    /\ th'[u].pc \in Creating => th[u].pc \in Creating
    /\ th'[u].pc = "free" => th[u].pc \in Creating \cup {"free"}

\* A thread is not disturbed by a step that leaves its region alone, ...
LEMMA OwnerKept ==
    ASSUME TypeOK, SafeInv, FlagInv, NEW u \in Threads, SameOwner(u),
           th'[u].pc \in Creating \cup {"free"} => SameFlag(th[u].mr)
    PROVE  OwnerOf(u)'
<1> SUFFICES ASSUME th'[u].pc \in Creating \cup {"free"} PROVE OwnerOf(u)'
  BY DEF OwnerOf, Creating
<1>1. th'[u].mr = th[u].mr /\ SameFlag(th[u].mr) /\ OwnerOf(u)
  BY DEF SameOwner, FlagInv
<1> QED  BY <1>1 DEF OwnerOf, SameOwner, SameFlag, Creating

\* ... so that a step needs a look at one region and one thread only.
LEMMA OneFlag ==
    ASSUME TypeOK, SafeInv, FlagInv, NEW m \in MRs, NEW t \in Threads,
           \A x \in MRs \ {m} : SameFlag(x), FlagOf(m)',
           \A u \in Threads : u # t => th'[u] = th[u], OwnerOf(t)',
           \A u \in Threads : u # t /\ th[u].pc \in Creating \cup {"free"} => th[u].mr # m
    PROVE  FlagInv'
<1>1. \A x \in MRs : FlagOf(x)'
  BY DEF FlagInv, FlagOf, SameFlag
<1>2. ASSUME NEW u \in Threads, u # t PROVE OwnerOf(u)'
  <2>1. th'[u].pc \in Creating \cup {"free"} => SameFlag(th[u].mr)
    BY <1>2 DEF SafeInv, OwnedInv, Creating, Freeing
  <2> QED  BY <1>2, <2>1, OwnerKept DEF SameOwner
<1> QED  BY <1>1, <1>2 DEF FlagInv

\* A step that changes no flag, no lock and no owner keeps FlagInv.
LEMMA NoFlag ==
    ASSUME TypeOK, SafeInv, FlagInv, \A x \in MRs : SameFlag(x), \A u \in Threads : SameOwner(u)
    PROVE  FlagInv'
<1>1. \A x \in MRs : FlagOf(x)'
  BY DEF FlagInv, FlagOf, SameFlag
<1>2. ASSUME NEW u \in Threads PROVE OwnerOf(u)'
  <2>1. th'[u].pc \in Creating \cup {"free"} => SameFlag(th[u].mr)
    BY DEF SafeInv, OwnedInv, SameOwner, Creating, Freeing
  <2> QED  BY <2>1, OwnerKept
<1> QED  BY <1>1, <1>2 DEF FlagInv

\* The steps that begin or end a region, lock or unlock it, or change its registration.
Locking(t) ==
    \/ \E m \in MRs : PinRefused(t, m) \/ \E n \in Sizes : PinStart(t, m, n)
    \/ \E ram \in RamPages : PinGetPages(t, ram)
    \/ PinPublish(t) \/ FreeDropSem(t) \/ PutPages(t) \/ Kfree(t)
    \/ UnpinRemove(t) \/ RelRemove(t) \/ ReqSem(t) \/ MmapSem(t) \/ CloseSem(t)
    \/ ReadSem(t) \/ ReadBody(t)
    \/ (\E type \in MappingTypes : ReqBody(t, type)) \/ MmapRefused(t) \/ MmapMaps(t)
    \/ (\E k \in Sizes \cup {0} : MmapFails(t, k)) \/ gdrdrv_vma_close(t)

\* The others keep FlagInv.
LEMMA QuietFlags ==
    ASSUME TypeOK, SafeInv, FlagInv, [Next]_vars
    PROVE  \/ FlagInv'
           \/ \E t \in Threads : Locking(t)
           \/ \E m \in MRs : CbStart(m) \/ CbLock(m) \/ CbBody(m)
<1> USE DEF Creating
<1>1. ASSUME UNCHANGED <<mr, writer, readers, nv>>, NEW t \in Threads, SameOwner(t),
             \A u \in Threads : u # t => th'[u] = th[u]
      PROVE  FlagInv'
  <2>1. (\A x \in MRs : SameFlag(x)) /\ \A u \in Threads : SameOwner(u)
    BY <1>1 DEF SameFlag, SameOwner
  <2> QED  BY <2>1, NoFlag
<1>2. ASSUME UNCHANGED <<mr, writer, readers, nv>>, NEW t \in Threads, th'[t].pc \notin Creating \cup {"free"},
             \A u \in Threads : u # t => th'[u] = th[u]
      PROVE  FlagInv'
  BY <1>1, <1>2 DEF SameOwner
<1>3. ASSUME NEW t \in Threads, NEW op, NEW pc, NEW h, NEW m, NEW v, Begin(t, op, pc, h, m, v),
             pc \notin Creating \cup {"free"}, UNCHANGED <<mr, writer, readers, nv>>
      PROVE  FlagInv'
  BY <1>2, <1>3, BeginFields
<1>4. ASSUME NEW t \in Threads, NEW pc, Goto(t, pc),
             pc \notin Creating \cup {"free"}, UNCHANGED <<mr, writer, readers, nv>>
      PROVE  FlagInv'
  BY <1>2, <1>4, GotoFields
<1>5. ASSUME NEW t \in Threads, Return(t), UNCHANGED <<mr, writer, readers, nv>> PROVE FlagInv'
  BY <1>2, <1>5, ReturnFrame
<1>6. ASSUME NEW t \in Threads, CallStart(t), ~Locking(t) PROVE FlagInv'
  <2>1. ASSUME NEW h \in AnyHandle,
               \/ UnpinStart(t, h) \/ ReqStart(t, h)
               \/ \E op \in {"get_info", "get_cb_flag"} : ReadStart(t, op, h)
               \/ \E v \in VMAs, n \in Sizes \ {0} : MmapStart(t, h, v, n)
        PROVE  FlagInv'
    BY <1>3, <2>1 DEF UnpinStart, ReqStart, ReadStart, MmapStart
  <2>2. ASSUME NEW v \in VMAs,
               \/ MunmapStart(t, v)
               \/ \E w \in VMAs, k \in 1 .. (vma[v].len - 1) : MunmapHead(t, v, w, k) \/ MunmapTail(t, v, w, k)
        PROVE  FlagInv'
    <3>1. CASE MunmapStart(t, v)
      BY <1>3, <3>1 DEF MunmapStart
    <3>2. CASE \E w \in VMAs, k \in 1 .. (vma[v].len - 1) : MunmapHead(t, v, w, k) \/ MunmapTail(t, v, w, k)
      <4>1. PICK kept, cut, keep, gone : MunmapPart(t, v, kept, keep, cut, gone)
        BY <3>2 DEF MunmapHead, MunmapTail
      <4> QED  BY <1>3, <4>1 DEF MunmapPart
    <3> QED  BY <2>2, <3>1, <3>2
  <2>3. ASSUME RelStart(t) PROVE FlagInv'
    BY <1>3, <2>3 DEF RelStart
  <2> QED  BY <1>6, <2>1, <2>2, <2>3 DEF CallStart, Locking
<1>7. ASSUME NEW t \in Threads, CallStep(t), ~Locking(t) PROVE FlagInv'
  <2>1. ASSUME \/ PinCopyToUser(t) \/ PinCopyFails(t) \/ ReadCopyToUser(t) \/ MmapLink(t) \/ MmapUndo(t)
               \/ MunmapEnd(t) \/ RelDone(t)
        PROVE  FlagInv'
    BY <1>4, <1>5, <2>1 DEF PinCopyToUser, PinCopyFails, ReadCopyToUser, MmapLink, MmapUndo, MunmapEnd, RelDone
  <2>2. ASSUME UnpinMiss(t) \/ ReadMiss(t) \/ ReqMiss(t) \/ MmapMiss(t) \/ CloseMiss(t) PROVE FlagInv'
    BY <1>4, <1>5, <2>2 DEF UnpinMiss, ReadMiss, ReqMiss, MmapMiss, CloseMiss, LookupMiss
  <2>3. ASSUME NEW from, NEW to \in Waiting, LookupHit(t, from, to) PROVE FlagInv'
    <3>1. /\ UNCHANGED <<mr, writer, readers, nv>> /\ th'[t].pc \notin Creating \cup {"free"}
          /\ \A u \in Threads : u # t => th'[u] = th[u]
      BY <2>3 DEF LookupHit, Waiting, TypeOK, Thread
    <3> QED  BY <1>2, <3>1
  <2>4. ASSUME UnpinLookup(t) \/ ReadLookup(t) \/ ReqLookup(t) \/ MmapLookup(t) \/ CloseLookup(t)
        PROVE  FlagInv'
    BY <2>3, <2>4 DEF UnpinLookup, ReadLookup, ReqLookup, MmapLookup, CloseLookup, Waiting
  <2>5. ASSUME PinGetPagesFails(t) \/ PinBadPageTable(t) \/ PinLock(t) \/ PinNoHandle(t) PROVE FlagInv'
    <3>1. UNCHANGED <<mr, writer, readers, nv>> /\ \A u \in Threads : u # t => th'[u] = th[u]
      BY <2>5, GotoFields DEF PinGetPagesFails, PinBadPageTable, PinLock, PinNoHandle
    <3>2. th[t].pc \in Creating /\ th'[t].pc \in {"free", "pin_publish"} /\ th'[t].mr = th[t].mr
      BY <2>5, GotoFields DEF PinGetPagesFails, PinBadPageTable, PinLock, PinNoHandle, At
    <3>3. SameOwner(t)
      BY <3>2 DEF SameOwner
    <3> QED  BY <1>1, <3>1, <3>3
  <2>6. ASSUME NEW m \in MRs, RelPick(t, m) PROVE FlagInv'
    <3>1. /\ UNCHANGED <<mr, writer, readers, nv>> /\ th'[t].pc = "rel_sem"
          /\ \A u \in Threads : u # t => th'[u] = th[u]
      BY <2>6 DEF RelPick, TypeOK, Thread
    <3> QED  BY <1>2, <3>1
  <2> QED  BY <1>7, <2>1, <2>2, <2>4, <2>5, <2>6 DEF CallStep, Locking
<1>8. ASSUME Open \/ GdrClose \/ UNCHANGED vars PROVE FlagInv'
  <2>1. UNCHANGED <<mr, writer, readers, nv, th>>
    BY <1>8 DEF Open, GdrClose, vars
  <2> QED  BY <2>1, NoFlag DEF SameFlag, SameOwner
<1> QED  BY <1>6, <1>7, <1>8 DEF Next, CallbackStep

\* A region changes hands only between one thread and nobody, or the callback and nobody.
LEMMA LockingFlags ==
    ASSUME TypeOK, SafeInv, LocksInv, FlagInv, NEW t \in Threads, Locking(t)
    PROVE  FlagInv'
<1> USE NullAssumption DEF Creating, Freeing
<1>1. ASSUME NEW m \in MRs, PinRefused(t, m) \/ \E n \in Sizes : PinStart(t, m, n) PROVE FlagInv'
  <2>1. mr[m].state = "free" /\ m \notin mr_list
    BY <1>1 DEF PinRefused, PinStart, SafeInv, ListedInv
  <2>2. readers[m] = {} /\ \A u \in Threads : th[u].pc \in Creating \cup {"free"} => th[u].mr # m
    BY <2>1 DEF SafeInv, OwnedInv, ListedInv, LocksInv, ReaderInv, TypeOK
  <2>3. /\ \A x \in MRs \ {m} : SameFlag(x)
        /\ mr'[m].cb_flag = 0 /\ mr'[m].page_table = 0 /\ readers' = readers
        /\ PinRefused(t, m) \/ writer'[m] = t
    BY <1>1 DEF PinRefused, PinStart, NewMR, SameFlag, TypeOK
  <2>4. /\ th'[t].mr = m /\ \A u \in Threads : u # t => th'[u] = th[u]
        /\ th'[t].pc = "free" \/ (th'[t].pc = "pin_get" /\ writer'[m] = t)
    <3>1. CASE PinRefused(t, m)
      BY <3>1, BeginFields DEF PinRefused
    <3>2. CASE \E n \in Sizes : PinStart(t, m, n)
      BY <3>2, BeginFields DEF PinStart, TypeOK
    <3> QED  BY <1>1, <3>1, <3>2
  <2>5. FlagOf(m)' /\ OwnerOf(t)'
    BY <2>2, <2>3, <2>4 DEF FlagOf, OwnerOf
  <2> QED  BY <2>2, <2>3, <2>4, <2>5, OneFlag
<1>2. ASSUME NEW m \in MRs, th[t].mr = m, th[t].pc \in Creating \cup Freeing
      PROVE  \A u \in Threads : u # t /\ th[u].pc \in Creating \cup {"free"} => th[u].mr # m
  BY <1>2 DEF SafeInv, OwnedInv
<1>3. ASSUME NEW ram \in RamPages, PinGetPages(t, ram) PROVE FlagInv'
  <2>1. PICK m \in MRs : m = th[t].mr /\ th[t].pc = "pin_get" /\ mr[m].cb_flag = 0 /\ writer[m] = t
    BY <1>3 DEF PinGetPages, At, SafeInv, OwnedInv, FlagInv, OwnerOf
  <2>2. /\ \A x \in MRs \ {m} : SameFlag(x)
        /\ mr'[m].cb_flag = mr[m].cb_flag /\ UNCHANGED <<writer, readers>>
    BY <1>3, <2>1 DEF PinGetPages, SameFlag, TypeOK, Region
  <2>3. th'[t].pc = "pin_check" /\ th'[t].mr = m /\ \A u \in Threads : u # t => th'[u] = th[u]
    BY <1>3, <2>1, GotoFields DEF PinGetPages
  <2>4. FlagOf(m)' /\ OwnerOf(t)'
    BY <2>1, <2>2, <2>3 DEF FlagOf, OwnerOf, FlagInv
  <2> QED  BY <1>2, <2>1, <2>2, <2>3, <2>4, OneFlag
<1>4. ASSUME PinPublish(t) \/ FreeDropSem(t) PROVE FlagInv'
  <2>1. PICK m \in MRs : m = th[t].mr /\ th[t].pc \in {"pin_publish", "free"}
    BY <1>4 DEF PinPublish, FreeDropSem, At, SafeInv, OwnedInv
  <2>2. writer[m] = t \/ nv[m] = "none"
    BY <2>1 DEF FlagInv, OwnerOf, SafeInv, PagesInv
  <2>3. /\ \A x \in MRs \ {m} : SameFlag(x)
        /\ mr'[m].cb_flag = mr[m].cb_flag /\ writer'[m] = None /\ UNCHANGED <<readers, nv>>
    BY <1>4, <2>1 DEF PinPublish, gdr_generate_mr_handle, FreeDropSem, SameFlag, TypeOK, Region
  <2>4. th'[t].pc \in {"pin_copy", "put", "kfree"} /\ \A u \in Threads : u # t => th'[u] = th[u]
    <3>1. CASE PinPublish(t)
      BY <3>1 DEF PinPublish, TypeOK, Thread
    <3>2. CASE FreeDropSem(t)
      BY <3>2, GotoFields DEF FreeDropSem
    <3> QED  BY <1>4, <3>1, <3>2
  <2>5. FlagOf(m)' /\ OwnerOf(t)'
    BY <2>2, <2>3, <2>4 DEF FlagOf, OwnerOf, FlagInv
  <2> QED  BY <1>2, <2>1, <2>3, <2>4, <2>5, OneFlag
<1>5. ASSUME PutPages(t) \/ Kfree(t) PROVE FlagInv'
  <2>1. PICK m \in MRs : m = th[t].mr /\ th[t].pc \in {"put", "kfree"}
    BY <1>5 DEF PutPages, Kfree, At, SafeInv, OwnedInv
  <2>2. /\ \A x \in MRs \ {m} : SameFlag(x)
        /\ nv'[m] = "none" \/ mr'[m].cb_flag = 0
        /\ UNCHANGED <<writer, readers>>
    BY <1>5, <2>1 DEF PutPages, Kfree, NewMR, SameFlag, TypeOK
  <2>3. th'[t].pc \in {"kfree", "idle", "rel_next"} /\ \A u \in Threads : u # t => th'[u] = th[u]
    <3>1. CASE PutPages(t)
      BY <3>1, GotoFields DEF PutPages
    <3>2. CASE Kfree(t)
      BY <3>2 DEF Kfree, IdleThread, TypeOK
    <3> QED  BY <1>5, <3>1, <3>2
  <2>4. FlagOf(m)' /\ OwnerOf(t)'
    BY <2>2, <2>3 DEF FlagOf, OwnerOf, FlagInv
  <2> QED  BY <1>2, <2>1, <2>2, <2>3, <2>4, OneFlag
<1>6. ASSUME NEW m \in mr_list
      PROVE  m \in MRs /\ \A u \in Threads : u # t /\ th[u].pc \in Creating \cup {"free"} => th[u].mr # m
  BY <1>6 DEF SafeInv, OwnedInv, TypeOK
<1>7. ASSUME UnpinRemove(t) \/ RelRemove(t) \/ ReqSem(t) \/ MmapSem(t) \/ CloseSem(t) PROVE FlagInv'
  <2>1. PICK m \in mr_list : m = th[t].mr
    BY <1>7 DEF UnpinRemove, RelRemove, ReqSem, MmapSem, CloseSem, SemWrite, At, SafeInv, ListedInv, Waiting
  <2>2. writer[m] = None /\ readers[m] = {} /\ readers' = readers /\ nv' = nv /\ writer' = [writer EXCEPT ![m] = t]
    BY <1>7, <2>1 DEF UnpinRemove, RelRemove, ReqSem, MmapSem, CloseSem, SemWrite, CanWrite
  <2>3. \A x \in MRs : mr'[x].cb_flag = mr[x].cb_flag /\ mr'[x].page_table = mr[x].page_table
    BY <1>7 DEF UnpinRemove, RelRemove, ReqSem, MmapSem, CloseSem, SemWrite, TypeOK, Region
  <2>4. /\ th'[t].pc \notin Creating /\ th'[t].mr = th[t].mr
        /\ \A u \in Threads : u # t => th'[u] = th[u]
    BY <1>7, GotoFields DEF UnpinRemove, RelRemove, ReqSem, MmapSem, CloseSem, SemWrite
  <2>5. \A x \in MRs \ {m} : SameFlag(x)
    BY <2>2, <2>3 DEF SameFlag, TypeOK
  <2>6. FlagOf(m)' /\ OwnerOf(t)'
    BY <1>6, <2>1, <2>2, <2>3, <2>4 DEF FlagOf, OwnerOf, FlagInv, TypeOK
  <2> QED  BY <1>6, <2>4, <2>5, <2>6, OneFlag
<1>8. ASSUME ReadSem(t) \/ ReadBody(t) PROVE FlagInv'
  <2>1. PICK m \in mr_list : m = th[t].mr
    BY <1>8 DEF ReadSem, ReadBody, At, SafeInv, ListedInv, Waiting
  <2>2. UNCHANGED <<mr, writer, nv>> /\ \A x \in MRs \ {m} : readers'[x] = readers[x]
    BY <1>8, <2>1 DEF ReadSem, ReadBody, TypeOK
  <2>3. readers'[m] # {} => readers[m] # {} \/ writer[m] = None
    BY <1>6, <1>8, <2>1 DEF ReadSem, CanRead, ReadBody, TypeOK
  <2>4. th'[t].pc \in {"read_body", "read_copy"} /\ \A u \in Threads : u # t => th'[u] = th[u]
    <3>1. CASE ReadSem(t)
      BY <3>1, GotoFields DEF ReadSem
    <3>2. CASE ReadBody(t)
      BY <3>2 DEF ReadBody, TypeOK, Thread
    <3> QED  BY <1>8, <3>1, <3>2
  <2>5. \A x \in MRs \ {m} : SameFlag(x)
    BY <2>2 DEF SameFlag
  <2>6. FlagOf(m)' /\ OwnerOf(t)'
    BY <1>6, <2>2, <2>3, <2>4 DEF FlagOf, OwnerOf, FlagInv
  <2> QED  BY <1>6, <2>4, <2>5, <2>6, OneFlag
<1>9. ASSUME \/ (\E type \in MappingTypes : ReqBody(t, type)) \/ MmapRefused(t) \/ MmapMaps(t)
             \/ (\E k \in Sizes \cup {0} : MmapFails(t, k)) \/ gdrdrv_vma_close(t)
      PROVE  FlagInv'
  <2>1. PICK m \in mr_list : m = th[t].mr /\ writer[m] = t
    BY <1>9 DEF ReqBody, MmapRefused, MmapFails, MmapMaps, gdrdrv_vma_close, At, SafeInv, ListedInv, Writing
  <2>2. UNCHANGED <<readers, nv>> /\ writer' = [writer EXCEPT ![m] = None]
    BY <1>9, <2>1 DEF ReqBody, MmapRefused, MmapFails, MmapClear, MmapMaps, gdrdrv_vma_close
  <2>3. \A x \in MRs : mr'[x].cb_flag = mr[x].cb_flag /\ mr'[x].page_table = mr[x].page_table
    <3>1. CASE \E type \in MappingTypes : ReqBody(t, type)
      BY <3>1 DEF ReqBody, TypeOK, Region
    <3>2. CASE MmapMaps(t)
      BY <3>2 DEF MmapMaps, TypeOK, Region
    <3>3. CASE gdrdrv_vma_close(t)
      BY <3>3 DEF gdrdrv_vma_close, TypeOK, Region
    <3>4. CASE MmapClear(t)
      BY <3>4 DEF MmapClear, TypeOK, Region
    <3> QED  BY <1>9, <3>1, <3>2, <3>3, <3>4 DEF MmapRefused, MmapFails
  <2>4. th'[t].pc \in {"idle", "mmap_undo", "mmap_link", "munmap_end"} /\ \A u \in Threads : u # t => th'[u] = th[u]
    <3>1. CASE \E type \in MappingTypes : ReqBody(t, type)
      BY <3>1, ReturnFrame DEF ReqBody
    <3>2. CASE Goto(t, "mmap_link") \/ Goto(t, "munmap_end") \/ Goto(t, "mmap_undo")
      BY <3>2, GotoFields
    <3>3. CASE MmapMaps(t)
      BY <3>2, <3>3 DEF MmapMaps
    <3>4. CASE gdrdrv_vma_close(t)
      BY <3>2, <3>4 DEF gdrdrv_vma_close
    <3>5. CASE MmapClear(t)
      BY <3>2, <3>5 DEF MmapClear
    <3> QED  BY <1>9, <3>1, <3>3, <3>4, <3>5 DEF MmapRefused, MmapFails
  <2>5. \A x \in MRs \ {m} : SameFlag(x)
    BY <2>2, <2>3 DEF SameFlag, TypeOK
  <2>6. FlagOf(m)' /\ OwnerOf(t)'
    BY <1>6, <2>1, <2>2, <2>3, <2>4 DEF FlagOf, OwnerOf, FlagInv, TypeOK
  <2> QED  BY <1>6, <2>4, <2>5, <2>6, OneFlag
<1> QED  BY <1>1, <1>3, <1>4, <1>5, <1>7, <1>8, <1>9 DEF Locking

\* The callback sets the flag with the semaphore held for writing, so no reader sees it
\* before the NVIDIA driver has its pages back.
LEMMA CallbackFlags ==
    ASSUME TypeOK, SafeInv, LocksInv, FlagInv, NEW m \in MRs, CbStart(m) \/ CbLock(m) \/ CbBody(m)
    PROVE  FlagInv'
<1> USE NullAssumption DEF Creating, Freeing
<1>1. th' = th /\ readers' = readers
  BY DEF CbStart, CbLock, CbBody
<1>2. \A x \in MRs \ {m} : SameFlag(x)
  <2>1. CASE CbStart(m)
    BY <2>1 DEF CbStart, SameFlag, TypeOK
  <2>2. CASE CbLock(m)
    BY <2>2 DEF CbLock, SameFlag, TypeOK
  <2>3. CASE CbBody(m)
    BY <2>3 DEF CbBody, SameFlag, TypeOK
  <2> QED  BY <2>1, <2>2, <2>3
<1>3. FlagOf(m)'
  <2>1. CASE CbStart(m)
    BY <1>1, <2>1 DEF CbStart, FlagOf, FlagInv, TypeOK
  <2>2. CASE CbLock(m)
    BY <1>1, <2>2 DEF CbLock, CanWrite, FlagOf, FlagInv, TypeOK
  <2>3. CASE CbBody(m)
    BY <1>1, <2>3 DEF CbBody, FlagOf, FlagInv, TypeOK
  <2> QED  BY <2>1, <2>2, <2>3
<1>4. ASSUME NEW u \in Threads PROVE OwnerOf(u)'
  <2>1. CASE th[u].pc \notin Creating \cup {"free"}
    BY <1>1, <2>1 DEF OwnerOf
  <2>2. CASE th[u].pc \in Creating \cup {"free"} /\ th[u].mr # m
    <3>1. SameFlag(th[u].mr)
      BY <1>2, <2>2 DEF SafeInv, OwnedInv
    <3> QED  BY <1>1, <3>1, OwnerKept DEF SameOwner
  <2>3. CASE th[u].pc \in Creating \cup {"free"} /\ th[u].mr = m
    <3>1. nv[m] # "none" /\ mr[m].page_table = 1
      BY DEF CbStart, CbLock, CbBody, SafeInv, PagesInv
    <3>2. writer[m] = u /\ th[u].pc # "pin_get"
      BY <2>3, <3>1 DEF FlagInv, OwnerOf, LocksInv, FreshInv
    <3>3. CbStart(m)
      BY <3>2 DEF CbLock, CanWrite, CbBody
    <3> QED  BY <1>1, <2>3, <3>2, <3>3 DEF CbStart, OwnerOf
  <2> QED  BY <2>1, <2>2, <2>3
<1> QED  BY <1>2, <1>3, <1>4 DEF FlagInv, FlagOf, SameFlag

\* FlagInv is inductive.
LEMMA FlagStep ==
    TypeOK /\ SafeInv /\ LocksInv /\ FlagInv /\ [Next]_vars => FlagInv'
BY QuietFlags, LockingFlags, CallbackFlags

\* Only ReadBody takes an answer.
LEMMA AnswerSteps ==
    ASSUME TypeOK, [Next]_vars, NEW t \in Threads, th[t].pc # "read_copy", th'[t].pc = "read_copy"
    PROVE  ReadBody(t)
<1> SUFFICES ASSUME ~ReadBody(t) PROVE FALSE
  OBVIOUS
<1>1. ASSUME th' = th PROVE FALSE
  BY <1>1
<1>2. ASSUME NEW u \in Threads, u # t => th'[t] = th[t], u = t => th'[t].pc # "read_copy" PROVE FALSE
  BY <1>2
<1>3. ASSUME NEW u \in Threads, Return(u) PROVE FALSE
  BY <1>2, <1>3, ReturnFrame
<1>4. ASSUME NEW u \in Threads, NEW pc, Goto(u, pc), pc # "read_copy" PROVE FALSE
  BY <1>2, <1>4, GotoFrame
<1>5. ASSUME NEW u \in Threads, NEW op, NEW pc, NEW h, NEW m, NEW v, Begin(u, op, pc, h, m, v), pc # "read_copy"
      PROVE  FALSE
  BY <1>2, <1>5, BeginFrame
<1>6. ASSUME NEW u \in Threads, CallStart(u) PROVE FALSE
  <2>1. PICK op, pc, h, m, v : Begin(u, op, pc, h, m, v) /\ pc # "read_copy"
    <3>1. CASE \E m \in MRs : PinRefused(u, m) \/ \E n \in Sizes : PinStart(u, m, n)
      BY <3>1 DEF PinRefused, PinStart
    <3>2. CASE \E h \in AnyHandle :
                  \/ UnpinStart(u, h) \/ ReqStart(u, h)
                  \/ \E op \in {"get_info", "get_cb_flag"} : ReadStart(u, op, h)
      BY <3>2 DEF UnpinStart, ReqStart, ReadStart
    <3>3. CASE \E h \in AnyHandle, v \in VMAs, n \in Sizes \ {0} : MmapStart(u, h, v, n)
      BY <3>3 DEF MmapStart
    <3>4. CASE \E v \in VMAs : MunmapStart(u, v)
      BY <3>4 DEF MunmapStart
    <3>6. CASE RelStart(u)
      BY <3>6 DEF RelStart
    <3>5. CASE \E v, w \in VMAs : \E k \in 1 .. (vma[v].len - 1) : MunmapHead(u, v, w, k) \/ MunmapTail(u, v, w, k)
      BY <3>5 DEF MunmapHead, MunmapTail, MunmapPart
    <3> QED  BY <1>6, <3>1, <3>2, <3>3, <3>4, <3>5, <3>6 DEF CallStart
  <2> QED  BY <1>5, <2>1
<1>7. ASSUME NEW u \in Threads, CallStep(u) PROVE FALSE
  <2>1. ASSUME \/ PinCopyToUser(u) \/ UnpinMiss(u) \/ ReadMiss(u) \/ ReadCopyToUser(u) \/ ReqMiss(u)
               \/ (\E type \in MappingTypes : ReqBody(u, type)) \/ MmapLink(u) \/ MmapUndo(u)
               \/ MunmapEnd(u) \/ RelDone(u)
        PROVE  FALSE
    BY <1>3, <2>1 DEF PinCopyToUser, UnpinMiss, ReadMiss, ReadCopyToUser, ReqMiss, ReqBody, MmapLink,
       MmapUndo, MunmapEnd, RelDone
  <2>2. ASSUME \/ (\E ram \in RamPages : PinGetPages(u, ram)) \/ PinGetPagesFails(u)
               \/ PinBadPageTable(u) \/ PinLock(u) \/ PinNoHandle(u) \/ PinCopyFails(u)
               \/ UnpinRemove(u) \/ PutPages(u) \/ ReadSem(u)
        PROVE  FALSE
    BY <1>4, <2>2 DEF PinGetPages, PinGetPagesFails, PinBadPageTable, PinLock, PinNoHandle,
       PinCopyFails, UnpinRemove, PutPages, ReadSem
  <2>3. ASSUME FreeDropSem(u) PROVE FALSE
    BY <1>4, <2>3 DEF FreeDropSem
  <2>4. ASSUME ReqSem(u) \/ MmapSem(u) \/ CloseSem(u) PROVE FALSE
    BY <1>4, <2>4 DEF ReqSem, MmapSem, CloseSem, SemWrite
  <2>5. ASSUME \/ MmapMiss(u) \/ CloseMiss(u) \/ MmapRefused(u) \/ MmapMaps(u)
               \/ (\E k \in Sizes \cup {0} : MmapFails(u, k))
               \/ gdrdrv_vma_close(u) \/ RelRemove(u)
        PROVE  FALSE
    BY <1>4, <2>5 DEF MmapMiss, CloseMiss, MmapRefused, MmapMaps, MmapFails, MmapClear,
       gdrdrv_vma_close, RelRemove
  <2>6. ASSUME NEW from, NEW to, LookupHit(u, from, to), to # "read_copy" PROVE FALSE
    BY <1>2, <2>6 DEF LookupHit, TypeOK, Thread
  <2>7. ASSUME UnpinLookup(u) \/ ReadLookup(u) \/ ReqLookup(u) \/ MmapLookup(u) \/ CloseLookup(u)
        PROVE  FALSE
    BY <2>6, <2>7 DEF UnpinLookup, ReadLookup, ReqLookup, MmapLookup, CloseLookup
  <2>8. ASSUME PinPublish(u) PROVE FALSE
    BY <1>2, <2>8 DEF PinPublish, TypeOK, Thread
  <2>9. ASSUME Kfree(u) PROVE FALSE
    BY <1>2, <2>9 DEF Kfree, TypeOK, IdleThread
  <2>10. ASSUME ReadBody(u) PROVE FALSE
    BY <1>2, <2>10 DEF ReadBody, TypeOK
  <2>11. ASSUME NEW m \in MRs, RelPick(u, m) PROVE FALSE
    BY <1>2, <2>11 DEF RelPick, TypeOK, Thread
  <2> QED  BY <1>7, <2>1, <2>2, <2>3, <2>4, <2>5, <2>7, <2>8, <2>9, <2>10, <2>11 DEF CallStep
<1>8. ASSUME (\E m \in MRs : CbStart(m) \/ CbLock(m) \/ CbBody(m)) \/ Open \/ GdrClose \/ UNCHANGED vars PROVE th' = th
  BY <1>8 DEF CbStart, CbLock, CbBody, Open, GdrClose, vars
<1> QED  BY <1>1, <1>6, <1>7, <1>8 DEF Next, CallbackStep

\* A caller that is told that the callback has come can rely on it: when gdrdrv_get_cb_flag
\* reads the flag, the callback has freed the page table and no VMA reaches the pages.
THEOREM FlagReliable ==
    ASSUME OrderlyCallers
    PROVE  Spec => FlagMeansGone
<1>1. Init => FlagInv
  <2> SUFFICES ASSUME Init PROVE FlagInv
    OBVIOUS
  <2>1. /\ \A m \in MRs : mr[m].cb_flag = 0 /\ readers[m] = {}
        /\ \A t \in Threads : th[t].pc = "idle"
    BY DEF Init, NewMR, IdleThread
  <2> QED  BY <2>1 DEF FlagInv, FlagOf, OwnerOf, Creating
<1>2. Spec => []FlagInv
  <2>1. (TypeOK /\ SafeInv /\ LocksInv /\ CountInv) /\ FlagInv /\ [Next]_vars => FlagInv'
    BY FlagStep
  <2> QED  BY <1>1, <2>1, LocksInvariant, PTL DEF Spec
<1>3. ASSUME OrderlyInv, FlagInv, [Next]_vars,
             NEW t \in Threads, ~At(t, "read_copy"), th'[t].pc = "read_copy",
             th'[t].op = "get_cb_flag", th'[t].val = 1
      PROVE  /\ nv[th[t].mr] = "none"
             /\ \A v \in VMAs : vma[v].mr = th[t].mr /\ vma[v].state = "linked" => vma[v].pte = {}
  <2>1. TypeOK /\ SafeInv /\ ReadBody(t)
    BY <1>3, AnswerSteps DEF At, OrderlyInv
  <2>2. PICK m \in MRs : m = th[t].mr /\ t \in readers[m] /\ m \in mr_list
    BY <2>1 DEF ReadBody, At, SafeInv, ListedInv, TypeOK
  <2>3. mr[m].cb_flag = 1
    <3>1. th'[t].op = th[t].op /\ th'[t].val = Answer(th[t].op, m)
      BY <2>1, <2>2 DEF ReadBody, TypeOK, Thread
    <3> QED  BY <1>3, <3>1 DEF Answer
  <2>4. nv[m] = "none"
    BY <1>3, <2>2, <2>3, NullAssumption DEF FlagInv, FlagOf
  <2>5. ASSUME NEW v \in VMAs, vma[v].mr = m, vma[v].state = "linked", vma[v].pte # {} PROVE FALSE
    <3>1. Reaches(v)
      BY <1>3, <2>5 DEF OrderlyInv, MapsInv, ReachInv
    <3>2. mr[m].page_table = 1
      BY <1>3, <2>5, <3>1 DEF OrderlyInv, Reaches, TypesInv, TypesOf
    <3> QED  BY <1>3, <2>2, <2>4, <3>2 DEF OrderlyInv, MapsInv, RegisteredInv
  <2> QED  BY <2>2, <2>4, <2>5
<1>4. OrderlyInv /\ FlagInv /\ [Next]_vars =>
         [\A t \in Threads :
            /\ ~At(t, "read_copy") /\ th'[t].pc = "read_copy"
            /\ th'[t].op = "get_cb_flag" /\ th'[t].val = 1
            => /\ nv[th[t].mr] = "none"
               /\ \A v \in VMAs : vma[v].mr = th[t].mr /\ vma[v].state = "linked" => vma[v].pte = {}]_vars
  BY <1>3
<1> QED  BY OrderlyInvariant, <1>2, <1>4, PTL DEF Spec, FlagMeansGone

=============================================================================
