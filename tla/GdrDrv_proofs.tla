--------------------------- MODULE GdrDrv_proofs ---------------------------
(* Theorems about GdrDrv, for every value of its constants. *)
EXTENDS GdrDrv, TLAPS, WellFoundedInduction

\* A list that is not empty has a last region, the one with the smallest handle.
LEMMA LastOnList ==
    ASSUME TypeOK, mr_list # {}
    PROVE  Last \in mr_list
<1> DEFINE T == {mr[m].handle : m \in mr_list}
           R == OpToRel(<, Nat)
<1>1. T \subseteq Nat /\ T # {}
  BY DEF TypeOK, Region
<1>2. PICK x \in T : \A y \in T : ~ (<<y, x>> \in R)
  <2> HIDE DEF T, R
  <2>1. IsWellFoundedOn(R, Nat)
    BY NatLessThanWellFounded DEF R
  <2> QED  BY <1>1, <2>1, WFMin
<1>3. \A y \in T : x <= y
  <2> HIDE DEF T
  <2>1. SUFFICES ASSUME NEW y \in T PROVE x <= y
    OBVIOUS
  <2>2. ~ (<<y, x>> \in {ss \in Nat \X Nat : ss[1] < ss[2]})
    BY <1>2 DEF OpToRel
  <2>3. x \in Nat /\ y \in Nat
    BY <1>1, <1>2
  <2>4. <<y, x>> \in Nat \X Nat /\ <<y, x>>[1] = y /\ <<y, x>>[2] = x
    BY <2>3
  <2>5. ~ (y < x)
    BY <2>2, <2>4
  <2> QED  BY <2>3, <2>5
<1>4. PICK m \in mr_list : mr[m].handle = x
  BY <1>2
<1>5. \A k \in mr_list : mr[m].handle <= mr[k].handle
  BY <1>3, <1>4
<1> QED  BY <1>5 DEF Last

\* What the handlers get from the list: a region on it, or none.
LEMMA LookupType ==
    ASSUME TypeOK, NEW h
    PROVE  gdr_mr_from_handle_unlocked(h) \in mr_list \cup {None}
<1>1. CASE \E m \in mr_list : mr[m].handle = h
  BY <1>1 DEF gdr_mr_from_handle_unlocked
<1>2. CASE ~(\E m \in mr_list : mr[m].handle = h)
  BY <1>2, LastOnList DEF gdr_mr_from_handle_unlocked
<1> QED  BY <1>1, <1>2

\* The fields of a region, a VMA and a thread keep their types under the updates
\* that the handlers make.
LEMMA RegionUpdates ==
    ASSUME NEW r \in Region
    PROVE  /\ NewMR \in Region
           /\ [NewMR EXCEPT !.state = "free"] \in Region
           /\ \A n \in Sizes : [NewMR EXCEPT !.size = n] \in Region
           /\ \A x \in {0, 1} : [r EXCEPT !.page_table = x] \in Region
           /\ \A x \in {0, 1}, y \in BOOLEAN : [r EXCEPT !.page_table = x, !.ram = y] \in Region
           /\ \A x \in {0, 1} : [r EXCEPT !.cb_flag = x] \in Region
           /\ \A x \in Nat : [r EXCEPT !.handle = x] \in Region
           /\ \A x \in MappingTypes : [r EXCEPT !.cpu_mapping_type = x] \in Region
           /\ \A x \in MappingTypes : [r EXCEPT !.req_mapping_type = x] \in Region
           /\ \A v \in VMAs \cup {None}, x \in MappingTypes :
                 [r EXCEPT !.vma = v, !.cpu_mapping_type = x] \in Region
           /\ \A y \in {0, 1}, x \in MappingTypes :
                 [r EXCEPT !.page_table = y, !.cpu_mapping_type = x] \in Region
BY DEF Region, NewMR, MappingTypes

\* ... of a VMA, ...
LEMMA VMAUpdates ==
    ASSUME NEW w \in VMA
    PROVE  /\ FreeVMA \in VMA
           /\ \A h, n \in Nat : [FreeVMA EXCEPT !.state = "new", !.pgoff = h, !.len = n] \in VMA
           /\ \A m \in MRs \cup {None}, p \in SUBSET Nat : [w EXCEPT !.mr = m, !.pte = p] \in VMA
           /\ \A x : [w EXCEPT !.pte = @ \ x] \in VMA
           /\ [w EXCEPT !.state = "linked"] \in VMA
           /\ [w EXCEPT !.state = "closing", !.pte = {}] \in VMA
BY DEF VMA, FreeVMA

\* The two parts that a munmap of some pages of v makes of it.
LEMMA PartType ==
    ASSUME TypeOK, NEW v \in VMAs, NEW k \in 1 .. (vma[v].len - 1)
    PROVE  /\ Part(v, vma[v].pgoff, k) \in VMA
           /\ Part(v, vma[v].pgoff + k, vma[v].len - k) \in VMA
<1>1. vma[v] \in VMA /\ vma[v].pgoff \in Nat /\ vma[v].len \in Nat
  BY DEF TypeOK, VMA
<1>2. k \in Nat /\ vma[v].len - k \in Nat /\ vma[v].pgoff + k \in Nat
  BY <1>1
<1>3. \A first, n \in Nat : Part(v, first, n) \in VMA
  BY <1>1 DEF Part, VMA
<1> QED  BY <1>1, <1>2, <1>3

\* ... of the record of a thread, ...
LEMMA ThreadRecords ==
    ASSUME NEW x \in Thread, NEW pc \in PCs
    PROVE  /\ \A m \in MRs \cup {None} : [x EXCEPT !.pc = pc, !.mr = m] \in Thread
           /\ \A h \in Nat : [x EXCEPT !.pc = pc, !.h = h] \in Thread
           /\ \A v \in {0, 1} : [x EXCEPT !.pc = pc, !.val = v] \in Thread
           /\ [IdleThread EXCEPT !.pc = pc, !.op = "release"] \in Thread
           /\ IdleThread \in Thread
<1>1. IdleThread \in Thread
  BY DEF IdleThread, Thread, PCs
<1>2. [IdleThread EXCEPT !.pc = pc, !.op = "release"] \in Thread
  BY DEF IdleThread, Thread
<1>3. \A m \in MRs \cup {None} : [x EXCEPT !.pc = pc, !.mr = m] \in Thread
  BY DEF Thread
<1>4. \A h \in Nat : [x EXCEPT !.pc = pc, !.h = h] \in Thread
  BY DEF Thread
<1>5. \A v \in {0, 1} : [x EXCEPT !.pc = pc, !.val = v] \in Thread
  BY DEF Thread
<1> QED  BY <1>1, <1>2, <1>3, <1>4, <1>5

\* ... and of the threads.
LEMMA ThreadUpdates ==
    ASSUME TypeOK, NEW t \in Threads
    PROVE  /\ \A pc \in PCs : Goto(t, pc) => th' \in [Threads -> Thread]
           /\ Return(t) => th' \in [Threads -> Thread]
           /\ \A op \in AllCalls \cup {"release"}, pc \in PCs, h \in Nat,
                 m \in MRs \cup {None}, v \in VMAs \cup {None} :
                    Begin(t, op, pc, h, m, v) => th' \in [Threads -> Thread]
<1>1. IdleThread \in Thread
  BY DEF IdleThread, Thread, PCs
<1>2. ASSUME NEW pc \in PCs, Goto(t, pc) PROVE th' \in [Threads -> Thread]
  BY <1>2 DEF TypeOK, Goto, Thread
<1>3. ASSUME Return(t) PROVE th' \in [Threads -> Thread]
  BY <1>1, <1>3 DEF TypeOK, Return
<1>4. ASSUME NEW op \in AllCalls \cup {"release"}, NEW pc \in PCs, NEW h \in Nat,
             NEW m \in MRs \cup {None}, NEW v \in VMAs \cup {None}, Begin(t, op, pc, h, m, v)
      PROVE  th' \in [Threads -> Thread]
  <2>1. [IdleThread EXCEPT !.pc = pc, !.op = op, !.h = h, !.mr = m, !.vma = v] \in Thread
    BY <1>4 DEF IdleThread, Thread
  <2> QED  BY <1>4, <2>1 DEF TypeOK, Begin
<1> QED  BY <1>2, <1>3, <1>4

\* The page table entries that are left after the mappings of a region are destroyed.
LEMMA DestroyType ==
    ASSUME TypeOK, NEW m
    PROVE  DestroyMappings(m) \in [VMAs -> VMA]
BY VMAUpdates DEF TypeOK, DestroyMappings, gdrdrv_zap_vma

\* gdrdrv_mmap gives a region a mapping type.
LEMMA ChosenIsType ==
    ASSUME TypeOK, NEW m \in MRs
    PROVE  ChosenType(m) \in MappingTypes
<1>1. mr[m].req_mapping_type \in MappingTypes
  BY DEF TypeOK, Region
<1> QED  BY <1>1 DEF ChosenType, MappingTypes

\* A thread that is going to use a region has one.
HasRegion == \A t \in Threads : Uses(t) => th[t].mr \in MRs

\* Every step keeps the types, given that a thread that uses a region has one.
LEMMA TypeStep == TypeOK /\ HasRegion /\ [Next]_vars => TypeOK'
<1> SUFFICES ASSUME TypeOK, HasRegion, [Next]_vars PROVE TypeOK'
  OBVIOUS
<1> USE SizeAssumption
<1>1. ASSUME NEW t \in Threads, NEW from, NEW to \in PCs, LookupHit(t, from, to) PROVE TypeOK'
  <2>1. gdr_mr_from_handle_unlocked(th[t].h) \in MRs
    BY <1>1, LookupType DEF LookupHit, TypeOK
  <2>2. th' \in [Threads -> Thread]
    BY <1>1, <2>1, ThreadRecords DEF LookupHit, TypeOK
  <2> QED  BY <1>1, <2>2 DEF LookupHit, TypeOK, info, mm, user
<1>2. ASSUME NEW t \in Threads, NEW from, LookupMiss(t, from), th' \in [Threads -> Thread] PROVE TypeOK'
  BY <1>2 DEF LookupMiss, TypeOK, info, mm, user
<1>3. ASSUME NEW t \in Threads, NEW from, NEW to \in PCs, SemWrite(t, from, to) PROVE TypeOK'
  BY <1>3, ThreadUpdates DEF SemWrite, TypeOK, info, mm, user
<1>4. ASSUME Open PROVE TypeOK'
  BY <1>4 DEF TypeOK, Open, info, mm, user
<1>5. ASSUME GdrClose PROVE TypeOK'
  BY <1>5 DEF TypeOK, GdrClose, info, mm, user
<1>6. ASSUME NEW t \in Threads, NEW m \in MRs, NEW n \in Sizes, PinStart(t, m, n) PROVE TypeOK'
  <2>1. mr' \in [MRs -> Region]
    BY <1>6, RegionUpdates DEF TypeOK, PinStart
  <2>2. th' \in [Threads -> Thread]
    BY <1>6, ThreadUpdates DEF PinStart, PCs, AllCalls
  <2> QED  BY <1>6, <2>1, <2>2 DEF TypeOK, PinStart, info, mm, user
<1>7. ASSUME NEW t \in Threads, NEW m \in MRs, PinRefused(t, m) PROVE TypeOK'
  <2>1. mr' \in [MRs -> Region]
    BY <1>7, RegionUpdates DEF TypeOK, PinRefused
  <2>2. th' \in [Threads -> Thread]
    BY <1>7, ThreadUpdates DEF PinRefused, PCs, AllCalls
  <2> QED  BY <1>7, <2>1, <2>2 DEF TypeOK, PinRefused, info, mm, user
<1>8. ASSUME NEW t \in Threads, NEW ram \in RamPages, PinGetPages(t, ram) PROVE TypeOK'
  <2>1. mr' \in [MRs -> Region]
    BY <1>8, RegionUpdates, ModeAssumption DEF TypeOK, PinGetPages
  <2>2. th' \in [Threads -> Thread]
    BY <1>8, ThreadUpdates DEF PinGetPages, PCs, AllCalls
  <2> QED  BY <1>8, <2>1, <2>2 DEF TypeOK, PinGetPages, info, mm, user
<1>9. ASSUME NEW t \in Threads, PinGetPagesFails(t) PROVE TypeOK'
  <2>1. th' \in [Threads -> Thread]
    BY <1>9, ThreadUpdates DEF PinGetPagesFails, PCs, AllCalls
  <2> QED  BY <1>9, <2>1 DEF TypeOK, PinGetPagesFails, info, mm, user
<1>10. ASSUME NEW t \in Threads, PinBadPageTable(t) PROVE TypeOK'
  <2>1. th' \in [Threads -> Thread]
    BY <1>10, ThreadUpdates DEF PinBadPageTable, PCs, AllCalls
  <2> QED  BY <1>10, <2>1 DEF TypeOK, PinBadPageTable, info, mm, user
<1>11. ASSUME NEW t \in Threads, PinLock(t) PROVE TypeOK'
  <2>1. th' \in [Threads -> Thread]
    BY <1>11, ThreadUpdates DEF PinLock, PCs, AllCalls
  <2> QED  BY <1>11, <2>1 DEF TypeOK, PinLock, info, mm, user
<1>12. ASSUME NEW t \in Threads, PinPublish(t) PROVE TypeOK'
  <2>1. mr' \in [MRs -> Region]
    BY <1>12, RegionUpdates DEF TypeOK, PinPublish, gdr_generate_mr_handle
  <2>2. th' \in [Threads -> Thread]
    BY <1>12, ThreadRecords DEF TypeOK, PinPublish, PCs
  <2>3. next_handle' \in Nat /\ next_handle_overflow' \in {0, 1}
    <3>1. mr[th[t].mr].size \in Nat
      BY <1>12 DEF PinPublish, At, HasRegion, Uses, TypeOK, Region
    <3> QED  BY <1>12, <3>1 DEF TypeOK, PinPublish, gdr_generate_mr_handle
  <2> QED  BY <1>12, <2>1, <2>2, <2>3 DEF TypeOK, PinPublish, gdr_generate_mr_handle, info, mm, user
<1>13. ASSUME NEW t \in Threads, PinNoHandle(t) PROVE TypeOK'
  <2>1. th' \in [Threads -> Thread]
    BY <1>13, ThreadUpdates DEF PinNoHandle, PCs, AllCalls
  <2> QED  BY <1>13, <2>1 DEF TypeOK, PinNoHandle, info, mm, user
<1>14. ASSUME NEW t \in Threads, PinCopyToUser(t) PROVE TypeOK'
  <2>1. th' \in [Threads -> Thread]
    BY <1>14, ThreadUpdates DEF PinCopyToUser, PCs, AllCalls
  <2>2. th[t].h \in Nat
    BY <1>14 DEF TypeOK, Thread
  <2> QED  BY <1>14, <2>1, <2>2 DEF TypeOK, PinCopyToUser, info, mm, user
<1>15. ASSUME NEW t \in Threads, PinCopyFails(t) PROVE TypeOK'
  <2>1. th' \in [Threads -> Thread]
    BY <1>15, ThreadUpdates DEF PinCopyFails, PCs, AllCalls
  <2> QED  BY <1>15, <2>1 DEF TypeOK, PinCopyFails, info, mm, user
<1>16. ASSUME NEW t \in Threads, NEW h \in Nat, UnpinStart(t, h) PROVE TypeOK'
  <2>1. th' \in [Threads -> Thread]
    BY <1>16, ThreadUpdates DEF UnpinStart, PCs, AllCalls
  <2> QED  BY <1>16, <2>1 DEF TypeOK, UnpinStart, info, mm, user
<1>17. ASSUME NEW t \in Threads, UnpinRemove(t) PROVE TypeOK'
  <2>1. mr' \in [MRs -> Region]
    BY <1>17, RegionUpdates DEF TypeOK, UnpinRemove, MappingTypes
  <2>2. vma' \in [VMAs -> VMA]
    BY <1>17, DestroyType DEF TypeOK, UnpinRemove
  <2>3. th' \in [Threads -> Thread]
    BY <1>17, ThreadUpdates DEF UnpinRemove, PCs, AllCalls
  <2> QED  BY <1>17, <2>1, <2>2, <2>3 DEF TypeOK, UnpinRemove, info, mm, user
<1>18. ASSUME NEW t \in Threads, FreeDropSem(t) PROVE TypeOK'
  <2>1. th' \in [Threads -> Thread]
    BY <1>18, ThreadUpdates DEF FreeDropSem, PCs, AllCalls
  <2> QED  BY <1>18, <2>1 DEF TypeOK, FreeDropSem, info, mm, user
<1>19. ASSUME NEW t \in Threads, PutPages(t) PROVE TypeOK'
  <2>1. th' \in [Threads -> Thread]
    BY <1>19, ThreadUpdates DEF PutPages, PCs, AllCalls
  <2>2. nv' \in [MRs -> {"none", "held", "revoking"}]
    BY <1>19 DEF TypeOK, PutPages
  <2>3. refcount' \in Int
    BY <1>19 DEF TypeOK, PutPages
  <2> QED  BY <1>19, <2>1, <2>2, <2>3 DEF TypeOK, PutPages, info, mm, user
<1>20. ASSUME NEW t \in Threads, Kfree(t) PROVE TypeOK'
  <2>1. mr' \in [MRs -> Region]
    BY <1>20, RegionUpdates DEF TypeOK, Kfree, IdleThread
  <2>2. th' \in [Threads -> Thread]
    BY <1>20, ThreadRecords DEF TypeOK, Kfree, PCs
  <2> QED  BY <1>20, <2>1, <2>2 DEF TypeOK, Kfree, IdleThread, info, mm, user
<1>21. ASSUME NEW t \in Threads, NEW op \in {"get_info", "get_cb_flag"}, NEW h \in Nat, ReadStart(t, op, h) PROVE TypeOK'
  <2>1. th' \in [Threads -> Thread]
    BY <1>21, ThreadUpdates DEF ReadStart, PCs, AllCalls
  <2> QED  BY <1>21, <2>1 DEF TypeOK, ReadStart, info, mm, user
<1>22. ASSUME NEW t \in Threads, ReadSem(t) PROVE TypeOK'
  <2>1. th' \in [Threads -> Thread]
    BY <1>22, ThreadUpdates DEF ReadSem, PCs, AllCalls
  <2> QED  BY <1>22, <2>1 DEF TypeOK, ReadSem, info, mm, user
<1>23. ASSUME NEW t \in Threads, ReadBody(t) PROVE TypeOK'
  <2>1. Answer(th[t].op, th[t].mr) \in {0, 1}
    BY <1>23 DEF ReadBody, At, HasRegion, Uses, TypeOK, Region, Thread, Answer, gdr_mr_is_mapped
  <2>2. th' \in [Threads -> Thread]
    BY <1>23, <2>1, ThreadRecords DEF TypeOK, ReadBody, PCs
  <2> QED  BY <1>23, <2>2 DEF TypeOK, ReadBody, Answer, info, mm, user
<1>24. ASSUME NEW t \in Threads, ReadCopyToUser(t) PROVE TypeOK'
  <2>1. th' \in [Threads -> Thread]
    BY <1>24, ThreadUpdates DEF ReadCopyToUser, PCs, AllCalls
  <2> QED  BY <1>24, <2>1 DEF TypeOK, ReadCopyToUser, info, mm, user
<1>25. ASSUME NEW t \in Threads, NEW h \in Nat, ReqStart(t, h) PROVE TypeOK'
  <2>1. th' \in [Threads -> Thread]
    BY <1>25, ThreadUpdates DEF ReqStart, PCs, AllCalls
  <2> QED  BY <1>25, <2>1 DEF TypeOK, ReqStart, info, mm, user
<1>26. ASSUME NEW t \in Threads, NEW type \in MappingTypes, ReqBody(t, type) PROVE TypeOK'
  <2>1. mr' \in [MRs -> Region]
    BY <1>26, RegionUpdates DEF TypeOK, ReqBody
  <2>2. th' \in [Threads -> Thread]
    BY <1>26, ThreadUpdates DEF ReqBody, PCs, AllCalls
  <2> QED  BY <1>26, <2>1, <2>2 DEF TypeOK, ReqBody, info, mm, user
<1>27. ASSUME NEW t \in Threads, NEW h \in Nat, NEW v \in VMAs, NEW n \in Sizes, MmapStart(t, h, v, n) PROVE TypeOK'
  <2>0. n \in Nat
    OBVIOUS
  <2>1. vma' \in [VMAs -> VMA]
    BY <1>27, <2>0, VMAUpdates DEF TypeOK, MmapStart
  <2>2. th' \in [Threads -> Thread]
    BY <1>27, ThreadUpdates DEF MmapStart, PCs, AllCalls
  <2> QED  BY <1>27, <2>1, <2>2 DEF TypeOK, MmapStart, info, mm, user
<1>28. ASSUME NEW t \in Threads, MmapRefused(t) PROVE TypeOK'
  <2>1. mr' \in [MRs -> Region]
    BY <1>28, RegionUpdates DEF TypeOK, MmapRefused, MmapClear, MappingTypes
  <2>2. th' \in [Threads -> Thread]
    BY <1>28, ThreadUpdates DEF MmapRefused, MmapClear, PCs, AllCalls
  <2> QED  BY <1>28, <2>1, <2>2 DEF TypeOK, MmapRefused, MmapClear, info, mm, user
<1>29. ASSUME NEW t \in Threads, NEW k \in Nat, MmapFails(t, k) PROVE TypeOK'
  <2>1. mr' \in [MRs -> Region]
    BY <1>29, RegionUpdates DEF TypeOK, MmapFails, MmapClear, MappingTypes
  <2>0. th[t].mr \in MRs \cup {None} /\ th[t].vma \in VMAs \cup {None}
    BY DEF TypeOK, Thread
  <2>2. \A v \in VMAs : Offsets(vma[v].pgoff, k) \in SUBSET Nat
    BY DEF TypeOK, VMA, Offsets
  <2>3. vma' \in [VMAs -> VMA]
    BY <1>29, <2>0, <2>2, VMAUpdates DEF TypeOK, MmapFails, MmapClear
  <2>4. th' \in [Threads -> Thread]
    BY <1>29, ThreadUpdates DEF MmapFails, MmapClear, PCs, AllCalls
  <2> QED  BY <1>29, <2>1, <2>3, <2>4 DEF TypeOK, MmapFails, MmapClear, info, mm, user
<1>30. ASSUME NEW t \in Threads, MmapMaps(t) PROVE TypeOK'
  <2>0. th[t].mr \in MRs \cup {None} /\ th[t].vma \in VMAs \cup {None}
    BY DEF TypeOK, Thread
  <2>1. mr' \in [MRs -> Region]
    BY <1>30, <2>0, RegionUpdates, ChosenIsType DEF TypeOK, MmapMaps
  <2>2. \A v \in VMAs : Offsets(vma[v].pgoff, vma[v].len) \in SUBSET Nat
    BY DEF TypeOK, VMA, Offsets
  <2>3. vma' \in [VMAs -> VMA]
    BY <1>30, <2>0, <2>2, VMAUpdates DEF TypeOK, MmapMaps
  <2>4. th' \in [Threads -> Thread]
    BY <1>30, ThreadUpdates DEF MmapMaps, PCs, AllCalls
  <2> QED  BY <1>30, <2>1, <2>3, <2>4 DEF TypeOK, MmapMaps, info, mm, user
<1>31. ASSUME NEW t \in Threads, MmapLink(t) PROVE TypeOK'
  <2>1. vma' \in [VMAs -> VMA]
    BY <1>31, VMAUpdates DEF TypeOK, MmapLink
  <2>2. th' \in [Threads -> Thread]
    BY <1>31, ThreadUpdates DEF MmapLink, PCs, AllCalls
  <2> QED  BY <1>31, <2>1, <2>2 DEF TypeOK, MmapLink, info, mm, user
<1>32. ASSUME NEW t \in Threads, MmapUndo(t) PROVE TypeOK'
  <2>1. vma' \in [VMAs -> VMA]
    BY <1>32, VMAUpdates DEF TypeOK, MmapUndo
  <2>2. th' \in [Threads -> Thread]
    BY <1>32, ThreadUpdates DEF MmapUndo, PCs, AllCalls
  <2> QED  BY <1>32, <2>1, <2>2 DEF TypeOK, MmapUndo, info, mm, user
<1>33. ASSUME NEW t \in Threads, NEW v \in VMAs, MunmapStart(t, v) PROVE TypeOK'
  <2>1. vma' \in [VMAs -> VMA]
    BY <1>33, VMAUpdates DEF TypeOK, MunmapStart
  <2>2. vma[v].pgoff \in Nat
    BY DEF TypeOK, VMA
  <2>3. th' \in [Threads -> Thread]
    BY <1>33, <2>2, ThreadUpdates DEF MunmapStart, PCs, AllCalls
  <2> QED  BY <1>33, <2>1, <2>3 DEF TypeOK, MunmapStart, info, mm, user
<1>34. ASSUME NEW t \in Threads, gdrdrv_vma_close(t) PROVE TypeOK'
  <2>1. mr' \in [MRs -> Region]
    BY <1>34, RegionUpdates DEF TypeOK, gdrdrv_vma_close, MappingTypes
  <2>2. th' \in [Threads -> Thread]
    BY <1>34, ThreadUpdates DEF gdrdrv_vma_close, PCs, AllCalls
  <2> QED  BY <1>34, <2>1, <2>2 DEF TypeOK, gdrdrv_vma_close, info, mm, user
<1>35. ASSUME NEW t \in Threads, MunmapEnd(t) PROVE TypeOK'
  <2>1. vma' \in [VMAs -> VMA]
    BY <1>35, VMAUpdates DEF TypeOK, MunmapEnd
  <2>2. th' \in [Threads -> Thread]
    BY <1>35, ThreadUpdates DEF MunmapEnd, PCs, AllCalls
  <2> QED  BY <1>35, <2>1, <2>2 DEF TypeOK, MunmapEnd, info, mm, user
<1>36. ASSUME NEW t \in Threads, RelStart(t) PROVE TypeOK'
  <2>1. th' \in [Threads -> Thread]
    BY <1>36, ThreadUpdates DEF RelStart, PCs, AllCalls
  <2> QED  BY <1>36, <2>1 DEF TypeOK, RelStart, info, mm, user
<1>37. ASSUME NEW t \in Threads, NEW m \in MRs, RelPick(t, m) PROVE TypeOK'
  <2>1. th' \in [Threads -> Thread]
    BY <1>37, ThreadRecords DEF TypeOK, RelPick, PCs
  <2> QED  BY <1>37, <2>1 DEF TypeOK, RelPick, info, mm, user
<1>38. ASSUME NEW t \in Threads, RelRemove(t) PROVE TypeOK'
  <2>1. mr' \in [MRs -> Region]
    BY <1>38, RegionUpdates DEF TypeOK, RelRemove, MappingTypes
  <2>2. vma' \in [VMAs -> VMA]
    BY <1>38, DestroyType DEF TypeOK, RelRemove
  <2>3. th' \in [Threads -> Thread]
    BY <1>38, ThreadUpdates DEF RelRemove, PCs, AllCalls
  <2> QED  BY <1>38, <2>1, <2>2, <2>3 DEF TypeOK, RelRemove, info, mm, user
<1>39. ASSUME NEW t \in Threads, RelDone(t) PROVE TypeOK'
  <2>1. th' \in [Threads -> Thread]
    BY <1>39, ThreadUpdates DEF RelDone, PCs, AllCalls
  <2> QED  BY <1>39, <2>1 DEF TypeOK, RelDone, info, mm, user
<1>40. ASSUME NEW m \in MRs, CbStart(m) PROVE TypeOK'
  BY <1>40 DEF TypeOK, CbStart, info, mm, user
<1>41. ASSUME NEW m \in MRs, CbLock(m) PROVE TypeOK'
  <2>1. mr' \in [MRs -> Region]
    BY <1>41, RegionUpdates DEF TypeOK, CbLock
  <2> QED  BY <1>41, <2>1 DEF TypeOK, CbLock, info, mm, user
<1>42. ASSUME NEW m \in MRs, CbBody(m) PROVE TypeOK'
  <2>1. CASE mr[m].page_table = 1
    <3>1. mr' = [mr EXCEPT ![m] = [mr[m] EXCEPT !.page_table = 0, !.cpu_mapping_type = "NONE"]]
      BY <1>42, <2>1 DEF TypeOK, CbBody
    <3>3. mr' \in [MRs -> Region]
      BY <3>1, RegionUpdates DEF TypeOK, MappingTypes
    <3>2. vma' \in [VMAs -> VMA]
      BY <1>42, <2>1, DestroyType DEF CbBody
    <3> QED  BY <1>42, <2>1, <3>3, <3>2 DEF TypeOK, CbBody, info, mm, user
  <2>2. CASE mr[m].page_table # 1
    BY <1>42, <2>2 DEF TypeOK, CbBody, info, mm, user
  <2> QED  BY <2>1, <2>2
<1>46. ASSUME NEW t \in Threads, NEW v \in VMAs, NEW w \in VMAs, NEW k \in 1 .. (vma[v].len - 1),
              MunmapHead(t, v, w, k) \/ MunmapTail(t, v, w, k)
       PROVE  TypeOK'
  <2>1. PICK kept \in VMAs, cut \in VMAs, keep \in VMA, gone \in VMA :
             MunmapPart(t, v, kept, keep, cut, gone)
    BY <1>46, PartType DEF MunmapHead, MunmapTail
  <2>2. [gone EXCEPT !.state = "closing", !.pte = {}] \in VMA /\ gone.pgoff \in Nat
    BY DEF VMA
  <2>3. vma' \in [VMAs -> VMA]
    BY <2>1, <2>2 DEF TypeOK, MunmapPart
  <2>4. th' \in [Threads -> Thread]
    BY <2>1, <2>2, ThreadUpdates DEF MunmapPart, PCs, AllCalls
  <2> QED  BY <2>1, <2>3, <2>4 DEF TypeOK, MunmapPart, info, mm, user
<1>43. ASSUME NEW t \in Threads, CallStart(t) PROVE TypeOK'
  <2>1. AnyHandle \subseteq Nat
    BY DEF TypeOK, AnyHandle
  <2> QED  BY <1>43, <2>1, <1>6, <1>7, <1>16, <1>21, <1>25, <1>27, <1>33, <1>36, <1>46
           DEF CallStart
<1>44. ASSUME NEW t \in Threads, CallStep(t) PROVE TypeOK'
  <2>1. ASSUME UnpinLookup(t) \/ ReadLookup(t) \/ ReqLookup(t) \/ MmapLookup(t) \/ CloseLookup(t)
        PROVE  TypeOK'
    BY <2>1, <1>1 DEF UnpinLookup, ReadLookup, ReqLookup, MmapLookup, CloseLookup, PCs
  <2>2. ASSUME UnpinMiss(t) \/ ReadMiss(t) \/ ReqMiss(t) \/ MmapMiss(t) \/ CloseMiss(t)
        PROVE  TypeOK'
    BY <2>2, <1>2, ThreadUpdates DEF UnpinMiss, ReadMiss, ReqMiss, MmapMiss, CloseMiss, PCs
  <2>3. ASSUME ReqSem(t) \/ MmapSem(t) \/ CloseSem(t)
        PROVE  TypeOK'
    BY <2>3, <1>3 DEF ReqSem, MmapSem, CloseSem, PCs
  <2>4. ASSUME NEW k \in Sizes \cup {0}, MmapFails(t, k)
        PROVE  TypeOK'
    BY <2>4, <1>29
  <2> QED
    BY <1>44, <2>1, <2>2, <2>3, <2>4,
       <1>8, <1>9, <1>10, <1>11, <1>12, <1>13, <1>14, <1>15, <1>17, <1>18,
       <1>19, <1>20, <1>22, <1>23, <1>24, <1>26, <1>28, <1>30, <1>31, <1>32,
       <1>34, <1>35, <1>37, <1>38, <1>39
    DEF CallStep
<1>45. ASSUME UNCHANGED vars PROVE TypeOK'
  BY <1>45 DEF TypeOK, vars
<1> QED
  BY <1>43, <1>44, <1>45, <1>4, <1>5, <1>40, <1>41, <1>42 DEF Next, CallbackStep
-----------------------------------------------------------------------------
(* The inductive invariant behind NoUseAfterFree.  A region is either on the  *)
(* list or owned by the one thread that is creating or freeing it; who works  *)
(* on a listed region holds info->lock or the region's semaphore, so that     *)
(* taking both, as unpin and release do, leaves nobody else; and the NVIDIA   *)
(* driver only knows regions that still have their page table.               *)

Creating == {"pin_get", "pin_check", "pin_publish"}
Freeing  == {"free", "put", "kfree"}
Looking  == {"unpin_lock", "read_lock", "req_lock", "mmap_lock", "close_lock"}
Waiting  == {"unpin_sem", "read_sem", "req_sem", "mmap_sem", "close_sem", "rel_sem"}
Writing  == {"req_body", "mmap_body", "close_body"}

\* Thread t holds info->lock.
HoldsInfo(t) == \/ th[t].pc \in Waiting \cup {"pin_publish", "rel_next"}
                \/ th[t].op = "release" /\ th[t].pc \in Freeing

FileInv ==
    /\ file = "closed" => mr_list = {} /\ \A t \in Threads : th[t].pc = "idle"
    /\ file = "release" => \A t \in Threads : th[t].pc # "idle" => th[t].op = "release"
    /\ \A t \in Threads : th[t].op = "release" => file = "release"

InfoInv == \A t \in Threads :
    /\ HoldsInfo(t) => info_lock = t
    /\ th[t].op = "release" => th[t].pc \in Freeing \cup {"rel_next", "rel_sem"}
    /\ th[t].pc \in {"rel_next", "rel_sem"} => th[t].op = "release"

OwnedInv ==
    /\ \A t \in Threads : th[t].pc \in Creating \cup Freeing =>
          th[t].mr \in MRs /\ mr[th[t].mr].state = "live" /\ th[t].mr \notin mr_list
    /\ \A t, u \in Threads :
          t # u /\ th[t].pc \in Creating \cup Freeing /\ th[u].pc \in Creating \cup Freeing
             => th[t].mr # th[u].mr

ListedInv ==
    /\ \A m \in mr_list : mr[m].state = "live"
    /\ \A t \in Threads : th[t].pc \in Waiting \cup Writing \cup {"read_body"} => th[t].mr \in mr_list
    /\ \A t \in Threads : th[t].pc \in Writing => writer[th[t].mr] = t
    /\ \A t \in Threads : th[t].pc = "read_body" => t \in readers[th[t].mr]

PagesInv ==
    /\ \A m \in MRs : nv[m] # "none" => mr[m].state = "live" /\ mr[m].page_table = 1
    /\ \A t \in Threads : th[t].pc = "kfree" => nv[th[t].mr] = "none"

SafeInv == FileInv /\ InfoInv /\ OwnedInv /\ ListedInv /\ PagesInv

\* What a step of t does to the threads.
LEMMA GotoFrame ==
    ASSUME TypeOK, NEW t \in Threads, NEW pc, Goto(t, pc)
    PROVE  /\ th'[t].pc = pc /\ th'[t].mr = th[t].mr /\ th'[t].op = th[t].op
           /\ \A u \in Threads : u # t => th'[u] = th[u]
BY DEF TypeOK, Thread, Goto

\* ... by a return, ...
LEMMA ReturnFrame ==
    ASSUME TypeOK, NEW t \in Threads, Return(t)
    PROVE  /\ th'[t].pc = "idle" /\ th'[t].op = "none"
           /\ \A u \in Threads : u # t => th'[u] = th[u]
BY DEF TypeOK, Thread, Return, IdleThread

\* ... and by the begin of a call.
LEMMA BeginFrame ==
    ASSUME TypeOK, NEW t \in Threads, NEW op, NEW pc, NEW h, NEW m, NEW v, Begin(t, op, pc, h, m, v)
    PROVE  /\ th'[t].pc = pc /\ th'[t].mr = m /\ th'[t].op = op
           /\ \A u \in Threads : u # t => th'[u] = th[u]
BY DEF TypeOK, Thread, Begin, IdleThread

\* SafeInv is inductive: one step per action, and under it one per part.
LEMMA SafeStep == TypeOK /\ SafeInv /\ [Next]_vars => SafeInv'
<1> SUFFICES ASSUME TypeOK, SafeInv, [Next]_vars PROVE SafeInv'
  OBVIOUS
<1> USE NullAssumption
<1>1. ASSUME NEW t \in Threads, NEW from \in Looking, NEW to \in Waiting \ {"rel_sem"}, LookupHit(t, from, to) PROVE SafeInv'
  <2>1. /\ th[t].pc = from
        /\ th'[t].pc = to /\ th'[t].op = th[t].op /\ th'[t].mr \in mr_list
        /\ \A u \in Threads : u # t => th'[u] = th[u]
        /\ mr' = mr
        /\ info_lock = None /\ info_lock' = t
        /\ UNCHANGED <<file, mr_list, writer, readers, nv>>
    BY <1>1, LookupType DEF LookupHit, At, Thread, TypeOK, Region, info
  <2>2. FileInv'
    BY <2>1 DEF SafeInv, FileInv, InfoInv, HoldsInfo, Freeing, Waiting, Looking, Writing
  <2>3. InfoInv'
    BY <2>1 DEF SafeInv, InfoInv, HoldsInfo, Freeing, Waiting, Looking, Writing
  <2>4. OwnedInv'
    BY <2>1 DEF SafeInv, OwnedInv, ListedInv, TypeOK, Creating, Freeing, Waiting, Looking, Writing
  <2>5. ListedInv'
    BY <2>1 DEF SafeInv, FileInv, InfoInv, HoldsInfo, OwnedInv, ListedInv, TypeOK, Creating, Freeing, Waiting, Writing, Looking
  <2>6. PagesInv'
    BY <2>1 DEF SafeInv, OwnedInv, PagesInv, TypeOK, Creating, Freeing, Waiting, Looking, Writing
  <2> QED  BY <2>2, <2>3, <2>4, <2>5, <2>6 DEF SafeInv
<1>2. ASSUME NEW t \in Threads, NEW from \in Looking, LookupMiss(t, from),
             Return(t) \/ Goto(t, "mmap_undo") \/ Goto(t, "munmap_end") PROVE SafeInv'
  <2>1. /\ th[t].pc = from
        /\ \/ th'[t].pc = "idle" /\ th'[t].op = "none"
           \/ th'[t].pc \in {"mmap_undo", "munmap_end"} /\ th'[t].op = th[t].op
        /\ \A u \in Threads : u # t => th'[u] = th[u]
        /\ mr' = mr
        /\ UNCHANGED <<file, info_lock, mr_list, writer, readers, nv>>
    BY <1>2, GotoFrame, ReturnFrame DEF LookupMiss, At, TypeOK, Region, info
  <2>2. FileInv'
    BY <2>1 DEF SafeInv, FileInv, InfoInv, HoldsInfo, Freeing, Waiting, Looking, Writing
  <2>3. InfoInv'
    BY <2>1 DEF SafeInv, InfoInv, HoldsInfo, Freeing, Waiting, Looking, Writing
  <2>4. OwnedInv'
    BY <2>1 DEF SafeInv, OwnedInv, ListedInv, TypeOK, Creating, Freeing, Waiting, Looking, Writing
  <2>5. ListedInv'
    BY <2>1 DEF SafeInv, FileInv, InfoInv, HoldsInfo, OwnedInv, ListedInv, TypeOK, Creating, Freeing, Waiting, Writing, Looking
  <2>6. PagesInv'
    BY <2>1 DEF SafeInv, OwnedInv, PagesInv, TypeOK, Creating, Freeing, Waiting, Looking, Writing
  <2> QED  BY <2>2, <2>3, <2>4, <2>5, <2>6 DEF SafeInv
<1>3. ASSUME NEW t \in Threads, NEW from \in Waiting \ {"rel_sem"}, NEW to \in Writing, SemWrite(t, from, to) PROVE SafeInv'
  <2>1. /\ th[t].pc = from
        /\ th'[t].pc = to /\ th'[t].mr = th[t].mr /\ th'[t].op = th[t].op
        /\ \A u \in Threads : u # t => th'[u] = th[u]
        /\ mr' = mr
        /\ writer[th[t].mr] = None
        /\ writer' = [writer EXCEPT ![th[t].mr] = t]
        /\ info_lock' = None
        /\ UNCHANGED <<file, mr_list, readers, nv>>
    BY <1>3, GotoFrame DEF SemWrite, CanWrite, At, TypeOK, Region, info
  <2>2. FileInv'
    BY <2>1 DEF SafeInv, FileInv, InfoInv, HoldsInfo, Freeing, Waiting, Writing
  <2>3. InfoInv'
    BY <2>1 DEF SafeInv, InfoInv, HoldsInfo, Freeing, Waiting, Writing
  <2>4. OwnedInv'
    BY <2>1 DEF SafeInv, OwnedInv, ListedInv, TypeOK, Creating, Freeing, Waiting, Writing
  <2>5. ListedInv'
    BY <2>1 DEF SafeInv, FileInv, InfoInv, HoldsInfo, OwnedInv, ListedInv, TypeOK, Creating, Freeing, Waiting, Writing
  <2>6. PagesInv'
    BY <2>1 DEF SafeInv, OwnedInv, PagesInv, TypeOK, Creating, Freeing, Waiting, Writing
  <2> QED  BY <2>2, <2>3, <2>4, <2>5, <2>6 DEF SafeInv
<1>4. ASSUME Open PROVE SafeInv'
  <2>1. /\ th' = th
        /\ mr' = mr
        /\ file = "closed" /\ file' = "open"
        /\ mr_list' = {}
        /\ UNCHANGED <<info_lock, writer, readers, nv>>
    BY <1>4 DEF Open, TypeOK, Region, info
  <2>2. FileInv'
    BY <2>1 DEF SafeInv, FileInv, InfoInv, HoldsInfo, Freeing, Waiting
  <2>3. InfoInv'
    BY <2>1 DEF SafeInv, InfoInv, HoldsInfo, Freeing, Waiting
  <2>4. OwnedInv'
    BY <2>1 DEF SafeInv, OwnedInv, ListedInv, TypeOK, Creating, Freeing, Waiting
  <2>5. ListedInv'
    BY <2>1 DEF SafeInv, FileInv, InfoInv, HoldsInfo, OwnedInv, ListedInv, TypeOK, Creating, Freeing, Waiting, Writing
  <2>6. PagesInv'
    BY <2>1 DEF SafeInv, OwnedInv, PagesInv, TypeOK, Creating, Freeing, Waiting
  <2> QED  BY <2>2, <2>3, <2>4, <2>5, <2>6 DEF SafeInv
<1>5. ASSUME GdrClose PROVE SafeInv'
  <2>1. /\ th' = th
        /\ mr' = mr
        /\ UNCHANGED <<file, info_lock, mr_list, writer, readers, nv>>
    BY <1>5 DEF GdrClose, TypeOK, Region, info
  <2>2. FileInv'
    BY <2>1 DEF SafeInv, FileInv, InfoInv, HoldsInfo, Freeing, Waiting
  <2>3. InfoInv'
    BY <2>1 DEF SafeInv, InfoInv, HoldsInfo, Freeing, Waiting
  <2>4. OwnedInv'
    BY <2>1 DEF SafeInv, OwnedInv, ListedInv, TypeOK, Creating, Freeing, Waiting
  <2>5. ListedInv'
    BY <2>1 DEF SafeInv, FileInv, InfoInv, HoldsInfo, OwnedInv, ListedInv, TypeOK, Creating, Freeing, Waiting, Writing
  <2>6. PagesInv'
    BY <2>1 DEF SafeInv, OwnedInv, PagesInv, TypeOK, Creating, Freeing, Waiting
  <2> QED  BY <2>2, <2>3, <2>4, <2>5, <2>6 DEF SafeInv
<1>6. ASSUME NEW t \in Threads, NEW m \in MRs, NEW n \in Sizes, PinStart(t, m, n) PROVE SafeInv'
  <2>1. /\ th[t].pc = "idle"
        /\ file = "open"
        /\ th'[t].pc = "pin_get" /\ th'[t].op = "pin" /\ th'[t].mr = m
        /\ \A u \in Threads : u # t => th'[u] = th[u]
        /\ \A x \in MRs \ {m} : mr'[x] = mr[x]
        /\ mr[m].state = "free" /\ mr'[m].state = "live"
        /\ writer' = [writer EXCEPT ![m] = t]
        /\ UNCHANGED <<file, info_lock, mr_list, readers, nv>>
    BY <1>6, BeginFrame DEF PinStart, MayCall, At, NewMR, TypeOK, Region, info
  <2>2. FileInv'
    BY <2>1 DEF SafeInv, FileInv, InfoInv, HoldsInfo, Freeing, Waiting
  <2>3. InfoInv'
    BY <2>1 DEF SafeInv, InfoInv, HoldsInfo, Freeing, Waiting
  <2>4. OwnedInv'
    BY <2>1 DEF SafeInv, OwnedInv, ListedInv, TypeOK, Creating, Freeing, Waiting
  <2>5. ListedInv'
    BY <2>1 DEF SafeInv, FileInv, InfoInv, HoldsInfo, OwnedInv, ListedInv, TypeOK, Creating, Freeing, Waiting, Writing
  <2>6. PagesInv'
    BY <2>1 DEF SafeInv, OwnedInv, PagesInv, TypeOK, Creating, Freeing, Waiting
  <2> QED  BY <2>2, <2>3, <2>4, <2>5, <2>6 DEF SafeInv
<1>7. ASSUME NEW t \in Threads, NEW m \in MRs, PinRefused(t, m) PROVE SafeInv'
  <2>1. /\ th[t].pc = "idle"
        /\ file = "open"
        /\ th'[t].pc = "free" /\ th'[t].op = "pin" /\ th'[t].mr = m
        /\ \A u \in Threads : u # t => th'[u] = th[u]
        /\ \A x \in MRs \ {m} : mr'[x] = mr[x]
        /\ mr[m].state = "free" /\ mr'[m].state = "live"
        /\ UNCHANGED <<file, info_lock, mr_list, writer, readers, nv>>
    BY <1>7, BeginFrame DEF PinRefused, MayCall, At, NewMR, TypeOK, Region, info
  <2>2. FileInv'
    BY <2>1 DEF SafeInv, FileInv, InfoInv, HoldsInfo, Freeing, Waiting
  <2>3. InfoInv'
    BY <2>1 DEF SafeInv, InfoInv, HoldsInfo, Freeing, Waiting
  <2>4. OwnedInv'
    BY <2>1 DEF SafeInv, OwnedInv, ListedInv, TypeOK, Creating, Freeing, Waiting
  <2>5. ListedInv'
    BY <2>1 DEF SafeInv, FileInv, InfoInv, HoldsInfo, OwnedInv, ListedInv, TypeOK, Creating, Freeing, Waiting, Writing
  <2>6. PagesInv'
    BY <2>1 DEF SafeInv, OwnedInv, PagesInv, TypeOK, Creating, Freeing, Waiting
  <2> QED  BY <2>2, <2>3, <2>4, <2>5, <2>6 DEF SafeInv
<1>8. ASSUME NEW t \in Threads, NEW ram \in RamPages, PinGetPages(t, ram) PROVE SafeInv'
  <2>1. /\ th[t].pc = "pin_get"
        /\ th'[t].pc = "pin_check" /\ th'[t].mr = th[t].mr /\ th'[t].op = th[t].op
        /\ \A u \in Threads : u # t => th'[u] = th[u]
        /\ \A x \in MRs : mr'[x].state = mr[x].state
        /\ \A x \in MRs : mr'[x].page_table = IF x = th[t].mr THEN 1 ELSE mr[x].page_table
        /\ nv' = [nv EXCEPT ![th[t].mr] = "held"]
        /\ UNCHANGED <<file, info_lock, mr_list, writer, readers>>
    BY <1>8, GotoFrame DEF PinGetPages, At, TypeOK, Region, info
  <2>2. FileInv'
    BY <2>1 DEF SafeInv, FileInv, InfoInv, HoldsInfo, Freeing, Waiting
  <2>3. InfoInv'
    BY <2>1 DEF SafeInv, InfoInv, HoldsInfo, Freeing, Waiting
  <2>4. OwnedInv'
    BY <2>1 DEF SafeInv, OwnedInv, ListedInv, TypeOK, Creating, Freeing, Waiting
  <2>5. ListedInv'
    BY <2>1 DEF SafeInv, FileInv, InfoInv, HoldsInfo, OwnedInv, ListedInv, TypeOK, Creating, Freeing, Waiting, Writing
  <2>6. PagesInv'
    BY <2>1 DEF SafeInv, OwnedInv, PagesInv, TypeOK, Creating, Freeing, Waiting
  <2> QED  BY <2>2, <2>3, <2>4, <2>5, <2>6 DEF SafeInv
<1>9. ASSUME NEW t \in Threads, PinGetPagesFails(t) PROVE SafeInv'
  <2>1. /\ th[t].pc = "pin_get"
        /\ th'[t].pc = "free" /\ th'[t].mr = th[t].mr /\ th'[t].op = th[t].op
        /\ \A u \in Threads : u # t => th'[u] = th[u]
        /\ mr' = mr
        /\ UNCHANGED <<file, info_lock, mr_list, writer, readers, nv>>
    BY <1>9, GotoFrame DEF PinGetPagesFails, At, TypeOK, Region, info
  <2>2. FileInv'
    BY <2>1 DEF SafeInv, FileInv, InfoInv, HoldsInfo, Freeing, Waiting
  <2>3. InfoInv'
    BY <2>1 DEF SafeInv, InfoInv, HoldsInfo, Freeing, Waiting
  <2>4. OwnedInv'
    BY <2>1 DEF SafeInv, OwnedInv, ListedInv, TypeOK, Creating, Freeing, Waiting
  <2>5. ListedInv'
    BY <2>1 DEF SafeInv, FileInv, InfoInv, HoldsInfo, OwnedInv, ListedInv, TypeOK, Creating, Freeing, Waiting, Writing
  <2>6. PagesInv'
    BY <2>1 DEF SafeInv, OwnedInv, PagesInv, TypeOK, Creating, Freeing, Waiting
  <2> QED  BY <2>2, <2>3, <2>4, <2>5, <2>6 DEF SafeInv
<1>10. ASSUME NEW t \in Threads, PinBadPageTable(t) PROVE SafeInv'
  <2>1. /\ th[t].pc = "pin_check"
        /\ th'[t].pc = "free" /\ th'[t].mr = th[t].mr /\ th'[t].op = th[t].op
        /\ \A u \in Threads : u # t => th'[u] = th[u]
        /\ mr' = mr
        /\ UNCHANGED <<file, info_lock, mr_list, writer, readers, nv>>
    BY <1>10, GotoFrame DEF PinBadPageTable, At, TypeOK, Region, info
  <2>2. FileInv'
    BY <2>1 DEF SafeInv, FileInv, InfoInv, HoldsInfo, Freeing, Waiting
  <2>3. InfoInv'
    BY <2>1 DEF SafeInv, InfoInv, HoldsInfo, Freeing, Waiting
  <2>4. OwnedInv'
    BY <2>1 DEF SafeInv, OwnedInv, ListedInv, TypeOK, Creating, Freeing, Waiting
  <2>5. ListedInv'
    BY <2>1 DEF SafeInv, FileInv, InfoInv, HoldsInfo, OwnedInv, ListedInv, TypeOK, Creating, Freeing, Waiting, Writing
  <2>6. PagesInv'
    BY <2>1 DEF SafeInv, OwnedInv, PagesInv, TypeOK, Creating, Freeing, Waiting
  <2> QED  BY <2>2, <2>3, <2>4, <2>5, <2>6 DEF SafeInv
<1>11. ASSUME NEW t \in Threads, PinLock(t) PROVE SafeInv'
  <2>1. /\ th[t].pc = "pin_check"
        /\ th'[t].pc = "pin_publish" /\ th'[t].mr = th[t].mr /\ th'[t].op = th[t].op
        /\ \A u \in Threads : u # t => th'[u] = th[u]
        /\ mr' = mr
        /\ info_lock = None /\ info_lock' = t
        /\ UNCHANGED <<file, mr_list, writer, readers, nv>>
    BY <1>11, GotoFrame DEF PinLock, At, TypeOK, Region, info
  <2>2. FileInv'
    BY <2>1 DEF SafeInv, FileInv, InfoInv, HoldsInfo, Freeing, Waiting
  <2>3. InfoInv'
    BY <2>1 DEF SafeInv, InfoInv, HoldsInfo, Freeing, Waiting
  <2>4. OwnedInv'
    BY <2>1 DEF SafeInv, OwnedInv, ListedInv, TypeOK, Creating, Freeing, Waiting
  <2>5. ListedInv'
    BY <2>1 DEF SafeInv, FileInv, InfoInv, HoldsInfo, OwnedInv, ListedInv, TypeOK, Creating, Freeing, Waiting, Writing
  <2>6. PagesInv'
    BY <2>1 DEF SafeInv, OwnedInv, PagesInv, TypeOK, Creating, Freeing, Waiting
  <2> QED  BY <2>2, <2>3, <2>4, <2>5, <2>6 DEF SafeInv
<1>12. ASSUME NEW t \in Threads, PinPublish(t) PROVE SafeInv'
  <2>1. /\ th[t].pc = "pin_publish"
        /\ th'[t].pc = "pin_copy" /\ th'[t].op = th[t].op
        /\ \A u \in Threads : u # t => th'[u] = th[u]
        /\ \A x \in MRs : mr'[x].state = mr[x].state /\ mr'[x].page_table = mr[x].page_table
        /\ mr_list' = mr_list \cup {th[t].mr}
        /\ writer' = [writer EXCEPT ![th[t].mr] = None]
        /\ info_lock' = None
        /\ UNCHANGED <<file, readers, nv>>
    BY <1>12 DEF PinPublish, gdr_generate_mr_handle, At, Thread, TypeOK, Region, info
  <2>2. FileInv'
    BY <2>1 DEF SafeInv, FileInv, InfoInv, HoldsInfo, Freeing, Waiting
  <2>3. InfoInv'
    BY <2>1 DEF SafeInv, InfoInv, HoldsInfo, Freeing, Waiting
  <2>4. OwnedInv'
    BY <2>1 DEF SafeInv, OwnedInv, ListedInv, TypeOK, Creating, Freeing, Waiting
  <2>5. ListedInv'
    BY <2>1 DEF SafeInv, FileInv, InfoInv, HoldsInfo, OwnedInv, ListedInv, TypeOK, Creating, Freeing, Waiting, Writing
  <2>6. PagesInv'
    BY <2>1 DEF SafeInv, OwnedInv, PagesInv, TypeOK, Creating, Freeing, Waiting
  <2> QED  BY <2>2, <2>3, <2>4, <2>5, <2>6 DEF SafeInv
<1>13. ASSUME NEW t \in Threads, PinNoHandle(t) PROVE SafeInv'
  <2>1. /\ th[t].pc = "pin_publish"
        /\ th'[t].pc = "free" /\ th'[t].mr = th[t].mr /\ th'[t].op = th[t].op
        /\ \A u \in Threads : u # t => th'[u] = th[u]
        /\ mr' = mr
        /\ info_lock' = None
        /\ UNCHANGED <<file, mr_list, writer, readers, nv>>
    BY <1>13, GotoFrame DEF PinNoHandle, At, TypeOK, Region, info
  <2>2. FileInv'
    BY <2>1 DEF SafeInv, FileInv, InfoInv, HoldsInfo, Freeing, Waiting
  <2>3. InfoInv'
    BY <2>1 DEF SafeInv, InfoInv, HoldsInfo, Freeing, Waiting
  <2>4. OwnedInv'
    BY <2>1 DEF SafeInv, OwnedInv, ListedInv, TypeOK, Creating, Freeing, Waiting
  <2>5. ListedInv'
    BY <2>1 DEF SafeInv, FileInv, InfoInv, HoldsInfo, OwnedInv, ListedInv, TypeOK, Creating, Freeing, Waiting, Writing
  <2>6. PagesInv'
    BY <2>1 DEF SafeInv, OwnedInv, PagesInv, TypeOK, Creating, Freeing, Waiting
  <2> QED  BY <2>2, <2>3, <2>4, <2>5, <2>6 DEF SafeInv
<1>14. ASSUME NEW t \in Threads, PinCopyToUser(t) PROVE SafeInv'
  <2>1. /\ th[t].pc = "pin_copy"
        /\ th'[t].pc = "idle" /\ th'[t].op = "none"
        /\ \A u \in Threads : u # t => th'[u] = th[u]
        /\ mr' = mr
        /\ UNCHANGED <<file, info_lock, mr_list, writer, readers, nv>>
    BY <1>14, ReturnFrame DEF PinCopyToUser, At, TypeOK, Region, info
  <2>2. FileInv'
    BY <2>1 DEF SafeInv, FileInv, InfoInv, HoldsInfo, Freeing, Waiting
  <2>3. InfoInv'
    BY <2>1 DEF SafeInv, InfoInv, HoldsInfo, Freeing, Waiting
  <2>4. OwnedInv'
    BY <2>1 DEF SafeInv, OwnedInv, ListedInv, TypeOK, Creating, Freeing, Waiting
  <2>5. ListedInv'
    BY <2>1 DEF SafeInv, FileInv, InfoInv, HoldsInfo, OwnedInv, ListedInv, TypeOK, Creating, Freeing, Waiting, Writing
  <2>6. PagesInv'
    BY <2>1 DEF SafeInv, OwnedInv, PagesInv, TypeOK, Creating, Freeing, Waiting
  <2> QED  BY <2>2, <2>3, <2>4, <2>5, <2>6 DEF SafeInv
<1>15. ASSUME NEW t \in Threads, PinCopyFails(t) PROVE SafeInv'
  <2>1. /\ th[t].pc = "pin_copy"
        /\ th'[t].pc = "unpin_lock" /\ th'[t].mr = th[t].mr /\ th'[t].op = th[t].op
        /\ \A u \in Threads : u # t => th'[u] = th[u]
        /\ mr' = mr
        /\ UNCHANGED <<file, info_lock, mr_list, writer, readers, nv>>
    BY <1>15, GotoFrame DEF PinCopyFails, At, TypeOK, Region, info
  <2>2. FileInv'
    BY <2>1 DEF SafeInv, FileInv, InfoInv, HoldsInfo, Freeing, Waiting
  <2>3. InfoInv'
    BY <2>1 DEF SafeInv, InfoInv, HoldsInfo, Freeing, Waiting
  <2>4. OwnedInv'
    BY <2>1 DEF SafeInv, OwnedInv, ListedInv, TypeOK, Creating, Freeing, Waiting
  <2>5. ListedInv'
    BY <2>1 DEF SafeInv, FileInv, InfoInv, HoldsInfo, OwnedInv, ListedInv, TypeOK, Creating, Freeing, Waiting, Writing
  <2>6. PagesInv'
    BY <2>1 DEF SafeInv, OwnedInv, PagesInv, TypeOK, Creating, Freeing, Waiting
  <2> QED  BY <2>2, <2>3, <2>4, <2>5, <2>6 DEF SafeInv
<1>16. ASSUME NEW t \in Threads, NEW h \in Nat, UnpinStart(t, h) PROVE SafeInv'
  <2>1. /\ th[t].pc = "idle"
        /\ file = "open"
        /\ th'[t].pc = "unpin_lock" /\ th'[t].op = "unpin"
        /\ \A u \in Threads : u # t => th'[u] = th[u]
        /\ mr' = mr
        /\ UNCHANGED <<file, info_lock, mr_list, writer, readers, nv>>
    BY <1>16, BeginFrame DEF UnpinStart, MayCall, At, TypeOK, Region, info
  <2>2. FileInv'
    BY <2>1 DEF SafeInv, FileInv, InfoInv, HoldsInfo, Freeing, Waiting
  <2>3. InfoInv'
    BY <2>1 DEF SafeInv, InfoInv, HoldsInfo, Freeing, Waiting
  <2>4. OwnedInv'
    BY <2>1 DEF SafeInv, OwnedInv, ListedInv, TypeOK, Creating, Freeing, Waiting
  <2>5. ListedInv'
    BY <2>1 DEF SafeInv, FileInv, InfoInv, HoldsInfo, OwnedInv, ListedInv, TypeOK, Creating, Freeing, Waiting, Writing
  <2>6. PagesInv'
    BY <2>1 DEF SafeInv, OwnedInv, PagesInv, TypeOK, Creating, Freeing, Waiting
  <2> QED  BY <2>2, <2>3, <2>4, <2>5, <2>6 DEF SafeInv
<1>17. ASSUME NEW t \in Threads, UnpinRemove(t) PROVE SafeInv'
  <2>1. /\ th[t].pc = "unpin_sem"
        /\ th'[t].pc = "free" /\ th'[t].mr = th[t].mr /\ th'[t].op = th[t].op
        /\ \A u \in Threads : u # t => th'[u] = th[u]
        /\ \A x \in MRs : mr'[x].state = mr[x].state /\ mr'[x].page_table = mr[x].page_table
        /\ writer[th[t].mr] = None /\ readers[th[t].mr] = {}
        /\ writer' = [writer EXCEPT ![th[t].mr] = t]
        /\ mr_list' = mr_list \ {th[t].mr}
        /\ info_lock' = None
        /\ UNCHANGED <<file, readers, nv>>
    BY <1>17, GotoFrame DEF UnpinRemove, At, CanWrite, TypeOK, Region, info
  <2>2. FileInv'
    BY <2>1 DEF SafeInv, FileInv, InfoInv, HoldsInfo, Freeing, Waiting
  <2>3. InfoInv'
    BY <2>1 DEF SafeInv, InfoInv, HoldsInfo, Freeing, Waiting
  <2>4. OwnedInv'
    BY <2>1 DEF SafeInv, OwnedInv, ListedInv, TypeOK, Creating, Freeing, Waiting
  <2>5. ListedInv'
    BY <2>1 DEF SafeInv, FileInv, InfoInv, HoldsInfo, OwnedInv, ListedInv, TypeOK, Creating, Freeing, Waiting, Writing
  <2>6. PagesInv'
    BY <2>1 DEF SafeInv, OwnedInv, PagesInv, TypeOK, Creating, Freeing, Waiting
  <2> QED  BY <2>2, <2>3, <2>4, <2>5, <2>6 DEF SafeInv
<1>18. ASSUME NEW t \in Threads, FreeDropSem(t) PROVE SafeInv'
  <2>1. /\ th[t].pc = "free"
        /\ th'[t].pc = (IF mr[th[t].mr].page_table = 1 THEN "put" ELSE "kfree") /\ th'[t].mr = th[t].mr /\ th'[t].op = th[t].op
        /\ \A u \in Threads : u # t => th'[u] = th[u]
        /\ mr' = mr
        /\ writer' = [writer EXCEPT ![th[t].mr] = None]
        /\ UNCHANGED <<file, info_lock, mr_list, readers, nv>>
    BY <1>18, GotoFrame DEF FreeDropSem, At, TypeOK, Region, info
  <2>2. FileInv'
    BY <2>1 DEF SafeInv, FileInv, InfoInv, HoldsInfo, Freeing, Waiting
  <2>3. InfoInv'
    BY <2>1 DEF SafeInv, InfoInv, HoldsInfo, Freeing, Waiting
  <2>4. OwnedInv'
    BY <2>1 DEF SafeInv, OwnedInv, ListedInv, TypeOK, Creating, Freeing, Waiting
  <2>5. ListedInv'
    BY <2>1 DEF SafeInv, FileInv, InfoInv, HoldsInfo, OwnedInv, ListedInv, TypeOK, Creating, Freeing, Waiting, Writing
  <2>6. PagesInv'
    BY <2>1 DEF SafeInv, OwnedInv, PagesInv, TypeOK, Creating, Freeing, Waiting
  <2> QED  BY <2>2, <2>3, <2>4, <2>5, <2>6 DEF SafeInv
<1>19. ASSUME NEW t \in Threads, PutPages(t) PROVE SafeInv'
  <2>1. /\ th[t].pc = "put"
        /\ th'[t].pc = "kfree" /\ th'[t].mr = th[t].mr /\ th'[t].op = th[t].op
        /\ \A u \in Threads : u # t => th'[u] = th[u]
        /\ mr' = mr
        /\ nv' = [nv EXCEPT ![th[t].mr] = "none"]
        /\ UNCHANGED <<file, info_lock, mr_list, writer, readers>>
    BY <1>19, GotoFrame DEF PutPages, At, TypeOK, Region, info
  <2>2. FileInv'
    BY <2>1 DEF SafeInv, FileInv, InfoInv, HoldsInfo, Freeing, Waiting
  <2>3. InfoInv'
    BY <2>1 DEF SafeInv, InfoInv, HoldsInfo, Freeing, Waiting
  <2>4. OwnedInv'
    BY <2>1 DEF SafeInv, OwnedInv, ListedInv, TypeOK, Creating, Freeing, Waiting
  <2>5. ListedInv'
    BY <2>1 DEF SafeInv, FileInv, InfoInv, HoldsInfo, OwnedInv, ListedInv, TypeOK, Creating, Freeing, Waiting, Writing
  <2>6. PagesInv'
    BY <2>1 DEF SafeInv, OwnedInv, PagesInv, TypeOK, Creating, Freeing, Waiting
  <2> QED  BY <2>2, <2>3, <2>4, <2>5, <2>6 DEF SafeInv
<1>20. ASSUME NEW t \in Threads, Kfree(t) PROVE SafeInv'
  <2>1. /\ th[t].pc = "kfree"
        /\ \/ th[t].op = "release" /\ th'[t].pc = "rel_next" /\ th'[t].op = "release"
           \/ th[t].op # "release" /\ th'[t].pc = "idle" /\ th'[t].op = "none"
        /\ \A u \in Threads : u # t => th'[u] = th[u]
        /\ \A x \in MRs \ {th[t].mr} : mr'[x] = mr[x]
        /\ UNCHANGED <<file, info_lock, mr_list, writer, readers, nv>>
    BY <1>20 DEF Kfree, At, IdleThread, Thread, TypeOK, Region, info
  <2>2. FileInv'
    BY <2>1 DEF SafeInv, FileInv, InfoInv, HoldsInfo, Freeing, Waiting
  <2>3. InfoInv'
    BY <2>1 DEF SafeInv, InfoInv, HoldsInfo, Freeing, Waiting
  <2>4. OwnedInv'
    BY <2>1 DEF SafeInv, OwnedInv, ListedInv, TypeOK, Creating, Freeing, Waiting
  <2>5. ListedInv'
    BY <2>1 DEF SafeInv, FileInv, InfoInv, HoldsInfo, OwnedInv, ListedInv, TypeOK, Creating, Freeing, Waiting, Writing
  <2>6. PagesInv'
    BY <2>1 DEF SafeInv, OwnedInv, PagesInv, TypeOK, Creating, Freeing, Waiting
  <2> QED  BY <2>2, <2>3, <2>4, <2>5, <2>6 DEF SafeInv
<1>21. ASSUME NEW t \in Threads, NEW op \in {"get_info", "get_cb_flag"}, NEW h \in Nat, ReadStart(t, op, h) PROVE SafeInv'
  <2>1. /\ th[t].pc = "idle"
        /\ file = "open"
        /\ th'[t].pc = "read_lock" /\ th'[t].op = op
        /\ \A u \in Threads : u # t => th'[u] = th[u]
        /\ mr' = mr
        /\ UNCHANGED <<file, info_lock, mr_list, writer, readers, nv>>
    BY <1>21, BeginFrame DEF ReadStart, MayCall, At, TypeOK, Region, info
  <2>2. FileInv'
    BY <2>1 DEF SafeInv, FileInv, InfoInv, HoldsInfo, Freeing, Waiting
  <2>3. InfoInv'
    BY <2>1 DEF SafeInv, InfoInv, HoldsInfo, Freeing, Waiting
  <2>4. OwnedInv'
    BY <2>1 DEF SafeInv, OwnedInv, ListedInv, TypeOK, Creating, Freeing, Waiting
  <2>5. ListedInv'
    BY <2>1 DEF SafeInv, FileInv, InfoInv, HoldsInfo, OwnedInv, ListedInv, TypeOK, Creating, Freeing, Waiting, Writing
  <2>6. PagesInv'
    BY <2>1 DEF SafeInv, OwnedInv, PagesInv, TypeOK, Creating, Freeing, Waiting
  <2> QED  BY <2>2, <2>3, <2>4, <2>5, <2>6 DEF SafeInv
<1>22. ASSUME NEW t \in Threads, ReadSem(t) PROVE SafeInv'
  <2>1. /\ th[t].pc = "read_sem"
        /\ th'[t].pc = "read_body" /\ th'[t].mr = th[t].mr /\ th'[t].op = th[t].op
        /\ \A u \in Threads : u # t => th'[u] = th[u]
        /\ mr' = mr
        /\ readers' = [readers EXCEPT ![th[t].mr] = @ \cup {t}]
        /\ info_lock' = None
        /\ UNCHANGED <<file, mr_list, writer, nv>>
    BY <1>22, GotoFrame DEF ReadSem, At, TypeOK, Region, info
  <2>2. FileInv'
    BY <2>1 DEF SafeInv, FileInv, InfoInv, HoldsInfo, Freeing, Waiting
  <2>3. InfoInv'
    BY <2>1 DEF SafeInv, InfoInv, HoldsInfo, Freeing, Waiting
  <2>4. OwnedInv'
    BY <2>1 DEF SafeInv, OwnedInv, ListedInv, TypeOK, Creating, Freeing, Waiting
  <2>5. ListedInv'
    BY <2>1 DEF SafeInv, FileInv, InfoInv, HoldsInfo, OwnedInv, ListedInv, TypeOK, Creating, Freeing, Waiting, Writing
  <2>6. PagesInv'
    BY <2>1 DEF SafeInv, OwnedInv, PagesInv, TypeOK, Creating, Freeing, Waiting
  <2> QED  BY <2>2, <2>3, <2>4, <2>5, <2>6 DEF SafeInv
<1>23. ASSUME NEW t \in Threads, ReadBody(t) PROVE SafeInv'
  <2>1. /\ th[t].pc = "read_body"
        /\ th'[t].pc = "read_copy" /\ th'[t].op = th[t].op
        /\ \A u \in Threads : u # t => th'[u] = th[u]
        /\ mr' = mr
        /\ readers' = [readers EXCEPT ![th[t].mr] = @ \ {t}]
        /\ UNCHANGED <<file, info_lock, mr_list, writer, nv>>
    BY <1>23 DEF ReadBody, At, Thread, TypeOK, Region, info
  <2>2. FileInv'
    BY <2>1 DEF SafeInv, FileInv, InfoInv, HoldsInfo, Freeing, Waiting
  <2>3. InfoInv'
    BY <2>1 DEF SafeInv, InfoInv, HoldsInfo, Freeing, Waiting
  <2>4. OwnedInv'
    BY <2>1 DEF SafeInv, OwnedInv, ListedInv, TypeOK, Creating, Freeing, Waiting
  <2>5. ListedInv'
    BY <2>1 DEF SafeInv, FileInv, InfoInv, HoldsInfo, OwnedInv, ListedInv, TypeOK, Creating, Freeing, Waiting, Writing
  <2>6. PagesInv'
    BY <2>1 DEF SafeInv, OwnedInv, PagesInv, TypeOK, Creating, Freeing, Waiting
  <2> QED  BY <2>2, <2>3, <2>4, <2>5, <2>6 DEF SafeInv
<1>24. ASSUME NEW t \in Threads, ReadCopyToUser(t) PROVE SafeInv'
  <2>1. /\ th[t].pc = "read_copy"
        /\ th'[t].pc = "idle" /\ th'[t].op = "none"
        /\ \A u \in Threads : u # t => th'[u] = th[u]
        /\ mr' = mr
        /\ UNCHANGED <<file, info_lock, mr_list, writer, readers, nv>>
    BY <1>24, ReturnFrame DEF ReadCopyToUser, At, TypeOK, Region, info
  <2>2. FileInv'
    BY <2>1 DEF SafeInv, FileInv, InfoInv, HoldsInfo, Freeing, Waiting
  <2>3. InfoInv'
    BY <2>1 DEF SafeInv, InfoInv, HoldsInfo, Freeing, Waiting
  <2>4. OwnedInv'
    BY <2>1 DEF SafeInv, OwnedInv, ListedInv, TypeOK, Creating, Freeing, Waiting
  <2>5. ListedInv'
    BY <2>1 DEF SafeInv, FileInv, InfoInv, HoldsInfo, OwnedInv, ListedInv, TypeOK, Creating, Freeing, Waiting, Writing
  <2>6. PagesInv'
    BY <2>1 DEF SafeInv, OwnedInv, PagesInv, TypeOK, Creating, Freeing, Waiting
  <2> QED  BY <2>2, <2>3, <2>4, <2>5, <2>6 DEF SafeInv
<1>25. ASSUME NEW t \in Threads, NEW h \in Nat, ReqStart(t, h) PROVE SafeInv'
  <2>1. /\ th[t].pc = "idle"
        /\ file = "open"
        /\ th'[t].pc = "req_lock" /\ th'[t].op = "req_type"
        /\ \A u \in Threads : u # t => th'[u] = th[u]
        /\ mr' = mr
        /\ UNCHANGED <<file, info_lock, mr_list, writer, readers, nv>>
    BY <1>25, BeginFrame DEF ReqStart, MayCall, At, TypeOK, Region, info
  <2>2. FileInv'
    BY <2>1 DEF SafeInv, FileInv, InfoInv, HoldsInfo, Freeing, Waiting
  <2>3. InfoInv'
    BY <2>1 DEF SafeInv, InfoInv, HoldsInfo, Freeing, Waiting
  <2>4. OwnedInv'
    BY <2>1 DEF SafeInv, OwnedInv, ListedInv, TypeOK, Creating, Freeing, Waiting
  <2>5. ListedInv'
    BY <2>1 DEF SafeInv, FileInv, InfoInv, HoldsInfo, OwnedInv, ListedInv, TypeOK, Creating, Freeing, Waiting, Writing
  <2>6. PagesInv'
    BY <2>1 DEF SafeInv, OwnedInv, PagesInv, TypeOK, Creating, Freeing, Waiting
  <2> QED  BY <2>2, <2>3, <2>4, <2>5, <2>6 DEF SafeInv
<1>26. ASSUME NEW t \in Threads, NEW type \in MappingTypes, ReqBody(t, type) PROVE SafeInv'
  <2>1. /\ th[t].pc = "req_body"
        /\ th'[t].pc = "idle" /\ th'[t].op = "none"
        /\ \A u \in Threads : u # t => th'[u] = th[u]
        /\ \A x \in MRs : mr'[x].state = mr[x].state /\ mr'[x].page_table = mr[x].page_table
        /\ writer' = [writer EXCEPT ![th[t].mr] = None]
        /\ UNCHANGED <<file, info_lock, mr_list, readers, nv>>
    BY <1>26, ReturnFrame DEF ReqBody, At, TypeOK, Region, info
  <2>2. FileInv'
    BY <2>1 DEF SafeInv, FileInv, InfoInv, HoldsInfo, Freeing, Waiting
  <2>3. InfoInv'
    BY <2>1 DEF SafeInv, InfoInv, HoldsInfo, Freeing, Waiting
  <2>4. OwnedInv'
    BY <2>1 DEF SafeInv, OwnedInv, ListedInv, TypeOK, Creating, Freeing, Waiting
  <2>5. ListedInv'
    BY <2>1 DEF SafeInv, FileInv, InfoInv, HoldsInfo, OwnedInv, ListedInv, TypeOK, Creating, Freeing, Waiting, Writing
  <2>6. PagesInv'
    BY <2>1 DEF SafeInv, OwnedInv, PagesInv, TypeOK, Creating, Freeing, Waiting
  <2> QED  BY <2>2, <2>3, <2>4, <2>5, <2>6 DEF SafeInv
<1>27. ASSUME NEW t \in Threads, NEW h \in Nat, NEW v \in VMAs, NEW n \in Sizes, MmapStart(t, h, v, n) PROVE SafeInv'
  <2>1. /\ th[t].pc = "idle"
        /\ file = "open"
        /\ th'[t].pc = "mmap_lock" /\ th'[t].op = "mmap"
        /\ \A u \in Threads : u # t => th'[u] = th[u]
        /\ mr' = mr
        /\ UNCHANGED <<file, info_lock, mr_list, writer, readers, nv>>
    BY <1>27, BeginFrame DEF MmapStart, MayCall, At, TypeOK, Region, info
  <2>2. FileInv'
    BY <2>1 DEF SafeInv, FileInv, InfoInv, HoldsInfo, Freeing, Waiting
  <2>3. InfoInv'
    BY <2>1 DEF SafeInv, InfoInv, HoldsInfo, Freeing, Waiting
  <2>4. OwnedInv'
    BY <2>1 DEF SafeInv, OwnedInv, ListedInv, TypeOK, Creating, Freeing, Waiting
  <2>5. ListedInv'
    BY <2>1 DEF SafeInv, FileInv, InfoInv, HoldsInfo, OwnedInv, ListedInv, TypeOK, Creating, Freeing, Waiting, Writing
  <2>6. PagesInv'
    BY <2>1 DEF SafeInv, OwnedInv, PagesInv, TypeOK, Creating, Freeing, Waiting
  <2> QED  BY <2>2, <2>3, <2>4, <2>5, <2>6 DEF SafeInv
<1>28. ASSUME NEW t \in Threads, MmapRefused(t) PROVE SafeInv'
  <2>1. /\ th[t].pc = "mmap_body"
        /\ th'[t].pc = "mmap_undo" /\ th'[t].mr = th[t].mr /\ th'[t].op = th[t].op
        /\ \A u \in Threads : u # t => th'[u] = th[u]
        /\ \A x \in MRs : mr'[x].state = mr[x].state /\ mr'[x].page_table = mr[x].page_table
        /\ writer' = [writer EXCEPT ![th[t].mr] = None]
        /\ UNCHANGED <<file, info_lock, mr_list, readers, nv>>
    BY <1>28, GotoFrame DEF MmapRefused, At, MmapClear, TypeOK, Region, info
  <2>2. FileInv'
    BY <2>1 DEF SafeInv, FileInv, InfoInv, HoldsInfo, Freeing, Waiting
  <2>3. InfoInv'
    BY <2>1 DEF SafeInv, InfoInv, HoldsInfo, Freeing, Waiting
  <2>4. OwnedInv'
    BY <2>1 DEF SafeInv, OwnedInv, ListedInv, TypeOK, Creating, Freeing, Waiting
  <2>5. ListedInv'
    BY <2>1 DEF SafeInv, FileInv, InfoInv, HoldsInfo, OwnedInv, ListedInv, TypeOK, Creating, Freeing, Waiting, Writing
  <2>6. PagesInv'
    BY <2>1 DEF SafeInv, OwnedInv, PagesInv, TypeOK, Creating, Freeing, Waiting
  <2> QED  BY <2>2, <2>3, <2>4, <2>5, <2>6 DEF SafeInv
<1>29. ASSUME NEW t \in Threads, NEW k \in Nat, MmapFails(t, k) PROVE SafeInv'
  <2>1. /\ th[t].pc = "mmap_body"
        /\ th'[t].pc = "mmap_undo" /\ th'[t].mr = th[t].mr /\ th'[t].op = th[t].op
        /\ \A u \in Threads : u # t => th'[u] = th[u]
        /\ \A x \in MRs : mr'[x].state = mr[x].state /\ mr'[x].page_table = mr[x].page_table
        /\ writer' = [writer EXCEPT ![th[t].mr] = None]
        /\ UNCHANGED <<file, info_lock, mr_list, readers, nv>>
    BY <1>29, GotoFrame DEF MmapFails, At, MmapClear, TypeOK, Region, info
  <2>2. FileInv'
    BY <2>1 DEF SafeInv, FileInv, InfoInv, HoldsInfo, Freeing, Waiting
  <2>3. InfoInv'
    BY <2>1 DEF SafeInv, InfoInv, HoldsInfo, Freeing, Waiting
  <2>4. OwnedInv'
    BY <2>1 DEF SafeInv, OwnedInv, ListedInv, TypeOK, Creating, Freeing, Waiting
  <2>5. ListedInv'
    BY <2>1 DEF SafeInv, FileInv, InfoInv, HoldsInfo, OwnedInv, ListedInv, TypeOK, Creating, Freeing, Waiting, Writing
  <2>6. PagesInv'
    BY <2>1 DEF SafeInv, OwnedInv, PagesInv, TypeOK, Creating, Freeing, Waiting
  <2> QED  BY <2>2, <2>3, <2>4, <2>5, <2>6 DEF SafeInv
<1>30. ASSUME NEW t \in Threads, MmapMaps(t) PROVE SafeInv'
  <2>1. /\ th[t].pc = "mmap_body"
        /\ th'[t].pc = "mmap_link" /\ th'[t].mr = th[t].mr /\ th'[t].op = th[t].op
        /\ \A u \in Threads : u # t => th'[u] = th[u]
        /\ \A x \in MRs : mr'[x].state = mr[x].state /\ mr'[x].page_table = mr[x].page_table
        /\ writer' = [writer EXCEPT ![th[t].mr] = None]
        /\ UNCHANGED <<file, info_lock, mr_list, readers, nv>>
    BY <1>30, GotoFrame DEF MmapMaps, At, TypeOK, Region, info
  <2>2. FileInv'
    BY <2>1 DEF SafeInv, FileInv, InfoInv, HoldsInfo, Freeing, Waiting
  <2>3. InfoInv'
    BY <2>1 DEF SafeInv, InfoInv, HoldsInfo, Freeing, Waiting
  <2>4. OwnedInv'
    BY <2>1 DEF SafeInv, OwnedInv, ListedInv, TypeOK, Creating, Freeing, Waiting
  <2>5. ListedInv'
    BY <2>1 DEF SafeInv, FileInv, InfoInv, HoldsInfo, OwnedInv, ListedInv, TypeOK, Creating, Freeing, Waiting, Writing
  <2>6. PagesInv'
    BY <2>1 DEF SafeInv, OwnedInv, PagesInv, TypeOK, Creating, Freeing, Waiting
  <2> QED  BY <2>2, <2>3, <2>4, <2>5, <2>6 DEF SafeInv
<1>31. ASSUME NEW t \in Threads, MmapLink(t) PROVE SafeInv'
  <2>1. /\ th[t].pc = "mmap_link"
        /\ th'[t].pc = "idle" /\ th'[t].op = "none"
        /\ \A u \in Threads : u # t => th'[u] = th[u]
        /\ mr' = mr
        /\ UNCHANGED <<file, info_lock, mr_list, writer, readers, nv>>
    BY <1>31, ReturnFrame DEF MmapLink, At, TypeOK, Region, info
  <2>2. FileInv'
    BY <2>1 DEF SafeInv, FileInv, InfoInv, HoldsInfo, Freeing, Waiting
  <2>3. InfoInv'
    BY <2>1 DEF SafeInv, InfoInv, HoldsInfo, Freeing, Waiting
  <2>4. OwnedInv'
    BY <2>1 DEF SafeInv, OwnedInv, ListedInv, TypeOK, Creating, Freeing, Waiting
  <2>5. ListedInv'
    BY <2>1 DEF SafeInv, FileInv, InfoInv, HoldsInfo, OwnedInv, ListedInv, TypeOK, Creating, Freeing, Waiting, Writing
  <2>6. PagesInv'
    BY <2>1 DEF SafeInv, OwnedInv, PagesInv, TypeOK, Creating, Freeing, Waiting
  <2> QED  BY <2>2, <2>3, <2>4, <2>5, <2>6 DEF SafeInv
<1>32. ASSUME NEW t \in Threads, MmapUndo(t) PROVE SafeInv'
  <2>1. /\ th[t].pc = "mmap_undo"
        /\ th'[t].pc = "idle" /\ th'[t].op = "none"
        /\ \A u \in Threads : u # t => th'[u] = th[u]
        /\ mr' = mr
        /\ UNCHANGED <<file, info_lock, mr_list, writer, readers, nv>>
    BY <1>32, ReturnFrame DEF MmapUndo, At, TypeOK, Region, info
  <2>2. FileInv'
    BY <2>1 DEF SafeInv, FileInv, InfoInv, HoldsInfo, Freeing, Waiting
  <2>3. InfoInv'
    BY <2>1 DEF SafeInv, InfoInv, HoldsInfo, Freeing, Waiting
  <2>4. OwnedInv'
    BY <2>1 DEF SafeInv, OwnedInv, ListedInv, TypeOK, Creating, Freeing, Waiting
  <2>5. ListedInv'
    BY <2>1 DEF SafeInv, FileInv, InfoInv, HoldsInfo, OwnedInv, ListedInv, TypeOK, Creating, Freeing, Waiting, Writing
  <2>6. PagesInv'
    BY <2>1 DEF SafeInv, OwnedInv, PagesInv, TypeOK, Creating, Freeing, Waiting
  <2> QED  BY <2>2, <2>3, <2>4, <2>5, <2>6 DEF SafeInv
<1>33. ASSUME NEW t \in Threads, NEW v \in VMAs, MunmapStart(t, v) PROVE SafeInv'
  <2>1. /\ th[t].pc = "idle"
        /\ file = "open"
        /\ th'[t].pc = "close_lock" /\ th'[t].op = "munmap"
        /\ \A u \in Threads : u # t => th'[u] = th[u]
        /\ mr' = mr
        /\ UNCHANGED <<file, info_lock, mr_list, writer, readers, nv>>
    BY <1>33, BeginFrame DEF MunmapStart, MayUnmap, MayCall, At, TypeOK, Region, info
  <2>2. FileInv'
    BY <2>1 DEF SafeInv, FileInv, InfoInv, HoldsInfo, Freeing, Waiting
  <2>3. InfoInv'
    BY <2>1 DEF SafeInv, InfoInv, HoldsInfo, Freeing, Waiting
  <2>4. OwnedInv'
    BY <2>1 DEF SafeInv, OwnedInv, ListedInv, TypeOK, Creating, Freeing, Waiting
  <2>5. ListedInv'
    BY <2>1 DEF SafeInv, FileInv, InfoInv, HoldsInfo, OwnedInv, ListedInv, TypeOK, Creating, Freeing, Waiting, Writing
  <2>6. PagesInv'
    BY <2>1 DEF SafeInv, OwnedInv, PagesInv, TypeOK, Creating, Freeing, Waiting
  <2> QED  BY <2>2, <2>3, <2>4, <2>5, <2>6 DEF SafeInv
<1>34. ASSUME NEW t \in Threads, gdrdrv_vma_close(t) PROVE SafeInv'
  <2>1. /\ th[t].pc = "close_body"
        /\ th'[t].pc = "munmap_end" /\ th'[t].mr = th[t].mr /\ th'[t].op = th[t].op
        /\ \A u \in Threads : u # t => th'[u] = th[u]
        /\ \A x \in MRs : mr'[x].state = mr[x].state /\ mr'[x].page_table = mr[x].page_table
        /\ writer' = [writer EXCEPT ![th[t].mr] = None]
        /\ UNCHANGED <<file, info_lock, mr_list, readers, nv>>
    BY <1>34, GotoFrame DEF gdrdrv_vma_close, At, TypeOK, Region, info
  <2>2. FileInv'
    BY <2>1 DEF SafeInv, FileInv, InfoInv, HoldsInfo, Freeing, Waiting
  <2>3. InfoInv'
    BY <2>1 DEF SafeInv, InfoInv, HoldsInfo, Freeing, Waiting
  <2>4. OwnedInv'
    BY <2>1 DEF SafeInv, OwnedInv, ListedInv, TypeOK, Creating, Freeing, Waiting
  <2>5. ListedInv'
    BY <2>1 DEF SafeInv, FileInv, InfoInv, HoldsInfo, OwnedInv, ListedInv, TypeOK, Creating, Freeing, Waiting, Writing
  <2>6. PagesInv'
    BY <2>1 DEF SafeInv, OwnedInv, PagesInv, TypeOK, Creating, Freeing, Waiting
  <2> QED  BY <2>2, <2>3, <2>4, <2>5, <2>6 DEF SafeInv
<1>35. ASSUME NEW t \in Threads, MunmapEnd(t) PROVE SafeInv'
  <2>1. /\ th[t].pc = "munmap_end"
        /\ th'[t].pc = "idle" /\ th'[t].op = "none"
        /\ \A u \in Threads : u # t => th'[u] = th[u]
        /\ mr' = mr
        /\ UNCHANGED <<file, info_lock, mr_list, writer, readers, nv>>
    BY <1>35, ReturnFrame DEF MunmapEnd, At, TypeOK, Region, info
  <2>2. FileInv'
    BY <2>1 DEF SafeInv, FileInv, InfoInv, HoldsInfo, Freeing, Waiting
  <2>3. InfoInv'
    BY <2>1 DEF SafeInv, InfoInv, HoldsInfo, Freeing, Waiting
  <2>4. OwnedInv'
    BY <2>1 DEF SafeInv, OwnedInv, ListedInv, TypeOK, Creating, Freeing, Waiting
  <2>5. ListedInv'
    BY <2>1 DEF SafeInv, FileInv, InfoInv, HoldsInfo, OwnedInv, ListedInv, TypeOK, Creating, Freeing, Waiting, Writing
  <2>6. PagesInv'
    BY <2>1 DEF SafeInv, OwnedInv, PagesInv, TypeOK, Creating, Freeing, Waiting
  <2> QED  BY <2>2, <2>3, <2>4, <2>5, <2>6 DEF SafeInv
<1>36. ASSUME NEW t \in Threads, RelStart(t) PROVE SafeInv'
  <2>1. /\ \A u \in Threads : th[u].pc = "idle"
        /\ file = "open" /\ file' = "release"
        /\ th'[t].pc = "rel_next" /\ th'[t].op = "release"
        /\ \A u \in Threads : u # t => th'[u] = th[u]
        /\ mr' = mr
        /\ info_lock = None /\ info_lock' = t
        /\ UNCHANGED <<mr_list, writer, readers, nv>>
    BY <1>36, BeginFrame DEF RelStart, AllIdle, At, TypeOK, Region, info
  <2>2. FileInv'
    BY <2>1 DEF SafeInv, FileInv, InfoInv, HoldsInfo, Freeing, Waiting
  <2>3. InfoInv'
    BY <2>1 DEF SafeInv, InfoInv, HoldsInfo, Freeing, Waiting
  <2>4. OwnedInv'
    BY <2>1 DEF SafeInv, OwnedInv, ListedInv, TypeOK, Creating, Freeing, Waiting
  <2>5. ListedInv'
    BY <2>1 DEF SafeInv, FileInv, InfoInv, HoldsInfo, OwnedInv, ListedInv, TypeOK, Creating, Freeing, Waiting, Writing
  <2>6. PagesInv'
    BY <2>1 DEF SafeInv, OwnedInv, PagesInv, TypeOK, Creating, Freeing, Waiting
  <2> QED  BY <2>2, <2>3, <2>4, <2>5, <2>6 DEF SafeInv
<1>37. ASSUME NEW t \in Threads, NEW m \in MRs, RelPick(t, m) PROVE SafeInv'
  <2>1. /\ th[t].pc = "rel_next"
        /\ th'[t].pc = "rel_sem" /\ th'[t].op = th[t].op /\ th'[t].mr \in mr_list
        /\ \A u \in Threads : u # t => th'[u] = th[u]
        /\ mr' = mr
        /\ UNCHANGED <<file, info_lock, mr_list, writer, readers, nv>>
    BY <1>37 DEF RelPick, IsHead, At, Thread, TypeOK, Region, info
  <2>2. FileInv'
    BY <2>1 DEF SafeInv, FileInv, InfoInv, HoldsInfo, Freeing, Waiting
  <2>3. InfoInv'
    BY <2>1 DEF SafeInv, InfoInv, HoldsInfo, Freeing, Waiting
  <2>4. OwnedInv'
    BY <2>1 DEF SafeInv, OwnedInv, ListedInv, TypeOK, Creating, Freeing, Waiting
  <2>5. ListedInv'
    BY <2>1 DEF SafeInv, FileInv, InfoInv, HoldsInfo, OwnedInv, ListedInv, TypeOK, Creating, Freeing, Waiting, Writing
  <2>6. PagesInv'
    BY <2>1 DEF SafeInv, OwnedInv, PagesInv, TypeOK, Creating, Freeing, Waiting
  <2> QED  BY <2>2, <2>3, <2>4, <2>5, <2>6 DEF SafeInv
<1>38. ASSUME NEW t \in Threads, RelRemove(t) PROVE SafeInv'
  <2>1. /\ th[t].pc = "rel_sem"
        /\ th'[t].pc = "free" /\ th'[t].mr = th[t].mr /\ th'[t].op = th[t].op
        /\ \A u \in Threads : u # t => th'[u] = th[u]
        /\ \A x \in MRs : mr'[x].state = mr[x].state /\ mr'[x].page_table = mr[x].page_table
        /\ writer[th[t].mr] = None /\ readers[th[t].mr] = {}
        /\ writer' = [writer EXCEPT ![th[t].mr] = t]
        /\ mr_list' = mr_list \ {th[t].mr}
        /\ UNCHANGED <<file, info_lock, readers, nv>>
    BY <1>38, GotoFrame DEF RelRemove, At, CanWrite, TypeOK, Region, info
  <2>2. FileInv'
    BY <2>1 DEF SafeInv, FileInv, InfoInv, HoldsInfo, Freeing, Waiting
  <2>3. InfoInv'
    BY <2>1 DEF SafeInv, InfoInv, HoldsInfo, Freeing, Waiting
  <2>4. OwnedInv'
    BY <2>1 DEF SafeInv, OwnedInv, ListedInv, TypeOK, Creating, Freeing, Waiting
  <2>5. ListedInv'
    BY <2>1 DEF SafeInv, FileInv, InfoInv, HoldsInfo, OwnedInv, ListedInv, TypeOK, Creating, Freeing, Waiting, Writing
  <2>6. PagesInv'
    BY <2>1 DEF SafeInv, OwnedInv, PagesInv, TypeOK, Creating, Freeing, Waiting
  <2> QED  BY <2>2, <2>3, <2>4, <2>5, <2>6 DEF SafeInv
<1>39. ASSUME NEW t \in Threads, RelDone(t) PROVE SafeInv'
  <2>1. /\ th[t].pc = "rel_next"
        /\ th'[t].pc = "idle" /\ th'[t].op = "none"
        /\ \A u \in Threads : u # t => th'[u] = th[u]
        /\ mr' = mr
        /\ mr_list = {}
        /\ file' = "closed"
        /\ info_lock' = None
        /\ UNCHANGED <<mr_list, writer, readers, nv>>
    BY <1>39, ReturnFrame DEF RelDone, At, TypeOK, Region, info
  <2>2. FileInv'
    BY <2>1 DEF SafeInv, FileInv, InfoInv, HoldsInfo, Freeing, Waiting
  <2>3. InfoInv'
    BY <2>1 DEF SafeInv, InfoInv, HoldsInfo, Freeing, Waiting
  <2>4. OwnedInv'
    BY <2>1 DEF SafeInv, OwnedInv, ListedInv, TypeOK, Creating, Freeing, Waiting
  <2>5. ListedInv'
    BY <2>1 DEF SafeInv, FileInv, InfoInv, HoldsInfo, OwnedInv, ListedInv, TypeOK, Creating, Freeing, Waiting, Writing
  <2>6. PagesInv'
    BY <2>1 DEF SafeInv, OwnedInv, PagesInv, TypeOK, Creating, Freeing, Waiting
  <2> QED  BY <2>2, <2>3, <2>4, <2>5, <2>6 DEF SafeInv
<1>40. ASSUME NEW m \in MRs, CbStart(m) PROVE SafeInv'
  <2>1. /\ th' = th
        /\ mr' = mr
        /\ nv[m] = "held"
        /\ nv' = [nv EXCEPT ![m] = "revoking"]
        /\ UNCHANGED <<file, info_lock, mr_list, writer, readers>>
    BY <1>40 DEF CbStart, TypeOK, Region, info
  <2>2. FileInv'
    BY <2>1 DEF SafeInv, FileInv, InfoInv, HoldsInfo, Freeing, Waiting
  <2>3. InfoInv'
    BY <2>1 DEF SafeInv, InfoInv, HoldsInfo, Freeing, Waiting
  <2>4. OwnedInv'
    BY <2>1 DEF SafeInv, OwnedInv, ListedInv, TypeOK, Creating, Freeing, Waiting
  <2>5. ListedInv'
    BY <2>1 DEF SafeInv, FileInv, InfoInv, HoldsInfo, OwnedInv, ListedInv, TypeOK, Creating, Freeing, Waiting, Writing
  <2>6. PagesInv'
    BY <2>1 DEF SafeInv, OwnedInv, PagesInv, TypeOK, Creating, Freeing, Waiting
  <2> QED  BY <2>2, <2>3, <2>4, <2>5, <2>6 DEF SafeInv
<1>41. ASSUME NEW m \in MRs, CbLock(m) PROVE SafeInv'
  <2>1. /\ th' = th
        /\ \A x \in MRs : mr'[x].state = mr[x].state /\ mr'[x].page_table = mr[x].page_table
        /\ writer[m] = None
        /\ writer' = [writer EXCEPT ![m] = Callback]
        /\ UNCHANGED <<file, info_lock, mr_list, readers, nv>>
    BY <1>41 DEF CbLock, CanWrite, TypeOK, Region, info
  <2>2. FileInv'
    BY <2>1 DEF SafeInv, FileInv, InfoInv, HoldsInfo, Freeing, Waiting
  <2>3. InfoInv'
    BY <2>1 DEF SafeInv, InfoInv, HoldsInfo, Freeing, Waiting
  <2>4. OwnedInv'
    BY <2>1 DEF SafeInv, OwnedInv, ListedInv, TypeOK, Creating, Freeing, Waiting
  <2>5. ListedInv'
    BY <2>1 DEF SafeInv, FileInv, InfoInv, HoldsInfo, OwnedInv, ListedInv, TypeOK, Creating, Freeing, Waiting, Writing
  <2>6. PagesInv'
    BY <2>1 DEF SafeInv, OwnedInv, PagesInv, TypeOK, Creating, Freeing, Waiting
  <2> QED  BY <2>2, <2>3, <2>4, <2>5, <2>6 DEF SafeInv
<1>42. ASSUME NEW m \in MRs, CbBody(m) PROVE SafeInv'
  <2>1. /\ th' = th
        /\ \A x \in MRs : mr'[x].state = mr[x].state
        /\ \A x \in MRs \ {m} : mr'[x] = mr[x]
        /\ writer[m] = Callback
        /\ writer' = [writer EXCEPT ![m] = None]
        /\ nv' = [nv EXCEPT ![m] = "none"]
        /\ UNCHANGED <<file, info_lock, mr_list, readers>>
    BY <1>42 DEF CbBody, TypeOK, Region, info
  <2>2. FileInv'
    BY <2>1 DEF SafeInv, FileInv, InfoInv, HoldsInfo, Freeing, Waiting
  <2>3. InfoInv'
    BY <2>1 DEF SafeInv, InfoInv, HoldsInfo, Freeing, Waiting
  <2>4. OwnedInv'
    BY <2>1 DEF SafeInv, OwnedInv, ListedInv, TypeOK, Creating, Freeing, Waiting
  <2>5. ListedInv'
    BY <2>1 DEF SafeInv, FileInv, InfoInv, HoldsInfo, OwnedInv, ListedInv, TypeOK, Creating, Freeing, Waiting, Writing
  <2>6. PagesInv'
    BY <2>1 DEF SafeInv, OwnedInv, PagesInv, TypeOK, Creating, Freeing, Waiting
  <2> QED  BY <2>2, <2>3, <2>4, <2>5, <2>6 DEF SafeInv
<1>46. ASSUME NEW t \in Threads, NEW v \in VMAs, NEW w \in VMAs, NEW k \in 1 .. (vma[v].len - 1),
              MunmapHead(t, v, w, k) \/ MunmapTail(t, v, w, k)
       PROVE  SafeInv'
  <2>0. PICK kept, cut, keep, gone : MunmapPart(t, v, kept, keep, cut, gone)
    BY <1>46 DEF MunmapHead, MunmapTail
  <2>1. /\ th[t].pc = "idle"
        /\ file = "open"
        /\ th'[t].pc = "close_lock" /\ th'[t].op = "munmap"
        /\ \A u \in Threads : u # t => th'[u] = th[u]
        /\ mr' = mr
        /\ UNCHANGED <<file, info_lock, mr_list, writer, readers, nv>>
    BY <2>0, BeginFrame DEF MunmapPart, MayUnmap, MayCall, At, info
  <2>2. FileInv'
    BY <2>1 DEF SafeInv, FileInv, InfoInv, HoldsInfo, Freeing, Waiting
  <2>3. InfoInv'
    BY <2>1 DEF SafeInv, InfoInv, HoldsInfo, Freeing, Waiting
  <2>4. OwnedInv'
    BY <2>1 DEF SafeInv, OwnedInv, ListedInv, TypeOK, Creating, Freeing, Waiting
  <2>5. ListedInv'
    BY <2>1 DEF SafeInv, FileInv, InfoInv, HoldsInfo, OwnedInv, ListedInv, TypeOK, Creating, Freeing, Waiting, Writing
  <2>6. PagesInv'
    BY <2>1 DEF SafeInv, OwnedInv, PagesInv, TypeOK, Creating, Freeing, Waiting
  <2> QED  BY <2>2, <2>3, <2>4, <2>5, <2>6 DEF SafeInv
<1>43. ASSUME NEW t \in Threads, CallStart(t) PROVE SafeInv'
  <2>1. AnyHandle \subseteq Nat
    BY SizeAssumption DEF TypeOK, AnyHandle
  <2> QED  BY <1>43, <2>1, <1>6, <1>7, <1>16, <1>21, <1>25, <1>27, <1>33, <1>36, <1>46
           DEF CallStart
<1>44. ASSUME NEW t \in Threads, CallStep(t) PROVE SafeInv'
  <2>1. ASSUME UnpinLookup(t) \/ ReadLookup(t) \/ ReqLookup(t) \/ MmapLookup(t) \/ CloseLookup(t)
        PROVE  SafeInv'
    BY <2>1, <1>1 DEF UnpinLookup, ReadLookup, ReqLookup, MmapLookup, CloseLookup, Looking, Waiting, Writing
  <2>2. ASSUME UnpinMiss(t) \/ ReadMiss(t) \/ ReqMiss(t) \/ MmapMiss(t) \/ CloseMiss(t)
        PROVE  SafeInv'
    BY <2>2, <1>2 DEF UnpinMiss, ReadMiss, ReqMiss, MmapMiss, CloseMiss, Looking, Waiting, Writing
  <2>3. ASSUME ReqSem(t) \/ MmapSem(t) \/ CloseSem(t)
        PROVE  SafeInv'
    BY <2>3, <1>3 DEF ReqSem, MmapSem, CloseSem, Looking, Waiting, Writing
  <2>4. ASSUME NEW k \in Sizes \cup {0}, MmapFails(t, k)
        PROVE  SafeInv'
    BY <2>4, <1>29, SizeAssumption
  <2> QED
    BY <1>44, <2>1, <2>2, <2>3, <2>4,
       <1>8, <1>9, <1>10, <1>11, <1>12, <1>13, <1>14, <1>15, <1>17, <1>18,
       <1>19, <1>20, <1>22, <1>23, <1>24, <1>26, <1>28, <1>30, <1>31, <1>32,
       <1>34, <1>35, <1>37, <1>38, <1>39
    DEF CallStep
<1>45. ASSUME UNCHANGED vars PROVE SafeInv'
  BY <1>45 DEF vars, SafeInv, FileInv, InfoInv, HoldsInfo, OwnedInv, ListedInv, PagesInv
<1> QED
  BY <1>43, <1>44, <1>45, <1>4, <1>5, <1>40, <1>41, <1>42 DEF Next, CallbackStep

\* The invariant holds initially, ...
LEMMA InitInv == Init => TypeOK /\ SafeInv
<1> SUFFICES ASSUME Init PROVE TypeOK /\ SafeInv
  OBVIOUS
<1>1. TypeOK
  <2>1. [NewMR EXCEPT !.state = "free"] \in Region
    BY DEF NewMR, Region, MappingTypes
  <2>2. FreeVMA \in VMA
    BY DEF FreeVMA, VMA
  <2>3. IdleThread \in Thread
    BY DEF IdleThread, Thread, PCs
  <2> QED  BY <2>1, <2>2, <2>3 DEF Init, TypeOK
<1>2. \A t \in Threads : th[t].pc = "idle" /\ th[t].op = "none"
  BY DEF Init, IdleThread
<1>3. SafeInv
  BY <1>2 DEF Init, SafeInv, FileInv, InfoInv, HoldsInfo, OwnedInv, ListedInv, PagesInv,
              Creating, Freeing, Waiting, Writing
<1> QED  BY <1>1, <1>3

\* ... and implies what type correctness needs.
LEMMA SafeHasRegion == TypeOK /\ SafeInv => HasRegion
BY DEF TypeOK, SafeInv, OwnedInv, ListedInv, HasRegion, Uses, Creating, Freeing, Waiting, Writing

\* TypeOK and SafeInv together are inductive.
LEMMA Inductive == Spec => [](TypeOK /\ SafeInv)
<1>1. TypeOK /\ SafeInv /\ [Next]_vars => (TypeOK /\ SafeInv)'
  BY TypeStep, SafeStep, SafeHasRegion
<1> QED  BY InitInv, <1>1, PTL DEF Spec

\* Every state of the driver is well typed, whatever its callers do: gdrdrv's
\* handles stay natural numbers and the flags it reports are 0 or 1.
THEOREM TypeCorrect == Spec => []TypeOK
BY Inductive, PTL

\* No handler and no callback ever uses a region that was freed, for any number of
\* threads and regions and for callers that respect no rule at all: the handlers'
\* use of info->lock and mr->sem, and put_pages waiting for the callback, suffice.
THEOREM MemorySafety == Spec => []NoUseAfterFree
<1>1. TypeOK /\ SafeInv => NoUseAfterFree
  <2> SUFFICES ASSUME TypeOK, SafeInv PROVE NoUseAfterFree
    OBVIOUS
  <2> USE DEF SafeInv, Creating, Freeing, Waiting, Writing
  <2>1. \A m \in mr_list : mr[m].state = "live"
    BY DEF ListedInv
  <2>2. \A t \in Threads : Uses(t) => mr[th[t].mr].state = "live"
    BY DEF ListedInv, OwnedInv, Uses
  <2>3. \A m \in MRs : nv[m] # "none" => mr[m].state = "live"
    BY DEF PagesInv
  <2>4. \A t, u \in Threads :
           t # u /\ th[t].pc \in {"free", "put", "kfree"} /\ Uses(u) => th[t].mr # th[u].mr
    BY DEF ListedInv, OwnedInv, Uses
  <2> QED  BY <2>1, <2>2, <2>3, <2>4 DEF NoUseAfterFree
<1> QED  BY Inductive, <1>1, PTL
=============================================================================
