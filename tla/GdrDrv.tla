------------------------------- MODULE GdrDrv -------------------------------
(***************************************************************************)
(* The kernel driver gdrdrv: the memory regions (gdr_mr) of one open       *)
(* /dev/gdrdrv file, the handlers that pin, unpin, map and query them, and *)
(* the free callback by which the NVIDIA driver takes pages back.          *)
(*                                                                         *)
(* A thread runs one system call at a time, in steps cut where the code    *)
(* takes or drops a lock: info->lock, mr->sem, and the kernel's mmap_lock  *)
(* that mmap and munmap hold around the driver's handlers.  The callback   *)
(* of every region is an actor of its own.                                 *)
(***************************************************************************)
EXTENDS Integers, FiniteSets

CONSTANTS
    Threads,      \* threads of the process that opened the file
    MRs,          \* gdr_mr objects (kmalloc may hand a freed one out again)
    VMAs,         \* vm_area_struct objects
    None,         \* the NULL pointer, and a lock without owner
    Callback,     \* the owner of mr->sem while the free callback holds it
    Sizes,        \* sizes of a pinned buffer, in host pages
    HandleSpace,  \* stands for 2^(64 - PAGE_SHIFT), the range of page offsets
    Persistent,   \* gdr_use_persistent_mapping(): no free callback
    CouldCache,   \* gdrdrv_cpu_could_cache_gpu_mappings
    MustUseDevice, \* gdrdrv_cpu_must_use_device_mapping
    RamPages,     \* what gdr_pfn_is_ram(), or the CPU_CACHEABLE flag, may say of a buffer
    Calls,        \* the system calls the threads make
    Liberties     \* what callers do that libgdrapi or its documentation forbids

AllCalls == {"pin", "unpin", "get_info", "get_cb_flag", "req_type", "mmap", "munmap", "gdr_close"}

\* AnyHandle: any number as a handle, and calls on one handle overlapping.
\* Remap: mmap of a handle that is mapped.  UnpinMapped: unpin before unmap.
\* FreeDuringMap: the GPU memory is freed while mmap runs on its handle.
\* BadFlags: pin flags or tokens that the driver refuses.
\* Split: munmap of a part of a mapping.
\* AnyQuery: get_info, get_cb_flag and req_mapping_type with any number as a handle.
AllLiberties == {"AnyHandle", "AnyQuery", "Remap", "UnpinMapped", "FreeDuringMap", "BadFlags", "Split"}

ASSUME NullAssumption ==
    /\ None \notin Threads \cup MRs \cup VMAs \cup {Callback}
    /\ Callback \notin Threads
ASSUME SizeAssumption ==
    /\ HandleSpace \in Nat \ {0, 1}
    /\ Sizes \subseteq 0 .. (HandleSpace - 1)
ASSUME ModeAssumption ==
    /\ {Persistent, CouldCache, MustUseDevice} \cup RamPages \subseteq BOOLEAN
    /\ Calls \subseteq AllCalls
    /\ Liberties \subseteq AllLiberties

VARIABLES
    \* struct gdr_info of the open file
    file,                  \* open, closed, or its last reference gone and in release
    mr_list,               \* the regions on info->mr_list, see Last
    next_handle, next_handle_overflow,
    info_lock,             \* owner of info->lock
    \* struct gdr_mr
    mr,                    \* the fields, and whether the object is allocated
    writer, readers,       \* holders of mr->sem
    \* module-wide
    refcount,              \* gdrdrv_nv_get_pages_refcount
    \* the NVIDIA driver (external)
    nv,                    \* its registration of the pages of a region
    \* the kernel's memory manager (external)
    mmap_lock,             \* owner of the process's mmap_lock
    vma,                   \* the VMAs of the file and their page table entries
    \* the callers
    th,                    \* per thread: the call it is in and its locals
    handles,               \* handles a pin returned and no unpin was called on
    closing                \* 1 once gdr_close unpins what is left

vars == <<file, mr_list, next_handle, next_handle_overflow, info_lock, mr, writer,
          readers, refcount, nv, mmap_lock, vma, th, handles, closing>>

info == <<file, mr_list, next_handle, next_handle_overflow>>
mm   == <<mmap_lock, vma>>
user == <<handles, closing>>

MappingTypes == {"NONE", "WC", "CACHING", "DEVICE"}

\* Where a thread is: which step of its call comes next.
PCs == {"idle", "pin_get", "pin_check", "pin_publish", "pin_copy",
        "unpin_lock", "unpin_sem", "free", "put", "kfree",
        "read_lock", "read_sem", "read_body", "read_copy",
        "req_lock", "req_sem", "req_body",
        "mmap_lock", "mmap_sem", "mmap_body", "mmap_link", "mmap_undo",
        "close_lock", "close_sem", "close_body", "munmap_end",
        "rel_next", "rel_sem"}

IdleThread == [pc |-> "idle", op |-> "none", h |-> 0, mr |-> None, vma |-> None, val |-> 0]

NewMR == [state |-> "live", handle |-> 0, size |-> 0, page_table |-> 0, ram |-> FALSE, cb_flag |-> 0,
          cpu_mapping_type |-> "NONE", req_mapping_type |-> "NONE", vma |-> None]

FreeVMA == [state |-> "free", pgoff |-> 0, len |-> 0, mr |-> None, pte |-> {}]

Region == [state: {"free", "live"}, handle: Nat, size: Sizes \cup {0},
           page_table: {0, 1}, ram: BOOLEAN, cb_flag: {0, 1},
           cpu_mapping_type: MappingTypes, req_mapping_type: MappingTypes,
           vma: VMAs \cup {None}]

VMA == [state: {"free", "new", "linked", "closing"}, pgoff: Nat, len: Nat,
        mr: MRs \cup {None}, pte: SUBSET Nat]

Thread == [pc: PCs, op: AllCalls \cup {"none", "release"}, h: Nat,
           mr: MRs \cup {None}, vma: VMAs \cup {None}, val: {0, 1}]

\* Every variable has its type: in particular handles are never negative, and a
\* call never returns anything but 0 or 1 for a flag.
TypeOK ==
    /\ file \in {"closed", "open", "release"}
    /\ mr_list \subseteq MRs
    /\ next_handle \in Nat
    /\ next_handle_overflow \in {0, 1}
    /\ info_lock \in Threads \cup {None}
    /\ mr \in [MRs -> Region]
    /\ writer \in [MRs -> Threads \cup {Callback, None}]
    /\ readers \in [MRs -> SUBSET Threads]
    /\ refcount \in Int
    /\ nv \in [MRs -> {"none", "held", "revoking"}]
    /\ mmap_lock \in Threads \cup {None}
    /\ vma \in [VMAs -> VMA]
    /\ th \in [Threads -> Thread]
    /\ handles \subseteq Nat
    /\ closing \in {0, 1}
Init ==
    /\ file = "closed" /\ mr_list = {} /\ next_handle = 0 /\ next_handle_overflow = 0
    /\ info_lock = None
    /\ mr = [m \in MRs |-> [NewMR EXCEPT !.state = "free"]]
    /\ writer = [m \in MRs |-> None] /\ readers = [m \in MRs |-> {}]
    /\ refcount = 0
    /\ nv = [m \in MRs |-> "none"]
    /\ mmap_lock = None /\ vma = [v \in VMAs |-> FreeVMA]
    /\ th = [t \in Threads |-> IdleThread]
    /\ handles = {} /\ closing = 0

-----------------------------------------------------------------------------
(* Helpers: control flow, locks, list lookup, mappings.                    *)

At(t, pc)    == th[t].pc = pc
Goto(t, pc)  == th' = [th EXCEPT ![t].pc = pc]
Return(t)    == th' = [th EXCEPT ![t] = IdleThread]
Begin(t, op, pc, h, m, v) ==
    th' = [th EXCEPT ![t] = [IdleThread EXCEPT !.pc = pc, !.op = op, !.h = h, !.mr = m, !.vma = v]]

\* down_write and down_read.  A queued writer keeps later readers out: of the
\* writers only the callback queues without info->lock, which readers need.  Readers
\* stay out from CbStart on, shortly before the callback queues; one that came in
\* between would still read cb_flag = 0, as if it had come before CbStart.
CanWrite(m) == writer[m] = None /\ readers[m] = {}
CanRead(m)  == writer[m] = None /\ nv[m] # "revoking"

\* list_add puts a region at the head and handles only grow, so the list runs
\* from the largest handle to the smallest; its last element has the smallest.
IsHead(m) == m \in mr_list /\ \A k \in mr_list : mr[k].handle <= mr[m].handle
Last      == CHOOSE m \in mr_list : \A k \in mr_list : mr[m].handle <= mr[k].handle

\* The loop leaves mr at the last region visited: the match if there is one,
\* otherwise the last of the list, and NULL only when the list is empty.
gdr_mr_from_handle_unlocked(h) ==
    IF \E m \in mr_list : mr[m].handle = h
    THEN CHOOSE m \in mr_list : mr[m].handle = h
    ELSE IF mr_list # {} THEN Last ELSE None

gdr_mr_is_mapped(m) == mr[m].cpu_mapping_type # "NONE"

\* The page offsets [first, first + n) of the file.
Offsets(first, n) == first .. (first + n - 1)

\* Mutant: the length passed to unmap_mapping_range is 0, which means to the end of the file.
ZapToEnd(v) ==
    [w \in VMAs |->
        IF vma[w].state = "linked"
        THEN [vma[w] EXCEPT !.pte = {x \in @ : x < vma[v].pgoff}]
        ELSE vma[w]]

\* unmap_mapping_range walks the VMAs linked into the file's address space,
\* and removes the entries that the range of v covers.  A v that was freed is read
\* as an empty range; runs in which it can be check nothing about the entries.
gdrdrv_zap_vma(v) ==
    [w \in VMAs |->
        IF vma[w].state = "linked"
        THEN [vma[w] EXCEPT !.pte = @ \ Offsets(vma[v].pgoff, vma[v].len)]
        ELSE vma[w]]

\* What "if (gdr_mr_is_mapped(mr)) gdr_mr_destroy_all_mappings(mr)" does to the VMAs.
DestroyMappings(m) ==
    IF gdr_mr_is_mapped(m) /\ mr[m].vma # None THEN gdrdrv_zap_vma(mr[m].vma) ELSE vma

gdr_mr_supports_cache_mapping(m) == CouldCache /\ mr[m].page_table = 1 /\ mr[m].ram

\* The mapping type gdrdrv_mmap settles on.
ChosenType(m) ==
    CASE mr[m].req_mapping_type # "NONE" -> mr[m].req_mapping_type
      [] mr[m].req_mapping_type = "NONE" /\ gdr_mr_supports_cache_mapping(m) -> "CACHING"
      [] OTHER -> IF MustUseDevice THEN "DEVICE" ELSE "WC"

\* info->lock is taken and the handle looked up: the call goes on to wait for mr->sem ...
LookupHit(t, from, to) ==
    LET m == gdr_mr_from_handle_unlocked(th[t].h) IN
    /\ At(t, from) /\ info_lock = None
    /\ m # None
    /\ info_lock' = t
    /\ th' = [th EXCEPT ![t].pc = to, ![t].mr = m]
    /\ UNCHANGED <<info, mr, writer, readers, refcount, nv, mm, user>>

\* ... or there is no region, the lock is dropped and the call goes on to report it.
LookupMiss(t, from) ==
    /\ At(t, from) /\ info_lock = None
    /\ gdr_mr_from_handle_unlocked(th[t].h) = None
    /\ UNCHANGED <<info, info_lock, mr, writer, readers, refcount, nv, mm, user>>

\* down_write(&mr->sem), then info->lock is dropped (gdr_get_mr_from_handle_write).
SemWrite(t, from, to) ==
    /\ At(t, from) /\ CanWrite(th[t].mr)
    /\ writer' = [writer EXCEPT ![th[t].mr] = t]
    /\ info_lock' = None
    /\ Goto(t, to)
    /\ UNCHANGED <<info, mr, readers, refcount, nv, mm, user>>

-----------------------------------------------------------------------------
(* The callers: which call a thread may make next.                         *)

MayCall(t, call) == call \in Calls /\ At(t, "idle") /\ file = "open"
AllIdle          == \A t \in Threads : At(t, "idle")
Busy(h)          == \E t \in Threads : th[t].op \notin {"none", "pin", "release"} /\ th[t].h = h
MappedAt(h)      == \E v \in VMAs : vma[v].state # "free" /\ vma[v].pgoff = h

\* libgdrapi passes handles that pin returned and is not thread-safe, so calls
\* on one handle do not overlap.
MayUse(h) == \/ "AnyHandle" \in Liberties
             \/ h \in handles /\ ~Busy(h)
MayQuery(h) == MayUse(h) \/ ("AnyQuery" \in Liberties /\ h \notin handles)
AnyHandle   == IF {"AnyHandle", "AnyQuery"} \cap Liberties # {} THEN 0 .. (HandleSpace - 1) ELSE handles

\* gdr_close unpins what is left, mapped or not, one buffer after the other and
\* with no other call on the file, and then closes the file.
GdrClose ==
    /\ "gdr_close" \in Calls
    /\ file = "open" /\ closing = 0 /\ AllIdle
    /\ closing' = 1
    /\ UNCHANGED <<info, info_lock, mr, writer, readers, refcount, nv, mm, th, handles>>

-----------------------------------------------------------------------------
(* gdrdrv_open                                                             *)

Open ==
    /\ file = "closed"
    /\ file' = "open" /\ mr_list' = {} /\ next_handle' = 0 /\ next_handle_overflow' = 0
    /\ UNCHANGED <<info_lock, mr, writer, readers, refcount, nv, mm, th, user>>

-----------------------------------------------------------------------------
(* GDRDRV_IOC_PIN_BUFFER and _V2                                           *)

\* kmalloc, setup and down_write(&mr->sem) of the new region.
PinStart(t, m, n) ==
    /\ MayCall(t, "pin") /\ closing = 0
    /\ mr[m].state = "free"
    /\ mr' = [mr EXCEPT ![m] = [NewMR EXCEPT !.size = n]]
    /\ writer' = [writer EXCEPT ![m] = t]
    /\ Begin(t, "pin", "pin_get", 0, m, None)
    /\ UNCHANGED <<info, info_lock, readers, refcount, nv, mm, user>>

\* Flags or tokens are refused: "goto out" comes before down_write.
PinRefused(t, m) ==
    /\ "BadFlags" \in Liberties
    /\ MayCall(t, "pin") /\ closing = 0
    /\ mr[m].state = "free"
    /\ mr' = [mr EXCEPT ![m] = NewMR]
    /\ Begin(t, "pin", "free", 0, m, None)
    /\ UNCHANGED <<info, info_lock, writer, readers, refcount, nv, mm, user>>

\* nvidia_p2p_get_pages succeeds: from here on the callback may come at any time.
PinGetPages(t, ram) ==
    LET m == th[t].mr IN
    /\ At(t, "pin_get")
    /\ nv' = [nv EXCEPT ![m] = "held"]
    /\ refcount' = refcount + 1
    /\ mr' = [mr EXCEPT ![m].page_table = 1, ![m].ram = ram]
    /\ Goto(t, "pin_check")
    /\ UNCHANGED <<info, info_lock, writer, readers, mm, user>>

PinGetPagesFails(t) ==
    /\ At(t, "pin_get")
    /\ Goto(t, "free")
    /\ UNCHANGED <<info, info_lock, mr, writer, readers, refcount, nv, mm, user>>

\* The page table has another version or page size than the driver knows.
PinBadPageTable(t) ==
    /\ At(t, "pin_check")
    /\ Goto(t, "free")
    /\ UNCHANGED <<info, info_lock, mr, writer, readers, refcount, nv, mm, user>>

PinLock(t) ==
    /\ At(t, "pin_check") /\ info_lock = None
    /\ info_lock' = t
    /\ Goto(t, "pin_publish")
    /\ UNCHANGED <<info, mr, writer, readers, refcount, nv, mm, user>>

\* Mutant: MAX(1, ...) is dropped, a buffer of size 0 takes no handle.
HandleWithoutMax(m) ==
    LET next == next_handle + mr[m].size IN
    /\ next_handle_overflow = 0
    /\ next_handle_overflow' = IF next % HandleSpace < next_handle THEN 1 ELSE 0
    /\ mr' = [mr EXCEPT ![m].handle = next_handle]
    /\ next_handle' = next

\* Mutant: the handle is one less than the first free offset.
HandleOffByOne(m) ==
    /\ next_handle_overflow = 0
    /\ mr' = [mr EXCEPT ![m].handle = next_handle - 1]
    /\ next_handle' = next_handle + 1
    /\ UNCHANGED next_handle_overflow

gdr_generate_mr_handle(m) ==
    LET next == next_handle + (IF mr[m].size = 0 THEN 1 ELSE mr[m].size) IN
    /\ next_handle_overflow = 0
    /\ next_handle_overflow' = IF next % HandleSpace < next_handle THEN 1 ELSE 0
    /\ mr' = [mr EXCEPT ![m].handle = next_handle]
    /\ next_handle' = next

\* The region gets its handle, joins the list and is unlocked, under info->lock.
PinPublish(t) ==
    LET m == th[t].mr IN
    /\ At(t, "pin_publish")
    /\ gdr_generate_mr_handle(m)
    /\ mr_list' = mr_list \cup {m}
    /\ writer' = [writer EXCEPT ![m] = None]
    /\ info_lock' = None
    /\ th' = [th EXCEPT ![t].pc = "pin_copy", ![t].h = next_handle]
    /\ UNCHANGED <<file, readers, refcount, nv, mm, user>>

\* Mutant: the semaphore is released before the error path frees the region.
PinNoHandleUnlocks(t) ==
    /\ At(t, "pin_publish") /\ next_handle_overflow = 1
    /\ info_lock' = None
    /\ writer' = [writer EXCEPT ![th[t].mr] = None]
    /\ Goto(t, "free")
    /\ UNCHANGED <<info, mr, readers, refcount, nv, mm, user>>

\* Mutant: the error path returns without freeing the region.
PinNoHandleLeaks(t) ==
    /\ At(t, "pin_publish") /\ next_handle_overflow = 1
    /\ info_lock' = None
    /\ writer' = [writer EXCEPT ![th[t].mr] = None]
    /\ Return(t)
    /\ UNCHANGED <<info, mr, readers, refcount, nv, mm, user>>

\* No handle is left: the region goes, its semaphore still held.
PinNoHandle(t) ==
    /\ At(t, "pin_publish") /\ next_handle_overflow = 1
    /\ info_lock' = None
    /\ Goto(t, "free")
    /\ UNCHANGED <<info, mr, writer, readers, refcount, nv, mm, user>>

\* copy_to_user may fault on the user's page and then needs mmap_lock.
PinCopyToUser(t) ==
    /\ At(t, "pin_copy") /\ mmap_lock = None
    /\ handles' = handles \cup {th[t].h}
    /\ Return(t)
    /\ UNCHANGED <<info, info_lock, mr, writer, readers, refcount, nv, mm, closing>>

\* ... and when it fails the buffer is unpinned again, by its handle.
PinCopyFails(t) ==
    /\ At(t, "pin_copy") /\ mmap_lock = None
    /\ Goto(t, "unpin_lock")
    /\ UNCHANGED <<info, info_lock, mr, writer, readers, refcount, nv, mm, user>>

-----------------------------------------------------------------------------
(* GDRDRV_IOC_UNPIN_BUFFER and gdr_free_mr_unlocked                        *)

UnpinStart(t, h) ==
    /\ MayCall(t, "unpin") /\ MayUse(h)
    /\ MappedAt(h) => closing = 1 \/ "UnpinMapped" \in Liberties
    /\ closing = 1 => AllIdle
    /\ handles' = handles \ {h}
    /\ Begin(t, "unpin", "unpin_lock", h, None, None)
    /\ UNCHANGED <<info, info_lock, mr, writer, readers, refcount, nv, mm, closing>>

UnpinLookup(t) == LookupHit(t, "unpin_lock", "unpin_sem")
UnpinMiss(t)   == LookupMiss(t, "unpin_lock") /\ Return(t)

\* down_write, destroy the mappings, list_del and drop info->lock.
UnpinRemove(t) ==
    LET m == th[t].mr IN
    /\ At(t, "unpin_sem") /\ CanWrite(m)
    /\ writer' = [writer EXCEPT ![m] = t]
    /\ vma' = DestroyMappings(m)
    /\ mr' = [mr EXCEPT ![m].cpu_mapping_type = "NONE"]
    /\ mr_list' = mr_list \ {m}
    /\ info_lock' = None
    /\ Goto(t, "free")
    /\ UNCHANGED <<file, next_handle, next_handle_overflow, readers, refcount, nv,
                   mmap_lock, user>>

\* Mutant: nvidia_p2p_put_pages is called with mr->sem held.
FreeKeepsSem(t) ==
    /\ At(t, "free")
    /\ Goto(t, IF mr[th[t].mr].page_table = 1 THEN "put" ELSE "kfree")
    /\ UNCHANGED <<info, info_lock, mr, writer, readers, refcount, nv, mm, user>>

\* up_write, to let a waiting callback run before nvidia_p2p_put_pages.
FreeDropSem(t) ==
    LET m == th[t].mr IN
    /\ At(t, "free")
    /\ writer' = [writer EXCEPT ![m] = None]
    /\ Goto(t, IF mr[m].page_table = 1 THEN "put" ELSE "kfree")
    /\ UNCHANGED <<info, info_lock, mr, readers, refcount, nv, mm, user>>

\* Mutant: put_pages does not wait for a callback in flight.
PutPagesMutant(t) ==
    LET m == th[t].mr IN
    /\ At(t, "put")
    /\ nv' = [nv EXCEPT ![m] = IF @ = "held" THEN "none" ELSE @]
    /\ refcount' = IF nv[m] = "held" THEN refcount - 1 ELSE refcount
    /\ Goto(t, "kfree")
    /\ UNCHANGED <<info, info_lock, mr, writer, readers, mm, user>>

\* Mutant: the refcount is decremented whatever the status of put_pages.
PutPagesAlwaysCounts(t) ==
    /\ At(t, "put") /\ nv[th[t].mr] # "revoking"
    /\ nv' = [nv EXCEPT ![th[t].mr] = "none"]
    /\ refcount' = refcount - 1
    /\ Goto(t, "kfree")
    /\ UNCHANGED <<info, info_lock, mr, writer, readers, mm, user>>

\* nvidia_p2p_put_pages waits for a callback in flight and fails when it has run.
PutPages(t) ==
    LET m == th[t].mr IN
    /\ At(t, "put") /\ nv[m] # "revoking"
    /\ nv' = [nv EXCEPT ![m] = "none"]
    /\ refcount' = IF nv[m] = "held" THEN refcount - 1 ELSE refcount
    /\ Goto(t, "kfree")
    /\ UNCHANGED <<info, info_lock, mr, writer, readers, mm, user>>

Kfree(t) ==
    /\ At(t, "kfree")
    /\ mr' = [mr EXCEPT ![th[t].mr] = [NewMR EXCEPT !.state = "free"]]
    /\ th' = [th EXCEPT ![t] = IF th[t].op = "release"
                               THEN [IdleThread EXCEPT !.pc = "rel_next", !.op = "release"]
                               ELSE IdleThread]
    /\ UNCHANGED <<info, info_lock, writer, readers, refcount, nv, mm, user>>

-----------------------------------------------------------------------------
(* GDRDRV_IOC_GET_INFO, _GET_INFO_V2 and _GET_CB_FLAG                      *)

ReadStart(t, op, h) ==
    /\ MayCall(t, op) /\ MayQuery(h) /\ closing = 0
    /\ Begin(t, op, "read_lock", h, None, None)
    /\ UNCHANGED <<info, info_lock, mr, writer, readers, refcount, nv, mm, user>>

ReadLookup(t) == LookupHit(t, "read_lock", "read_sem")
ReadMiss(t)   == LookupMiss(t, "read_lock") /\ Return(t)

\* Mutant: the fields are read without mr->sem.
ReadWithoutSem(t) ==
    /\ At(t, "read_sem")
    /\ info_lock' = None
    /\ Goto(t, "read_body")
    /\ UNCHANGED <<info, mr, writer, readers, refcount, nv, mm, user>>

ReadSem(t) ==
    LET m == th[t].mr IN
    /\ At(t, "read_sem") /\ CanRead(m)
    /\ readers' = [readers EXCEPT ![m] = @ \cup {t}]
    /\ info_lock' = None
    /\ Goto(t, "read_body")
    /\ UNCHANGED <<info, mr, writer, refcount, nv, mm, user>>

\* The answer that callers act on: has the callback come, or is the buffer mapped.
Answer(op, m) == IF op = "get_cb_flag" THEN mr[m].cb_flag
                 ELSE IF gdr_mr_is_mapped(m) THEN 1 ELSE 0

\* The fields are read, then up_read.
ReadBody(t) ==
    LET m == th[t].mr IN
    /\ At(t, "read_body")
    /\ readers' = [readers EXCEPT ![m] = @ \ {t}]
    /\ th' = [th EXCEPT ![t].pc = "read_copy", ![t].val = Answer(th[t].op, m)]
    /\ UNCHANGED <<info, info_lock, mr, writer, refcount, nv, mm, user>>

\* copy_to_user, with no lock of the driver held.
ReadCopyToUser(t) ==
    /\ At(t, "read_copy") /\ mmap_lock = None
    /\ Return(t)
    /\ UNCHANGED <<info, info_lock, mr, writer, readers, refcount, nv, mm, user>>

-----------------------------------------------------------------------------
(* GDRDRV_IOC_REQ_MAPPING_TYPE                                             *)

ReqStart(t, h) ==
    /\ MayCall(t, "req_type") /\ MayQuery(h) /\ closing = 0
    /\ Begin(t, "req_type", "req_lock", h, None, None)
    /\ UNCHANGED <<info, info_lock, mr, writer, readers, refcount, nv, mm, user>>

ReqLookup(t) == LookupHit(t, "req_lock", "req_sem")
ReqMiss(t)   == LookupMiss(t, "req_lock") /\ Return(t)
ReqSem(t)    == SemWrite(t, "req_sem", "req_body")

Supported(m, type) ==
    CASE type = "CACHING" -> gdr_mr_supports_cache_mapping(m)
      [] type = "WC"      -> ~MustUseDevice
      [] type = "DEVICE"  -> MustUseDevice
      [] OTHER            -> TRUE

\* Mutant: no -EBUSY for a buffer that is mapped.
ReqBodyMutant(t, type) ==
    LET m == th[t].mr IN
    /\ At(t, "req_body")
    /\ mr' = IF Supported(m, type) THEN [mr EXCEPT ![m].req_mapping_type = type] ELSE mr
    /\ writer' = [writer EXCEPT ![m] = None]
    /\ Return(t)
    /\ UNCHANGED <<info, info_lock, readers, refcount, nv, mm, user>>

ReqBody(t, type) ==
    LET m == th[t].mr IN
    /\ At(t, "req_body")
    /\ mr' = IF ~gdr_mr_is_mapped(m) /\ Supported(m, type)
             THEN [mr EXCEPT ![m].req_mapping_type = type] ELSE mr
    /\ writer' = [writer EXCEPT ![m] = None]
    /\ Return(t)
    /\ UNCHANGED <<info, info_lock, readers, refcount, nv, mm, user>>

-----------------------------------------------------------------------------
(* mmap: the kernel makes a VMA, calls gdrdrv_mmap and links the VMA into  *)
(* the file's address space after the handler has returned.                *)

MmapStart(t, h, v, n) ==
    /\ MayCall(t, "mmap") /\ MayUse(h) /\ closing = 0
    /\ MappedAt(h) => "Remap" \in Liberties
    /\ \/ "FreeDuringMap" \in Liberties
       \/ \A m \in mr_list : mr[m].handle = h => nv[m] # "revoking"
    /\ mmap_lock = None /\ vma[v].state = "free"
    /\ mmap_lock' = t
    /\ vma' = [vma EXCEPT ![v] = [FreeVMA EXCEPT !.state = "new", !.pgoff = h, !.len = n]]
    /\ Begin(t, "mmap", "mmap_lock", h, None, v)
    /\ UNCHANGED <<info, info_lock, mr, writer, readers, refcount, nv, user>>

MmapLookup(t) == LookupHit(t, "mmap_lock", "mmap_sem")
MmapMiss(t)   == LookupMiss(t, "mmap_lock") /\ Goto(t, "mmap_undo")
MmapSem(t)    == SemWrite(t, "mmap_sem", "mmap_body")

\* Mutant: mmap does not look at cb_flag and page_table.
RefusalMutant(m, v) == gdr_mr_is_mapped(m) \/ vma[v].len > mr[m].size

Refusal(m, v) ==
    \/ gdr_mr_is_mapped(m)
    \/ mr[m].cb_flag = 1
    \/ mr[m].page_table = 0
    \/ vma[v].len > mr[m].size

\* Every error path clears the mapping state of the region and unlocks it.
MmapClear(t) ==
    /\ mr' = [mr EXCEPT ![th[t].mr].vma = None, ![th[t].mr].cpu_mapping_type = "NONE"]
    /\ writer' = [writer EXCEPT ![th[t].mr] = None]
    /\ Goto(t, "mmap_undo")
    /\ UNCHANGED <<info, info_lock, readers, refcount, nv, mmap_lock, user>>

MmapRefused(t) ==
    /\ At(t, "mmap_body")
    /\ Refusal(th[t].mr, th[t].vma)
    /\ MmapClear(t)
    /\ UNCHANGED vma

\* The buffer is unaligned, or remapping one of its contiguous ranges fails
\* with the first k pages mapped.
MmapFails(t, k) ==
    LET m == th[t].mr  v == th[t].vma IN
    /\ At(t, "mmap_body")
    /\ ~Refusal(m, v) /\ k < vma[v].len
    /\ vma' = [vma EXCEPT ![v].mr = m, ![v].pte = Offsets(vma[v].pgoff, k)]
    /\ MmapClear(t)

MmapMaps(t) ==
    LET m == th[t].mr  v == th[t].vma IN
    /\ At(t, "mmap_body")
    /\ ~Refusal(m, v)
    /\ vma' = [vma EXCEPT ![v].mr = m, ![v].pte = Offsets(vma[v].pgoff, vma[v].len)]
    /\ mr' = [mr EXCEPT ![m].vma = v, ![m].cpu_mapping_type = ChosenType(m)]
    /\ writer' = [writer EXCEPT ![m] = None]
    /\ Goto(t, "mmap_link")
    /\ UNCHANGED <<info, info_lock, readers, refcount, nv, mmap_lock, user>>

\* The kernel's part after the handler: link the VMA, or take it back.
MmapLink(t) ==
    /\ At(t, "mmap_link")
    /\ vma' = [vma EXCEPT ![th[t].vma].state = "linked"]
    /\ mmap_lock' = None
    /\ Return(t)
    /\ UNCHANGED <<info, info_lock, mr, writer, readers, refcount, nv, user>>

MmapUndo(t) ==
    /\ At(t, "mmap_undo")
    /\ vma' = [vma EXCEPT ![th[t].vma] = FreeVMA]
    /\ mmap_lock' = None
    /\ Return(t)
    /\ UNCHANGED <<info, info_lock, mr, writer, readers, refcount, nv, user>>

-----------------------------------------------------------------------------
(* munmap, also at process exit: the kernel removes the entries and        *)
(* unlinks the VMA, calls gdrdrv_vma_close and frees the VMA.              *)

MayUnmap(t, v) ==
    /\ MayCall(t, "munmap")
    /\ "AnyHandle" \in Liberties \/ ~Busy(vma[v].pgoff)
    /\ closing = 1 => handles = {} /\ AllIdle
    /\ mmap_lock = None /\ vma[v].state = "linked"

MunmapStart(t, v) ==
    /\ MayUnmap(t, v)
    /\ mmap_lock' = t
    /\ vma' = [vma EXCEPT ![v].state = "closing", ![v].pte = {}]
    /\ Begin(t, "munmap", "close_lock", vma[v].pgoff, None, v)
    /\ UNCHANGED <<info, info_lock, mr, writer, readers, refcount, nv, user>>

\* What a VMA object for the n pages from first on, split off v, holds.
Part(v, first, n) ==
    [vma[v] EXCEPT !.pgoff = first, !.len = n, !.pte = @ \cap Offsets(first, n)]

\* munmap of a part of v: the kernel splits v in two objects, without a call to the
\* driver, which has no vm_ops->open and no may_split, and then closes one of them.
MunmapPart(t, v, kept, keep, cut, gone) ==
    /\ "Split" \in Liberties
    /\ MayUnmap(t, v)
    /\ mmap_lock' = t
    /\ vma' = [vma EXCEPT ![kept] = keep, ![cut] = [gone EXCEPT !.state = "closing", !.pte = {}]]
    /\ Begin(t, "munmap", "close_lock", gone.pgoff, None, cut)
    /\ UNCHANGED <<info, info_lock, mr, writer, readers, refcount, nv, user>>

\* The first k pages go, in a new object w.
MunmapHead(t, v, w, k) ==
    /\ vma[w].state = "free"
    /\ MunmapPart(t, v, v, Part(v, vma[v].pgoff + k, vma[v].len - k), w, Part(v, vma[v].pgoff, k))

\* All but the first k pages go, in a new object or, from Linux 6.3 on, in the old one.
MunmapTail(t, v, w, k) ==
    /\ vma[w].state = "free"
    /\ \E kept \in {v, w} :
          MunmapPart(t, v, kept, Part(v, vma[v].pgoff, k),
                     IF kept = v THEN w ELSE v, Part(v, vma[v].pgoff + k, vma[v].len - k))

CloseLookup(t) == LookupHit(t, "close_lock", "close_sem")
CloseMiss(t)   == LookupMiss(t, "close_lock") /\ Goto(t, "munmap_end")
CloseSem(t)    == SemWrite(t, "close_sem", "close_body")

\* Mutant: closing the VMA leaves the region's pointer to it.
VmaCloseMutant(t) ==
    /\ At(t, "close_body")
    /\ writer' = [writer EXCEPT ![th[t].mr] = None]
    /\ Goto(t, "munmap_end")
    /\ UNCHANGED <<info, info_lock, mr, readers, refcount, nv, mm, user>>

gdrdrv_vma_close(t) ==
    LET m == th[t].mr IN
    /\ At(t, "close_body")
    /\ mr' = [mr EXCEPT ![m].vma = None, ![m].cpu_mapping_type = "NONE"]
    /\ writer' = [writer EXCEPT ![m] = None]
    /\ Goto(t, "munmap_end")
    /\ UNCHANGED <<info, info_lock, readers, refcount, nv, mm, user>>

MunmapEnd(t) ==
    /\ At(t, "munmap_end")
    /\ vma' = [vma EXCEPT ![th[t].vma] = FreeVMA]
    /\ mmap_lock' = None
    /\ Return(t)
    /\ UNCHANGED <<info, info_lock, mr, writer, readers, refcount, nv, user>>

-----------------------------------------------------------------------------
(* gdrdrv_release: the last reference to the file is gone, so no call is   *)
(* running and no VMA is left; info->lock is held over the whole loop.     *)

RelStart(t) ==
    /\ file = "open" /\ info_lock = None /\ AllIdle
    /\ \A v \in VMAs : vma[v].state = "free"
    /\ file' = "release"
    /\ info_lock' = t
    /\ handles' = {}
    /\ Begin(t, "release", "rel_next", 0, None, None)
    /\ UNCHANGED <<mr_list, next_handle, next_handle_overflow, mr, writer, readers, refcount,
                   nv, mm, closing>>

RelPick(t, m) ==
    /\ At(t, "rel_next") /\ IsHead(m)
    /\ th' = [th EXCEPT ![t].pc = "rel_sem", ![t].mr = m]
    /\ UNCHANGED <<info, info_lock, mr, writer, readers, refcount, nv, mm, user>>

RelRemove(t) ==
    LET m == th[t].mr IN
    /\ At(t, "rel_sem") /\ CanWrite(m)
    /\ writer' = [writer EXCEPT ![m] = t]
    /\ vma' = DestroyMappings(m)
    /\ mr' = [mr EXCEPT ![m].cpu_mapping_type = "NONE"]
    /\ mr_list' = mr_list \ {m}
    /\ Goto(t, "free")
    /\ UNCHANGED <<file, next_handle, next_handle_overflow, info_lock, readers, refcount,
                   nv, mmap_lock, user>>

RelDone(t) ==
    /\ At(t, "rel_next") /\ mr_list = {}
    /\ info_lock' = None
    /\ file' = "closed"
    /\ closing' = 0
    /\ Return(t)
    /\ UNCHANGED <<mr_list, next_handle, next_handle_overflow, mr, writer, readers, refcount,
                   nv, mm, handles>>

-----------------------------------------------------------------------------
(* gdrdrv_get_pages_free_callback                                          *)

\* The GPU memory is freed: the NVIDIA driver calls back, and keeps the pages
\* registered until the callback returns.
CbStart(m) ==
    /\ ~Persistent
    /\ nv[m] = "held"
    /\ \/ "FreeDuringMap" \in Liberties
       \/ m \notin mr_list
       \/ \A t \in Threads : th[t].op = "mmap" => th[t].h # mr[m].handle
    /\ nv' = [nv EXCEPT ![m] = "revoking"]
    /\ UNCHANGED <<info, info_lock, mr, writer, readers, refcount, mm, th, user>>

\* Mutant: the callback takes info->lock first.
CbLockMutant(m) ==
    /\ nv[m] = "revoking" /\ CanWrite(m) /\ info_lock = None
    /\ writer' = [writer EXCEPT ![m] = Callback]
    /\ mr' = [mr EXCEPT ![m].cb_flag = 1]
    /\ UNCHANGED <<info, info_lock, readers, refcount, nv, mm, th, user>>

\* down_write(&mr->sem), without info->lock.
CbLock(m) ==
    /\ nv[m] = "revoking" /\ CanWrite(m)
    /\ writer' = [writer EXCEPT ![m] = Callback]
    /\ mr' = [mr EXCEPT ![m].cb_flag = 1]
    /\ UNCHANGED <<info, info_lock, readers, refcount, nv, mm, th, user>>

\* The page table is freed, the mappings destroyed and the semaphore released.  The
\* callback returns to the NVIDIA driver in the same step: after up_write it does not
\* use the region any more.
CbBody(m) ==
    /\ nv[m] = "revoking" /\ writer[m] = Callback
    /\ IF mr[m].page_table = 1
       THEN /\ refcount' = refcount - 1
            /\ vma' = DestroyMappings(m)
            /\ mr' = [mr EXCEPT ![m].page_table = 0, ![m].cpu_mapping_type = "NONE"]
       ELSE UNCHANGED <<refcount, vma, mr>>
    /\ writer' = [writer EXCEPT ![m] = None]
    /\ nv' = [nv EXCEPT ![m] = "none"]
    /\ UNCHANGED <<info, info_lock, readers, mmap_lock, th, user>>

-----------------------------------------------------------------------------

CallStart(t) ==
    \/ \E m \in MRs : PinRefused(t, m) \/ \E n \in Sizes : PinStart(t, m, n)
    \/ \E h \in AnyHandle :
         \/ UnpinStart(t, h)
         \/ \E op \in {"get_info", "get_cb_flag"} : ReadStart(t, op, h)
         \/ ReqStart(t, h)
         \/ \E v \in VMAs, n \in Sizes \ {0} : MmapStart(t, h, v, n)
    \/ \E v \in VMAs :
         \/ MunmapStart(t, v)
         \/ \E w \in VMAs, k \in 1 .. (vma[v].len - 1) : MunmapHead(t, v, w, k) \/ MunmapTail(t, v, w, k)
    \/ RelStart(t)

\* The next step of the call that t is in.
CallStep(t) ==
    \/ (\E ram \in RamPages : PinGetPages(t, ram)) \/ PinGetPagesFails(t) \/ PinBadPageTable(t) \/ PinLock(t)
    \/ PinPublish(t) \/ PinNoHandle(t) \/ PinCopyToUser(t) \/ PinCopyFails(t)
    \/ UnpinLookup(t) \/ UnpinMiss(t) \/ UnpinRemove(t)
    \/ FreeDropSem(t) \/ PutPages(t) \/ Kfree(t)
    \/ ReadLookup(t) \/ ReadMiss(t) \/ ReadSem(t) \/ ReadBody(t) \/ ReadCopyToUser(t)
    \/ ReqLookup(t) \/ ReqMiss(t) \/ ReqSem(t) \/ \E type \in MappingTypes : ReqBody(t, type)
    \/ MmapLookup(t) \/ MmapMiss(t) \/ MmapSem(t) \/ MmapRefused(t) \/ MmapMaps(t)
    \/ \E k \in Sizes \cup {0} : MmapFails(t, k)
    \/ MmapLink(t) \/ MmapUndo(t)
    \/ CloseLookup(t) \/ CloseMiss(t) \/ CloseSem(t) \/ gdrdrv_vma_close(t) \/ MunmapEnd(t)
    \/ (\E m \in MRs : RelPick(t, m)) \/ RelRemove(t) \/ RelDone(t)

CallbackStep(m) == CbLock(m) \/ CbBody(m)

Next ==
    \/ Open \/ GdrClose
    \/ \E t \in Threads : CallStart(t) \/ CallStep(t)
    \/ \E m \in MRs : CbStart(m) \/ CallbackStep(m)

Spec == Init /\ [][Next]_vars

\* A call in progress and a callback keep running, and the kernel's mutexes
\* and semaphores hand over to their waiters: nobody is overtaken forever.
Fairness ==
    /\ \A t \in Threads : SF_vars(CallStep(t))
    /\ \A m \in MRs : SF_vars(CallbackStep(m))

FairSpec == Spec /\ Fairness

-----------------------------------------------------------------------------
(* Properties.                                                             *)

\* Steps at which a thread is going to use the region it holds a pointer to.
Uses(t) == th[t].pc \in {"pin_get", "pin_check", "pin_publish", "unpin_sem", "free", "put", "kfree",
                         "read_sem", "read_body", "req_sem", "req_body", "mmap_sem", "mmap_body",
                         "close_sem", "close_body", "rel_sem"}

\* No region is freed under somebody who still has a use for it: a region on the
\* list, a region some handler is about to lock, read or free, and a region that
\* a free callback has been or can still be called with is allocated, and no two
\* threads are freeing the same one.
NoUseAfterFree ==
    /\ \A m \in mr_list : mr[m].state = "live"
    /\ \A t \in Threads : Uses(t) => mr[th[t].mr].state = "live"
    /\ \A m \in MRs : nv[m] # "none" => mr[m].state = "live"
    /\ \A t, u \in Threads :
          t # u /\ th[t].pc \in {"free", "put", "kfree"} /\ Uses(u) => th[t].mr # th[u].mr

\* gdr_free_mr_unlocked: "mr->sem must be under down_write before calling this
\* function"; it then releases the semaphore.
FreedUnderWriteLock == \A t \in Threads : At(t, "free") => writer[th[t].mr] = t

\* The refcount that rmmod checks and procfs shows is the number of regions whose
\* pages the NVIDIA driver has handed out and not taken back, however unpin, a
\* failing pin, release and the callback interleave.
RefcountExact == refcount = Cardinality({m \in MRs : nv[m] # "none"})

\* Once the NVIDIA driver has its pages back, because of the callback or of
\* nvidia_p2p_put_pages, no VMA of the process reaches them any more.
NoStaleMapping ==
    \A v \in VMAs : vma[v].state = "linked" /\ vma[v].pte # {} => nv[vma[v].mr] # "none"

\* Freeing or unpinning one buffer leaves the mappings of the others alone: a VMA
\* that stays loses entries only together with the region they belong to.
ZapIsolation ==
    [][\A v \in VMAs :
          /\ vma[v].state = "linked" /\ vma'[v].state = "linked"
          /\ vma'[v].pte # vma[v].pte
          => nv'[vma[v].mr] = "none" \/ vma[v].mr \notin mr_list']_vars

\* A region that believes it is mapped points to a VMA that exists: the callback,
\* unpin and release read vm_pgoff, vm_start and vm_end of it.
NoDanglingVma ==
    \A m \in MRs : gdr_mr_is_mapped(m) /\ mr[m].vma # None => vma[mr[m].vma].state # "free"

\* The page offsets of two regions never overlap, so that each range of offsets
\* belongs to one VMA, and a handle fits in the offset that mmap is given.
HandleRangesDisjoint ==
    /\ \A m \in mr_list : mr[m].handle < HandleSpace
    /\ \A m, k \in mr_list :
          m # k => \A x \in Offsets(mr[m].handle, mr[m].size) \cup {mr[m].handle} :
                      x \notin Offsets(mr[k].handle, mr[k].size) \cup {mr[k].handle}

\* When the file is closed nothing is left of it: no region, no lock and, however
\* the process ended, no page of the NVIDIA driver (gdrdrv_cleanup's BUG_ON).
ReleaseLeavesNothing ==
    file = "closed" => /\ refcount = 0
                     /\ \A m \in MRs : mr[m].state = "free" /\ writer[m] = None /\ readers[m] = {}

\* A caller that is told that the callback has come can rely on it: when the answer
\* is taken, the callback has freed the page table and destroyed the mapping.
FlagMeansGone ==
    [][\A t \in Threads :
          /\ ~At(t, "read_copy") /\ th'[t].pc = "read_copy"
          /\ th'[t].op = "get_cb_flag" /\ th'[t].val = 1
          => /\ nv[th[t].mr] = "none"
             /\ \A v \in VMAs : vma[v].mr = th[t].mr /\ vma[v].state = "linked" => vma[v].pte = {}]_vars

\* A mapping has the type that was asked for before it was made, and one that the
\* platform supports; asking for another type while it lasts changes nothing.
MappedAsRequested ==
    \A m \in mr_list :
        gdr_mr_is_mapped(m) /\ writer[m] = None =>
            /\ Supported(m, mr[m].cpu_mapping_type)
            /\ mr[m].req_mapping_type \in {"NONE", mr[m].cpu_mapping_type}

\* The lookup gives the region that has the handle, or none.
LookupFindsHandle ==
    \A t \in Threads :
        th[t].pc \in {"unpin_sem", "read_sem", "req_sem", "mmap_sem", "close_sem"} =>
            mr[th[t].mr].handle = th[t].h

\* The callback, once started, gets its semaphore and returns, also when unpin or
\* release waits for it inside nvidia_p2p_put_pages.
RevocationCompletes == \A m \in MRs : nv[m] = "revoking" ~> nv[m] = "none"

\* Every call returns: no handler waits forever for a lock, for the callback or
\* for a page fault on the user's buffer.
CallsReturn == \A t \in Threads : ~At(t, "idle") ~> At(t, "idle")

=============================================================================
