# A TLA+ model of GDRCopy

GDRCopy lets a CPU read and write GPU memory through a PCIe BAR. A user library
(`libgdrapi`) talks to a kernel driver (`gdrdrv`), which asks the NVIDIA driver
to pin GPU pages and maps them into the process. The GPU memory may be freed at
any time; the NVIDIA driver then calls `gdrdrv` back, and `gdrdrv` has to take
the pages away from the process before the callback returns. This project
models the driver, the library and its copy functions, and what makes them
correct.

## 1. Inventory

| component | source | state | operations | what must be right |
|---|---|---|---|---|
| driver: regions, calls, callback | `src/src/gdrdrv/gdrdrv.c` | `gdr_info` (region list, `lock`, handle counter), `gdr_mr` (page table, flags, VMA, `sem`), a module-wide page refcount | open, pin (v1, v2), unpin, get_info (v1, v2), get_cb_flag, req_mapping_type, mmap, vma close, release, free callback | no freed region is used, no page of the GPU is reachable after it was freed, no mapping of another buffer is touched, the refcount is exact, nothing leaks, nobody waits forever |
| driver: physical ranges | `gdrdrv.c` 1479-1580, 1672-1720 | none | the loop that maps contiguous ranges with one protection | every page of the VMA is mapped once, to the page of the table |
| driver: init, cleanup, procfs | `gdrdrv.c` 1749-1962 | platform flags, refcount | init, cleanup, reads | the refcount is 0 at cleanup (`BUG_ON`) |
| library: handles and maps | `src/src/gdrapi.c` | list of `gdr_memh_t` (32-bit handle, mapping type), a counter per mapping type | open, close, pin, unpin, map, unmap, get_info, attributes | the library's belief about a mapping and its counters match the driver's state |
| library: copies | `gdrapi.c` 602-953, `memcpy_*.c` | CPU flags, counters | copy_to, copy_from | every byte is copied once, device mappings see aligned accesses only, the fence that mixed mappings need is issued |
| BAR interceptor | `src/tests/pcibarlat/mlc_bar_intercept.c` | init flags, BAR bump allocator | malloc family, mmap family | allocations stay inside the BAR, initialisation runs once |
| physmem test driver | `src/tests/pcibarlat/driver/pcibarlat_physmem.c` | none | mmap | range check |
| tests, benchmarks, packages | `src/tests`, `src/packages` | - | - | read for what they say of the program |

How the parts interact: the library calls the driver with `ioctl`, `mmap` and
`munmap`; the kernel calls `gdrdrv_mmap` and `gdrdrv_vma_close` with the
process's `mmap_lock` held; the driver calls `nvidia_p2p_get_pages` and
`nvidia_p2p_put_pages`; the NVIDIA driver calls
`gdrdrv_get_pages_free_callback` from a context of its own. The shared state is
the region list (`info->lock`) and each region (`mr->sem`).

What is hard here: the callback takes only `mr->sem`, so it races with every
handler; `put_pages` waits for a callback in flight, so `gdr_free_mr_unlocked`
drops the semaphore first; mmap runs inside the kernel's `mmap_lock` while the
other handlers touch user memory that may need it; pin has error paths on both
sides of the point where it acquires the semaphore, the pages and the list
entry; handles are page offsets of the file and run out. `PROJECT.json` lists
these hazards at their lines.

## 2. Plan

1. `GdrDrv`: the driver at the grain of its locks, with the callers, the kernel's
   memory manager and the NVIDIA driver as its environment. Safety, liveness,
   handle space; type correctness and memory safety proved. **Done.**
2. `BufferLife`: the life of a pinned buffer (pinned, mapped, revoked, gone) as
   one open file sees it; `GdrDrv` implements it under the mapping of
   `DrvRefinement`. **Done**; one mapping per buffer is proved.
3. `GdrApi`: the library over `BufferLife`: list of handles, 32-bit truncation of
   handles (`gdrapi_internal.h:56`), mapping types, the counters behind
   `gdr_has_mix_mapping`, old driver versions, `gdr_close`. **Done**; that it
   keeps to the driver's rules and that handles find their buffers are proved.
4. `MmapRanges`: the contiguity loop of `gdrdrv_mmap` and the remapping under it,
   against page-by-page mapping. **Done.**
5. `Copies`: the choice of a copy function, the loops of each one and their fences,
   against a byte copy. **Done.**
6. VMAs split by a partial `munmap` in `GdrDrv`'s environment; buffers that the host
   takes for RAM next to buffers that it does not; the driver exchanged between two
   opens of the library. **Done.**
7. Proofs of the safety properties, component by component: `GdrDrv` (locks, count,
   offsets, then mappings), `GdrApi`, `MmapRanges`, `Copies`. **Done**: every
   invariant of a passing run is a theorem.
8. A proof that `GdrDrv` implements `BufferLife`, step by step. **Done.**

## 3. Modules

* `GdrDrv.tla`: the driver, its environment and all properties.
* `MCGdrDrv.tla`: the symmetry set and the view for TLC.
* `GdrDrv_proofs.tla`, `GdrDrv_locks_proofs.tla`, `GdrDrv_maps_proofs.tla`: the
  theorems about it: types and memory safety; handles, locks, count and release;
  mappings. Each extends the one before.
* `BufferLife.tla`, `BufferLife_proofs.tla`: what the driver promises to one open
  file, and what follows from the promise.
* `DrvRefinement.tla`, `DrvRefinement_proofs.tla`: the refinement mapping from `GdrDrv`
  to `BufferLife`, and the proof that it is one.
* `GdrApi.tla`, `MCGdrApi.tla`, `GdrApi_proofs.tla`: the library over
  `BufferLife`, its runs and its theorems.
* `MmapRanges.tla`, `MCMmapRanges.tla`, `MmapRanges_proofs.tla`: the loops inside one
  step of `GdrDrv`.
* `Copies.tla`, `MCCopies.tla`, `Copies_proofs.tla`: the copy functions of the library.

`GdrDrv` and `GdrApi` meet in `BufferLife`: the one implements it, the other
uses it. So the library is checked against a driver with atomic calls, and the
refinement, which is proved, justifies that. `MmapRanges` and `Copies` are the inside of steps that
run alone: under `mr->sem` the one, in the calling thread the other. What
`MmapRanges` shows (all pages of the VMA, or a first part of them and an error) is
what `GdrDrv` assumes in `MmapMaps` and `MmapFails`; what `GdrApi` shows
(`MixIsDetected`: a copy that must know of mixed types does) is an input of a copy in
`Copies`, which shows that such a copy ends with a full fence.

### GdrDrv

One file is open at a time, by one process with the threads `Threads`. A thread
runs one call; `th[t].pc` says which step comes next. Steps are cut where the
code takes or drops `info->lock`, `mr->sem` or `mmap_lock`, and where it calls
the NVIDIA driver; what runs under a lock that nobody can look through is one
step.

| variable | code |
|---|---|
| `file` | the open file: `closed`, `open`, or `release` while `gdrdrv_release` runs |
| `mr_list`, `next_handle`, `next_handle_overflow`, `info_lock` | `struct gdr_info` |
| `mr` | `struct gdr_mr`: handle, size in host pages, whether `page_table` is set, `cb_flag`, both mapping types, `vma`; `state` says whether the object is allocated |
| `writer`, `readers` | `mr->sem` |
| `refcount` | `gdrdrv_nv_get_pages_refcount` |
| `nv` | the NVIDIA driver's registration of a region: `none`, `held`, or `revoking` while the callback is under way |
| `mmap_lock`, `vma` | the kernel: VMAs of the file (`new` inside mmap, `linked`, `closing` inside munmap) and the page table entries of each, as file offsets |
| `th` | the call each thread is in, with its locals |
| `handles`, `closing` | the handles the callers hold, and that `gdr_close` is running |

The list is a set: `list_add` inserts at the head and handles only grow, so its
order is the order of the handles. The lookup returns what the C loop leaves in
`mr`: the match, or else the last region of the list.

| code | actions |
|---|---|
| `gdrdrv_open` | `Open` |
| `__gdrdrv_pin_buffer`, `gdrdrv_pin_buffer(_v2)` | `PinStart`, `PinRefused`, `PinGetPages(Fails)`, `PinBadPageTable`, `PinLock`, `PinPublish`, `PinNoHandle`, `PinCopyToUser`, `PinCopyFails` |
| `__gdrdrv_unpin_buffer`, `gdr_free_mr_unlocked` | `UnpinStart`, `UnpinLookup`, `UnpinMiss`, `UnpinRemove`; `FreeDropSem`, `PutPages`, `Kfree` |
| `gdrdrv_get_cb_flag`, `gdrdrv_get_info(_v2)` | `ReadStart`, `ReadLookup`, `ReadMiss`, `ReadSem`, `ReadBody`, `ReadCopyToUser` |
| `gdrdrv_req_mapping_type` | `ReqStart`, `ReqLookup`, `ReqMiss`, `ReqSem`, `ReqBody` |
| `gdrdrv_mmap` and the kernel around it | `MmapStart`, `MmapLookup`, `MmapMiss`, `MmapSem`, `MmapRefused`, `MmapFails`, `MmapMaps`, `MmapLink`, `MmapUndo` |
| `munmap` and `gdrdrv_vma_close` | `MunmapStart`, `MunmapHead`, `MunmapTail`, `CloseLookup`, `CloseMiss`, `CloseSem`, `gdrdrv_vma_close`, `MunmapEnd` |
| `gdrdrv_release` | `RelStart`, `RelPick`, `RelRemove`, `RelDone` |
| `gdrdrv_get_pages_free_callback` | `CbStart` (NVIDIA driver), `CbLock`, `CbBody` |
| `gdr_close` of the library | `GdrClose`, then unpins |

Environment, modelled from how the code uses it: the kernel links a VMA into
the file's address space only after the mmap handler has returned, and
`unmap_mapping_range` sees linked VMAs only; munmap unlinks before it calls
`vm_ops->close`; a munmap of a part splits the VMA first and asks nobody, because the
driver has neither `vm_ops->open` nor `may_split`, and which half keeps the object
depends on the kernel; `nvidia_p2p_put_pages` waits for a callback in flight and fails
once it has run (the comments at `gdrdrv.c:579-594`); a reader does not overtake
a waiting callback.

`Liberties` names what callers do beyond what libgdrapi and its documentation
allow. With none, callers use handles that pin returned, do not overlap calls on
one handle ("GDRCopy is not thread-safe", `gdrapi.c:499`), unmap before they
unpin (`gdrapi.h:102-103`) except through `gdr_close`, and do not free memory
while they map it, and unmap whole mappings. Each liberty lifts one of these rules;
`AnyQuery` lifts the first for calls that only ask or request something. `Calls` are
the calls that threads make; `gdr_close` is the library's sequence of unpins.
With `Split` the driver forgets the half that stays mapped (the TODO at
`gdrdrv.c:1456`), so a callback leaves its entries and a later close works on the
region the lookup falls back to: `NoStaleMapping`, `NoDanglingVma` and
`LookupFindsHandle` are stated for callers without liberties, memory safety, the
refcount and release for all. Where a liberty leaves a region with a pointer to a
freed VMA, the model reads an empty range there; `NoDanglingVma` is the property that
this does not happen.

`RamPages` says what `gdr_pfn_is_ram` (or the flag for cacheable CPU mappings) may
answer for a buffer; each region keeps its answer, and cached mappings depend on it.

Abstractions: sizes count host pages; a page table is present or not; pages are
entries by file offset; errors are not told apart. A `copy_from_user` that
fails, a `kmalloc` that fails, an unknown mapping type and a call from another
process return without an effect and have no action. `MmapFails` stands for
every failure after the first checks: an unaligned buffer (nothing mapped) and a
failing remap (a prefix mapped). VMAs are not copied at fork.

### BufferLife and DrvRefinement

`BufferLife` has three variables: `buf` (per buffer: pinned, handle, size,
revoked, mapping type, requested type), `map` (per VMA: in use, its buffer while
that is pinned, whether it reaches pages) and `next` (the handle counter). Every
system call is one step, except that munmap is two, as the code makes it: the
pages go first (`Unmap`), and the region may be mapped again after
`gdrdrv_vma_close` (`Close`). There are no locks, lists or threads.

The mapping of `DrvRefinement`: a buffer is pinned from `list_add` to `list_del`;
it is revoked once `page_table` is cleared; a VMA is in use from the success of
`gdrdrv_mmap` to the end of `gdrdrv_vma_close`, and belongs to the region it was
made for while that still has its handle; it is live while it has page table
entries. The refinement holds for callers without liberties, and for those that
query with stale handles: the fallback of the lookup then answers for, or makes a
request of, another buffer, which is a call its owner could have made. The four
violation runs of `GdrDrv` are what happens with other liberties.

### GdrApi

| variable | code |
|---|---|
| `fd`, `gdrdrv_version` | the file: `open`, `closing` inside `gdr_close`, `closed`; the driver's minor version |
| `memh` | the `gdr_memh_t` on `g->memhs`: the 32-bit handle and the mapping type; and what the caller knows: its buffer, the address and the flags of `gdr_map_v2` |
| `counters` | `gdr_mapping_type_counters` |
| `call` | the library call in progress, between two driver calls |

| code | actions |
|---|---|
| `gdr_open`, `gdr_pin_buffer(_v2)`, `gdr_unpin_buffer` | of the same names |
| `gdr_map_v2` | `MapStart` (request), `MapMmap` or `MapFails`, `MapDone` or `MapRejects` (get_info and the checks), `MapUndo`, `MapUndoClose` (munmap) |
| `gdr_unmap` | `UnmapStart`, `UnmapDone` |
| `gdr_close` | `CloseStart`, `CloseUnpin` per handle, `CloseDone` |

Only one library call runs at a time ("GDRCopy is not thread-safe",
`gdrapi.c:499`); the memory may be freed between any two driver calls. Calls
that a check or the driver refuses change nothing and have no action. `Found` is the
driver's lookup, its fallback to the last region included, which the library meets
only once a handle does not fit in its 32 bits.
`DriverMinors` are the versions of the driver that `gdr_open` may find, another one
at every open: before 2.5 no type can be asked for, and before 2.4 get_info reports
two bits. What an old driver does otherwise is
taken from the present one and is external. Other abstractions: one `gdr_t`; it
is opened again once the VMAs of the previous file are gone; the two pin
versions differ in flags the library's state does not depend on; `MaxMappings`
bounds the counters, which drift upwards when callers unpin mapped buffers.

### MmapRanges

`req` is the page table of the NVIDIA driver, the length of the VMA, the mapping
type and whether x86 tracks memory types (PAT); `p`, `range`, `vaddr` and `size` are
the loop variables, `pte` the entries of the VMA. Sizes count host pages, `GpuPage`
of them make a GPU page. `RangeStart`, `Scan` and `ScanEnds` collect a contiguous
range, `Remap` maps it in one call, `RemapPage` one page of it where PAT would refuse
a part of a VMA (`gdrdrv.c:1507`), `RemapFails` is a kernel out of memory or a range
that is not aligned. What PAT refuses is taken from the comment at
`gdrdrv.c:1499-1506`. `Reference(k)` is page-by-page mapping.

### Copies

`job` is the call (direction, both addresses, the size), the platform and the type of
the mapping, and whether mappings of several types exist; `d`, `s` and `n` are the
pointers and the count of the C code; `mem` says for every destination address which
source byte was stored there. Each of the five SIMD functions is a record: the width
of its vectors, the pointer it aligns, and for both loops the unrolling and the kinds
of load and store; their common shape (`SimdHead`, `SimdUnrolled`, `SimdSingle`,
`SimdTail`) is one action per loop. `WordCopy` is `unroll4_memcpy` and
`unroll8_memcpy`, `DeviceCopy` the two copies for device mappings, `DirectStore` the
single store. Any combination of CPU features is a platform; device and cached
mappings exist where `gdrdrv_init` allows them. External: which instructions fault on
unaligned addresses, that device memory faults on every unaligned access, and that
`memcpy` of the C library keeps to words when pointers and size do (the comment at
`gdrapi.c:728-732`). `weak` records that a store may be delayed: to a
write-combining mapping, or non-temporal.

## 4. Runs

All passing runs check for deadlock.

| run | instance | checks |
|---|---|---|
| `drv_safety` | 2 threads, 2 regions, 2 VMAs, sizes 0-2, 5 offsets, no liberties | `NoStaleMapping`, `NoDanglingVma`, `FreedUnderWriteLock`, `HandleRangesDisjoint`, `ZapIsolation` |
| `drv_anycaller` | 2 threads, 2 regions, 2 VMAs, size 2, every liberty, `ControlView` | `TypeOK`, `NoUseAfterFree`, `RefcountExact`, `ReleaseLeavesNothing` |
| `drv_live` | 2 threads, 2 regions, 1 VMA, `AnyQuery`, `FairSpec` | `RevocationCompletes`, `CallsReturn` |
| `drv_refine` | 2 threads, 2 regions, 2 VMAs, a platform with cached mappings, info, flag and type calls, `AnyQuery` | `MappedAsRequested`, `FlagMeansGone`, `ImplementsBufferLife` |
| `mmap_ranges` | up to 3 entries out of 4 addresses (3 neighbours, 1 distant), 2 host pages per GPU page, every length and type, PAT or not | `RangesTypeOK`, `EntriesMatch`, `MapsWholeVma`, `MmapReturns` |
| `api_map` | 2 handles, 2 buffers (RAM or not), 2 VMAs, cached mappings, drivers 2.3 and 2.5 | `ApiTypeOK`, `OneLiveMapping`, `HandleFindsOwnBuffer`, `BeliefMatchesDriver`, `NoLeftoverMapping`, `RequestHonoured`, `MixIsDetected` |
| `copies` | vectors of 4 and 2 bytes, words of 8 and 4, 6 addresses on each side, sizes 0-20 and 30-42 | `CopyTypeOK`, `CopyExact`, `NoAlignmentFault`, `FencedAtReturn`, `CopyReturns` |

Two threads and a callback per region give every pair of actors that meet at a
region or a list; two regions are what it takes for one to disturb another, and
two sizes for offset ranges of different length to sit side by side. The handle
space is small enough for pins to run out in every run, so the late failure of
pin is always among the behaviours, and after a release the file is opened
again. Sizes 0, 1 and 2 with five offsets reach the end of the handle space exactly,
with room left, and past it; size 0 is a buffer smaller than a host page. Persistent
mode only takes the callback away, so its behaviours are among those of
`drv_safety`. Size 2 and a second VMA object are what a split takes.

`ControlView` makes `drv_anycaller` affordable: states count as one if they differ
only in page table entries, in the pointers between regions and VMAs, in the handle
and type of a region that is off the list, in locals that a call does not need any
more, or in the handles that callers hold. With every liberty and without
`gdr_close`, no guard and no variable that remains depends on these, and of the run's
properties only `TypeOK` mentions them, for which there is a proof. Callers that
respect no rule may make the calls of `gdr_close` themselves.

Orderly callers hand no region to two calls at a time, so two handlers would never
want the same `mr->sem`. `AnyQuery` is what makes them meet in `drv_live`: a query with
a handle that is gone falls back to the last region while another thread maps or
unmaps it. A `copy_to_user` under `mr->sem`, against an mmap or munmap that holds
`mmap_lock`, is then a deadlock that the run finds, and without `AnyQuery` it is not.

In `drv_refine` the handle space is 2: both buffers, or one buffer twice, between two
opens, and then the failure of pin. `drv_safety` has room for more.

For the library, two handles are what it takes to
mix types or to confuse buffers, and `MaxMappings` is above their number, so
that counters get out of step with the mappings that exist. A page table of three
entries has a range before and after a gap, and every VMA length ends at, before or
inside a GPU page. In `copies` a vector is shorter than in the code, 4 and 2 bytes
instead of 32 and 16, so that all alignments of both pointers and a whole turn of
the longest loop (8 vectors), single vectors and a tail fit in 42 bytes; the words of
4 and 8 bytes keep their size.

Five runs show a disagreement between the code and what it says of itself:

* `drv_lookup`: a handle that is not on the list finds the last region instead
  of NULL (`gdrdrv.c:677` against the comment at 683). It takes an unpin of a
  mapped buffer and the later close of its VMA.
* `drv_remap`: the refusal of a second mmap clears the state of the first
  mapping (`gdrdrv.c:1723-1728`), and the callback then leaves it in place. The
  library refuses a second `gdr_map` on one handle itself (`gdrapi.c:421`).
* `drv_free_during_map`: a callback after `gdrdrv_mmap` dropped `mr->sem` and
  before the kernel linked the VMA removes nothing. The library detects this
  case afterwards (`gdrapi.c:481-488`), not before.
* `drv_bad_flags`: a refused pin frees the region and releases a semaphore that
  nobody holds (`gdrdrv.c:836, 844, 855` against the comment at 560).
* `api_wrap`: the library keeps 32 bits of the driver's 64-bit handle
  (`gdrapi_internal.h:56` against the comment at `gdrdrv.c:769`). The word is 2
  here; in the code it takes 2^32 host pages pinned through one file.

Fairness: `FairSpec` lets every call in progress and every callback that can
take a step infinitely often take it. Threads in the kernel are scheduled, and
mutexes and rw-semaphores hand over to their waiters, so a waiter is not
overtaken forever; that is strong fairness of `CallStep` and `CallbackStep`.
Nothing is assumed about callers making calls or the GPU memory being freed.
`Copies` and `MmapRanges` assume weak fairness of `Step` only: one thread keeps
running its loop, and nothing it does can block. The kernel's failures are not fair.

Each property has a mutant of the code that breaks it; the mutated operators
stand in the component's module before the definition they change.

## 5. Proofs

All theorems hold for every value of the constants that the named assumptions allow;
TLC evaluates the assumptions in the runs. Most properties are not inductive; below,
each component's invariant and why it is needed.

### GdrDrv

| theorem | property | callers |
|---|---|---|
| `TypeCorrect` | `TypeOK` | any |
| `MemorySafety` | `NoUseAfterFree` | any |
| `HandlesDisjoint` | `HandleRangesDisjoint` | any |
| `CountExact` | `RefcountExact` | any |
| `NothingLeft` | `ReleaseLeavesNothing` | any |
| `TypesHonoured` | `MappedAsRequested` | any |
| `FreedLocked` | `FreedUnderWriteLock` | no refused flags |
| `NothingStale`, `NothingDangling` | `NoStaleMapping`, `NoDanglingVma` | orderly |
| `ZapsApart`, `FlagReliable` | `ZapIsolation`, `FlagMeansGone` | orderly |
| `DriverImplementsLife` | `ImplementsBufferLife` | orderly |

"Any" is every set of `Liberties`. "No refused flags" is `"BadFlags" \notin
Liberties`; the run `drv_bad_flags` shows that it is needed. "Orderly" is
`OrderlyCallers`: none of `AnyHandle`, `Remap`, `UnpinMapped`, `FreeDuringMap` and
`Split`; queries with any handle and refused flags remain. `drv_remap` and
`drv_free_during_map` show two of these conditions to be needed, and section 3 says
what the others do.

Assumptions: `NullAssumption` (`None` is no object, the callback no thread) and
`SizeAssumption` (no buffer spans the handle space, which has more than one offset;
with one offset the overflow by the first buffer would go unnoticed, because the masked
next handle, 0, is not below the current one. The code has 2^52 with pages of 4 KiB).

`TypeOK` needs that a thread at a step that uses a region points to one.
`NoUseAfterFree` needs to know why a region stays allocated, and the answer differs
by phase: `SafeInv` has five parts.

* `FileInv`: release runs alone, and nothing is listed while the file is closed.
* `InfoInv`: a thread that found a region and waits for its semaphore, publishes
  one or runs release holds `info->lock`; so nobody removes what it found.
* `OwnedInv`: a region being created or freed is off the list and belongs to one
  thread.
* `ListedInv`: a listed region is allocated; a handler that waits for a region or
  holds its semaphore has found it on the list, and it is there still.
* `PagesInv`: a region the NVIDIA driver still has a registration for is
  allocated and, if off the list, owned by a thread that has yet to call
  `put_pages`, which waits for the callback.

`SafeStep` has one step per action and under it one per part. Lemmas about the
record updates (`RegionUpdates`, `VMAUpdates`, `ThreadUpdates`) and the lookup
(`LookupType`, `LastOnList`) and the halves of a split VMA (`PartType`) are stated
once. `LastOnList` is where the order of the list matters: a non-empty list has a
last element, because handles are natural numbers.

`GdrDrv_locks_proofs` adds

* `OffsetsInv`: what the regions on the list take lies below `next_handle`, in
  disjoint ranges, and `next_handle` is an offset until the overflow is noticed;
* `LocksInv`: who holds a semaphore and where in its code (`WriterInv`, `ReaderInv`),
  that an allocated region is on the list or in some thread's hands (`KeptInv`), that a
  pin has no pages before it gets them (`FreshInv`), and that whoever creates or frees
  a region holds its semaphore if its flags were not refused (`OwnerInv`);
* `CountInv`: the registered regions are a finite set and the count is its size. Each
  step adds or removes at most one region (`FiniteSetTheorems`).

`TypesInv`, the first part of `GdrDrv_maps_proofs`, relates the type a region has, the
type that was asked for, the page table and the platform.

### GdrDrv: mappings of orderly callers

That a callback takes every page away depends on what callers do: the lookup returns
another region for a handle that is gone, and the driver knows one VMA per region. So
the proof first establishes what orderly callers see, `CallersInv`: which call a thread
is in (`OpInv`), that the handles callers have, and only those, are handles of regions
on the list (`HandlesInv`, `KnownInv`), that unpin, mmap and munmap work on the region
that has their handle and not on the fallback (`ExactInv`), that mmap and munmap have a
handle that stays (`UserInv`), and that every VMA sits at a handle of its own
(`VmaInv`). `gdr_close` is the exception that runs through all of it: it unpins mapped
buffers.

Over it, `MapsInv` relates the three places that describe a mapping: a mapped region
points to a VMA at its handle that points back (`LinkInv`), it is not mapped before mmap
and after munmap has done its work (`ClearInv`), a VMA with entries is the one its
mapped region points to (`ReachInv`), and the pages are not revoked while mmap runs
(`RegisteredInv`). `NothingStale` and `NothingDangling` follow. For `ZapsApart` the
ranges of two VMAs must not meet, which `OffsetsInv` gives. `FlagReliable` needs
`FlagInv`: a set flag is visible to readers only after the callback has freed the page
table and destroyed the mapping, because it holds the semaphore in between, and whoever creates or
frees a region that has pages holds it too.

Most actions touch little of this. `CallersFrame`, `MapsFrame` and their like state
what a step must leave alone to keep an invariant; the actions that matter have lemmas
of their own.

### GdrDrv implements BufferLife

`DriverImplementsLife`: `Spec => ImplementsBufferLife`, for orderly callers and any
number of threads, regions and VMAs. The invariant `RefInv` is `OrderlyInv` and `FlagInv`
with four parts that only the refinement needs:

* `BornInv`: a region that a pin is creating was asked nothing and keeps its pages until
  it is listed, because the pin holds its semaphore and the callback waits; so it joins
  the list as the fresh buffer that `Pin` makes;
* `BackInv`: a VMA points to the region that has its handle, so that `gdrdrv_vma_close`,
  which finds the region by its handle, closes the mapping of that buffer;
* `ShutInv`: the entries are gone before `gdrdrv_vma_close` is called, and a VMA that is
  being made is not empty;
* `CallbackInv`: no callback comes under persistent mappings.

`QuietRef` disposes of the steps that change neither list, listed regions nor VMAs, and
`BirthRef` and `HiddenRef` of those that change only what is not seen (a region before
it is listed, a VMA before it maps and after it is closed). Each of the others is one
action of `BufferLife`, in a lemma of its own: `PinPublish` is `Pin`, `UnpinRemove` and
`RelRemove` are `Unpin`, `ReqBody` is `Request` or nothing, `MmapMaps` is `Map`,
`MunmapStart` is `Unmap`, `gdrdrv_vma_close` and `CloseMiss` are `Close`, `CbBody` is
`Revoke` or nothing, `Open` is `Fresh`. `DestroyExact` is what makes `Unpin` and `Revoke`
exact: zapping by offset takes all entries of the buffer's own VMA and none of another.

### BufferLife and GdrApi

`OneMapping`: `LifeSpec => []OneLiveMapping`. It needs `Occupied`: a VMA that has a
buffer keeps it from being mapped again (the buffer is pinned, and either revoked or of
a type), also between `Unmap` and `Close`, when nothing is live.

* `LibraryImplementsLife`: `Spec => LifeSpec /\ []OneLiveMapping`. Every step of
  the library is a step of `BufferLife` or leaves it alone; for the steps that
  munmap this needs that the address is known (`AddressesKnown`).
* `HandlesFindBuffers`: `Spec => []HandleFindsOwnBuffer`. The invariant has
  `HandlesFresh` (handles are below the counter and different) and `MemhsOwn`
  (each `gdr_memh_t` stands for a pinned buffer of its own).
* `ApiTypeCorrect`: `Spec => []ApiTypeOK`. That a counter does not go below zero needs
  that it counts at least the handles that are mapped with its type (`CountersInv`).
* `BeliefsTrue`, `NothingLeftBehind`, `RequestsHonoured`, `MixDetected`: the four
  properties about mappings, from `BeliefInv`. Between two driver calls the library's
  record and the driver differ, and `MapsInv` says by how much at each point of
  `gdr_map` and `gdr_unmap`.

All but the first and the third assume `HandleSpace <= HandleWord`, that is, that the
driver's counter fits in the library's field; `api_wrap` shows that the condition is
needed. Assumptions on constants: `NoneAssumption`, `SpaceAssumption` (sizes are
natural numbers), `RamAssumption`, `WordAssumption`, `BoundAssumption` and
`PlatformAssumption`.

### MmapRanges

`RangesTypeCorrect`, `EntriesCorrect`, `WholeVma`, for every GPU page size, page table and
length of a VMA (`PageAssumption`). `LoopsInv` says after how many pages each loop is: the entries
before `vaddr` are those of page-by-page mapping and no others are set (`LoopInv`), the
range being collected has neighbours only (`RangeInv`), and where a page-by-page remap
stands in it (`RemapInv`).

### Copies

`CopyTypeCorrect`, `CopiesExact`, `AccessesAligned`, `CopiesFenced`, for every width of vectors, every
address and size (`WidthAssumption`, `RangeAssumption`), so also for the widths of 32 and
16 bytes that are too large for the run. `CopyInv`: the pointers and the count move together
(`PosInv`), the memory holds the source bytes up to the pointer and no more (`MemInv`), a
vector that is left starts where its instructions can start and the word copies have
whole words left (`LoopInv`), what the choice of a function says of the platform
(`ChoiceInv`), and which stores may be delayed (`WeakInv`). The lemmas on remainders
(`SameRemainder`, `NextMultiple`) are what the alignment of the loops rests on.

### Only model-checked

* Liveness: `RevocationCompletes`, `CallsReturn`, `MmapReturns`, `CopyReturns`. The
  prover has no rules for fairness.
* The five violations, which are traces.

## 6. Not modelled

* The BAR interceptor (`mlc_bar_intercept.c`), a benchmark tool that is preloaded
  into another program. Its initialisation is triggered by the first allocation of
  the loader, before there are threads; after that it is a bump allocator and
  forwards to libc.
* The physmem test driver (no state), `nv-p2p-dummy.c` (stubs), tests, benchmarks and
  packages.
* Registration of the device, procfs formatting and the debug output.
* `mr->force_pci` and the `BUG_ON` on a cached mapping of such a region
  (`gdrdrv.c:1735`). Whether the pages of a pin that forces PCIe are memory the CPU
  could cache is the answer of the NVIDIA driver and the host (`RamPages` in the model),
  so the model could only assume what the `BUG_ON` states.
* Process identity: `info->tgid` and the checks against it. One process owns the
  file, and a call from another is refused without an effect.
* Inside the kernel: memory types tracked by PAT beyond the refusal that the code
  works around, forks (`VM_DONTCOPY`), page protection bits other than the mapping
  type.
* `gdr_get_attribute`, `gdr_runtime_get_version` and `gdr_driver_get_version`: they
  read values that do not change.
