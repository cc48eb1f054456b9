----------------------------- MODULE MmapRanges -----------------------------
(***************************************************************************)
(* How gdrdrv_mmap fills a VMA: it walks the page table of the NVIDIA      *)
(* driver, collects physically contiguous ranges of GPU pages and remaps   *)
(* each one, host page by host page where x86 tracks memory types (PAT).   *)
(*                                                                         *)
(* Module GdrDrv takes this as one step that maps all pages of the VMA or  *)
(* fails with some first pages mapped; here are the loops.  Addresses and  *)
(* sizes count host pages.  mr->sem is held throughout, so nothing         *)
(* interferes.                                                             *)
(***************************************************************************)
EXTENDS Integers, Sequences

CONSTANTS
    GpuPage,      \* GPU_PAGE_SIZE / PAGE_SIZE
    Frames,       \* physical addresses that the GPU pages may have
    MaxEntries    \* bound: entries of a page table

ASSUME PageAssumption ==
    GpuPage \in Nat \ {0} /\ Frames \subseteq Nat /\ MaxEntries \in Nat

VARIABLES
    req,        \* the page table, the VMA and the platform
    pc,         \* the part of the loop that runs next
    p,          \* entries of the page table visited so far
    range,      \* the current range: first page, last entry seen, entries, length,
                \* and the pages that the page-by-page loop has remapped
    vaddr,      \* where in the VMA the range goes
    size,       \* pages of the VMA that are left
    pte,        \* the entries of the VMA
    ret,        \* what gdrdrv_mmap returns
    refused     \* the kernel had no memory, or the pages are not aligned

vars == <<req, pc, p, range, vaddr, size, pte, ret, refused>>

Types   == {"WC", "CACHING", "DEVICE"}
NoEntry == [pfn |-> -1, prot |-> "NONE"]
NoReq   == [pages |-> <<>>, len |-> 0, type |-> "CACHING", pat |-> FALSE]
NoRange == [paddr |-> 0, prev |-> 0, nentries |-> 0, len |-> 0, done |-> 0]

PageTables == UNION {[1 .. e -> Frames] : e \in 1 .. MaxEntries}
Entries    == Len(req.pages)

\* Every variable has its type: the VMA is never overrun, and no count is negative.
RangesTypeOK ==
    /\ req \in [pages: PageTables \cup {<<>>}, len: Nat, type: Types, pat: BOOLEAN]
    /\ pc \in {"idle", "range", "scan", "remap", "done"}
    /\ p \in Nat /\ vaddr \in Nat /\ size \in Nat
    /\ range \in [paddr: Nat, prev: Nat, nentries: Nat, len: Nat, done: Nat]
    /\ pte \in [0 .. (req.len - 1) -> [pfn: Nat, prot: Types] \cup {NoEntry}]
    /\ ret \in {"ok", "error"} /\ refused \in BOOLEAN

Init ==
    /\ req = NoReq /\ pc = "idle" /\ p = 0 /\ range = NoRange /\ vaddr = 0 /\ size = 0
    /\ pte = [k \in 0 .. -1 |-> NoEntry] /\ ret = "ok" /\ refused = FALSE

-----------------------------------------------------------------------------

\* The VMA has len pages, no more than the page table covers (checked before).
Mmap(pages, len, type, pat) ==
    /\ pc = "idle"
    /\ len \in 1 .. (GpuPage * Len(pages))
    /\ req' = [pages |-> pages, len |-> len, type |-> type, pat |-> pat]
    /\ pte' = [k \in 0 .. (len - 1) |-> NoEntry]
    /\ pc' = "range" /\ p' = 0 /\ vaddr' = 0 /\ size' = len /\ ret' = "ok"
    /\ UNCHANGED <<range, refused>>

\* A range starts at the entry that comes next.
RangeStart ==
    LET paddr == req.pages[p + 1] IN
    /\ pc = "range"
    /\ range' = [NoRange EXCEPT !.paddr = paddr, !.prev = paddr, !.nentries = 1]
    /\ p' = p + 1
    /\ pc' = "scan"
    /\ UNCHANGED <<req, vaddr, size, pte, ret, refused>>

\* Mutant: an entry at a higher address is taken for the next one.
ContiguousMutant == p < Entries /\ range.prev < req.pages[p + 1]

\* The next entry of the page table continues the range.
Contiguous == p < Entries /\ range.prev + GpuPage = req.pages[p + 1]

Scan ==
    /\ pc = "scan" /\ Contiguous
    /\ range' = [range EXCEPT !.prev = req.pages[p + 1], !.nentries = @ + 1]
    /\ p' = p + 1
    /\ UNCHANGED <<req, pc, vaddr, size, pte, ret, refused>>

\* Mutant: the VMA may end inside the range, which is mapped to its end.
LengthMutant(nentries) == GpuPage * nentries

Length(nentries) == IF size < GpuPage * nentries THEN size ELSE GpuPage * nentries

ScanEnds ==
    /\ pc = "scan" /\ ~Contiguous
    /\ range' = [range EXCEPT !.len = Length(range.nentries)]
    /\ pc' = "remap"
    /\ UNCHANGED <<req, p, vaddr, size, pte, ret, refused>>

-----------------------------------------------------------------------------
(* gdrdrv_remap_gpu_mem and gdrdrv_io_remap_pfn_range                      *)

\* io_remap_pfn_range: n pages of the VMA from first on get the frames from pfn on,
\* with the protection of the mapping type.
Install(first, pfn, n) ==
    pte' = [k \in DOMAIN pte |->
               IF k \in first .. (first + n - 1)
               THEN [pfn |-> pfn + (k - first), prot |-> req.type] ELSE pte[k]]

\* With PAT, remapping a part of a VMA that is longer than a page may fail.
PatRefuses(first, n) == req.pat /\ n > 1 /\ ~(first = 0 /\ n = req.len)

\* Mutant: a range at the start of the VMA is taken for the whole of it.
ByPageMutant == req.pat /\ vaddr # 0

ByPage == req.pat /\ ~(vaddr = 0 /\ range.len = req.len)

More(left) == left # 0 /\ p < Entries

\* The range is mapped: on to the next one, or the end of the VMA must be reached.
NextRange ==
    LET left == size - range.len IN
    /\ vaddr' = vaddr + range.len
    /\ size' = left
    /\ pc' = IF More(left) THEN "range" ELSE "done"
    /\ ret' = IF More(left) \/ vaddr + range.len = req.len THEN "ok" ELSE "error"

Remap ==
    /\ pc = "remap" /\ ~ByPage
    /\ IF PatRefuses(vaddr, range.len)
       THEN pc' = "done" /\ ret' = "error" /\ UNCHANGED <<vaddr, size, pte>>
       ELSE Install(vaddr, range.paddr, range.len) /\ NextRange
    /\ UNCHANGED <<req, p, range, refused>>

\* Mutant: the loop does not move on to the next page.
RemapPageMutant ==
    /\ pc = "remap" /\ ByPage
    /\ Install(vaddr + range.done, range.paddr + range.done, 1)
    /\ IF range.done + 1 = range.len THEN NextRange ELSE UNCHANGED <<pc, vaddr, size, ret>>
    /\ UNCHANGED <<req, p, range, refused>>

\* One iteration of the page-by-page loop; pages done are counted in range.done.
RemapPage ==
    /\ pc = "remap" /\ ByPage
    /\ Install(vaddr + range.done, range.paddr + range.done, 1)
    /\ range' = [range EXCEPT !.done = @ + 1]
    /\ IF range.done + 1 = range.len THEN NextRange ELSE UNCHANGED <<pc, vaddr, size, ret>>
    /\ UNCHANGED <<req, p, refused>>

\* The range is not aligned to host pages, or the kernel runs out of memory for
\* page tables with n pages of the call mapped.
RemapFails(n) ==
    LET done == IF ByPage THEN range.done ELSE 0 IN
    /\ pc = "remap"
    /\ n < (IF ByPage THEN 1 ELSE range.len)
    /\ Install(vaddr + done, range.paddr + done, n)
    /\ pc' = "done" /\ ret' = "error" /\ refused' = TRUE
    /\ UNCHANGED <<req, p, range, vaddr, size>>

Return ==
    /\ pc = "done"
    /\ req' = NoReq /\ pc' = "idle" /\ p' = 0 /\ range' = NoRange /\ vaddr' = 0 /\ size' = 0
    /\ pte' = [k \in 0 .. -1 |-> NoEntry] /\ ret' = "ok" /\ refused' = FALSE

Step == RangeStart \/ Scan \/ ScanEnds \/ Remap \/ RemapPage \/ Return

Next ==
    \/ Step
    \/ \E n \in 0 .. (GpuPage * MaxEntries) : RemapFails(n)
    \/ \E pages \in PageTables, type \in Types, pat \in BOOLEAN :
         \E len \in 1 .. (GpuPage * MaxEntries) : Mmap(pages, len, type, pat)

\* gdrdrv_mmap keeps running; the kernel need not ever fail it.
Spec == Init /\ [][Next]_vars /\ WF_vars(Step)

-----------------------------------------------------------------------------
(* Properties.                                                             *)

\* The entry that page k of the VMA must have.
Reference(k) == [pfn |-> req.pages[(k \div GpuPage) + 1] + (k % GpuPage), prot |-> req.type]

\* However the GPU pages are scattered and wherever the VMA ends, an entry of the
\* VMA points to the page of the buffer at that place, with the type that was
\* chosen, and what is mapped at any time is a first part of the VMA.
EntriesMatch ==
    /\ \A k \in DOMAIN pte : pte[k] \in {NoEntry, Reference(k)}
    /\ \A k \in DOMAIN pte : pte[k] # NoEntry => \A i \in 0 .. k : pte[i] # NoEntry

\* Unless the kernel refuses, the whole VMA gets mapped and mmap succeeds, and it
\* never succeeds with a hole: the last check (vaddr != vm_end) never fires.
MapsWholeVma ==
    pc = "done" => /\ ret = "ok" <=> \A k \in DOMAIN pte : pte[k] # NoEntry
                   /\ ~refused => ret = "ok"

\* The loops end, and gdrdrv_mmap returns and releases mr->sem.
MmapReturns == pc # "idle" ~> pc = "idle"

=============================================================================
