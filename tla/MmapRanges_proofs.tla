------------------------- MODULE MmapRanges_proofs -------------------------
(***************************************************************************)
(* The loops of gdrdrv_mmap are correct for every size of a GPU page,      *)
(* every page table, every VMA and every platform.                         *)
(***************************************************************************)
EXTENDS MmapRanges, SequenceTheorems, TLAPS

Working == pc \in {"range", "scan", "remap"}

\* The first m entries of the VMA are the ones they must be, and no other is set.
Filled(m) ==
    /\ m \in 0 .. req.len
    /\ \A k \in 0 .. (req.len - 1) : pte[k] = IF k < m THEN Reference(k) ELSE NoEntry

\* The VMA of a call is not longer than what the page table covers.
CallInv == pc # "idle" => req.pages \in PageTables /\ req.len \in 1 .. (GpuPage * Entries)

\* The loop over ranges: what is left of the VMA starts at vaddr.
LoopInv ==
    /\ pc = "idle" => req = NoReq /\ ~refused
    /\ Working => vaddr + size = req.len /\ size > 0 /\ ret = "ok" /\ ~refused
    /\ pc = "range" => p < Entries /\ vaddr = GpuPage * p
    /\ pc \in {"range", "scan"} => Filled(vaddr)

\* The range that is collected: the last nentries entries of the table that were
\* visited lie one behind the other from paddr on.
RangeInv ==
    pc \in {"scan", "remap"} =>
        /\ p \in 1 .. Entries
        /\ range.nentries \in 1 .. p
        /\ vaddr = GpuPage * (p - range.nentries)
        /\ \A i \in 1 .. range.nentries :
              req.pages[p - range.nentries + i] = range.paddr + GpuPage * (i - 1)
        /\ range.prev = req.pages[p]
        /\ pc = "scan" => range.done = 0

\* The range that is remapped: cut where the VMA ends, and done pages of it mapped.
RemapInv ==
    pc = "remap" =>
        /\ range.len = Length(range.nentries)
        /\ range.done < range.len
        /\ ~ByPage => range.done = 0
        /\ Filled(vaddr + range.done)

\* At the end a first part of the VMA is mapped, all of it if mmap succeeds.
DoneInv ==
    pc = "done" =>
        /\ \E m \in 0 .. req.len : Filled(m) /\ (ret = "ok" <=> m = req.len)
        /\ ~refused => ret = "ok"

LoopsInv == RangesTypeOK /\ CallInv /\ LoopInv /\ RangeInv /\ RemapInv /\ DoneInv

-----------------------------------------------------------------------------
(* Arithmetic.                                                             *)

\* Multiplication by a positive number keeps the order.
LEMMA TimesOrder ==
  ASSUME NEW g \in Nat \ {0}, NEW a \in Int, NEW b \in Int
  PROVE  /\ g * a \in Int
         /\ g * (a + 1) = g * a + g
         /\ a <= b => g * a <= g * b
  BY SMT

\* The entry and the page of it that page k of a VMA falls on.
LEMMA DivMod ==
  ASSUME NEW g \in Nat \ {0}, NEW k \in Nat
  PROVE  /\ k \div g \in Nat
         /\ k % g \in 0 .. (g - 1)
         /\ k = g * (k \div g) + (k % g)
  BY SMT

\* The entry lies between the ones that bound k.
LEMMA QuotientBounds ==
  ASSUME NEW g \in Nat \ {0}, NEW k \in Nat, NEW a \in Nat, NEW b \in Nat,
         g * a <= k, k < g * b
  PROVE  a <= k \div g /\ k \div g < b
<1> DEFINE q == k \div g
<1>1. /\ q \in Nat /\ k % g \in 0 .. (g - 1) /\ k = g * q + (k % g)
  BY DivMod
<1> HIDE DEF q
<1>2. ASSUME q < a PROVE FALSE
  <2>1. g * (q + 1) <= g * a /\ g * (q + 1) = g * q + g /\ g * q \in Int /\ g * a \in Int
    BY <1>1, <1>2, TimesOrder
  <2> QED BY <2>1, <1>1
<1>3. ASSUME b <= q PROVE FALSE
  <2>1. g * b <= g * q /\ g * q \in Int /\ g * b \in Int
    BY <1>1, <1>3, TimesOrder
  <2> QED BY <2>1, <1>1
<1> QED BY <1>1, <1>2, <1>3 DEF q

-----------------------------------------------------------------------------
(* Page tables and entries.                                                *)

\* A page table is a sequence of frames.
LEMMA TableType ==
  ASSUME NEW t \in PageTables
  PROVE  Len(t) \in Nat \ {0} /\ Len(t) <= MaxEntries /\ \A i \in 1 .. Len(t) : t[i] \in Nat
<1>1. PICK e \in 1 .. MaxEntries : t \in [1 .. e -> Frames]
  BY DEF PageTables
<1>2. t \in Seq(Frames) /\ e \in Nat
  BY <1>1, SeqDef, PageAssumption
<1>3. Len(t) \in Nat /\ DOMAIN t = 1 .. Len(t)
  BY <1>2, LenProperties
<1>4. Len(t) = e
  BY <1>1, <1>2, <1>3
<1>5. \A i \in 1 .. e : t[i] \in Nat
  BY <1>1, PageAssumption
<1>6. e \in Nat \ {0} /\ e <= MaxEntries
  BY <1>1, PageAssumption
<1> QED BY <1>4, <1>5, <1>6

\* The entry that page k of the VMA must have is an entry.
LEMMA ReferenceType ==
  ASSUME RangesTypeOK, CallInv, pc # "idle", NEW k \in 0 .. (req.len - 1)
  PROVE  Reference(k) \in [pfn: Nat, prot: Types] /\ Reference(k) # NoEntry
<1>1. /\ Entries \in Nat \ {0} /\ \A i \in 1 .. Entries : req.pages[i] \in Nat
      /\ req.len \in Nat /\ req.type \in Types
  BY TableType DEF CallInv, RangesTypeOK, Entries
<1>2. k \in Nat /\ GpuPage \in Nat \ {0} /\ GpuPage * 0 <= k /\ k < GpuPage * Entries
  BY <1>1, PageAssumption, TimesOrder DEF CallInv
<1>3. 0 <= k \div GpuPage /\ k \div GpuPage < Entries
  BY <1>1, <1>2, QuotientBounds
<1>4. k \div GpuPage \in Nat /\ k % GpuPage \in Nat
  BY <1>2, DivMod
<1>5. req.pages[(k \div GpuPage) + 1] \in Nat
  BY <1>1, <1>3, <1>4
<1>6. req.pages[(k \div GpuPage) + 1] + (k % GpuPage) \in Nat
  BY <1>4, <1>5
<1>7. Reference(k).pfn \in Nat
  BY <1>6 DEF Reference
<1> QED BY <1>1, <1>6, <1>7 DEF Reference, NoEntry

\* The pages of a contiguous range are where remapping from paddr on puts them.
LEMMA RangePages ==
  ASSUME RangesTypeOK, CallInv, RangeInv, pc \in {"scan", "remap"},
         NEW k \in Nat, vaddr <= k, k < vaddr + GpuPage * range.nentries
  PROVE  Reference(k) = [pfn |-> range.paddr + (k - vaddr), prot |-> req.type]
<1> DEFINE g == GpuPage
           f == p - range.nentries
           q == k \div g
<1>1. /\ g \in Nat \ {0} /\ f \in Nat /\ p \in Nat /\ range.nentries \in Nat
      /\ vaddr = g * f /\ range.paddr \in Nat /\ p = f + range.nentries
  BY PageAssumption DEF RangeInv, RangesTypeOK
<1>2. \A i \in 1 .. range.nentries : req.pages[f + i] = range.paddr + g * (i - 1)
  BY DEF RangeInv
<1>3. q \in Nat /\ k % g \in Nat /\ k = g * q + (k % g)
  BY <1>1, DivMod
<1> HIDE DEF g, f
<1>4. g * f + g * range.nentries = g * p
  BY <1>1
<1>5. f <= q /\ q < p
  BY <1>1, <1>4, QuotientBounds DEF g
<1> HIDE DEF q
<1>6. req.pages[q + 1] = range.paddr + g * (q - f)
  <2>1. (q + 1) - f \in 1 .. range.nentries
    BY <1>1, <1>3, <1>5
  <2>2. req.pages[f + ((q + 1) - f)] = range.paddr + g * (((q + 1) - f) - 1)
    BY <2>1, <1>2
  <2>3. f + ((q + 1) - f) = q + 1 /\ ((q + 1) - f) - 1 = q - f
    BY <1>1, <1>3
  <2> QED BY <2>2, <2>3
<1>7. g * (q - f) = g * q - g * f
  BY <1>1, <1>3
<1>8. req.pages[q + 1] + (k % g) = range.paddr + (k - vaddr)
  <2>1. g * q \in Int /\ g * f \in Int
    BY <1>1, <1>3
  <2>2. req.pages[q + 1] = range.paddr + (g * q - g * f)
    BY <1>6, <1>7
  <2>3. k - vaddr = (g * q - g * f) + (k % g)
    BY <1>1, <1>3, <2>1
  <2>4. \A x, y, z \in Int : (x + y) + z = x + (y + z)
    OBVIOUS
  <2> QED BY <1>1, <1>3, <2>1, <2>2, <2>3, <2>4
<1> QED BY <1>8 DEF Reference, g, q

\* Remapping n more pages of the range fills the VMA n pages further.
LEMMA InstallFills ==
  ASSUME LoopsInv, pc = "remap", NEW n \in Nat, range.done + n <= range.len,
         Install(vaddr + range.done, range.paddr + range.done, n), req' = req
  PROVE  /\ vaddr + range.done + n \in 0 .. req.len
         /\ \A k \in 0 .. (req.len - 1) :
               pte'[k] = IF k < vaddr + range.done + n THEN Reference(k) ELSE NoEntry
         /\ pte' \in [0 .. (req.len - 1) -> [pfn: Nat, prot: Types] \cup {NoEntry}]
<1> DEFINE from == vaddr + range.done
<1>1. /\ pte \in [0 .. (req.len - 1) -> [pfn: Nat, prot: Types] \cup {NoEntry}]
      /\ vaddr \in Nat /\ range.done \in Nat /\ req.len \in Nat /\ size \in Nat
      /\ range.len \in Nat /\ range.nentries \in Nat /\ range.paddr \in Nat
  BY DEF LoopsInv, RangesTypeOK
<1>2. /\ \A k \in 0 .. (req.len - 1) : pte[k] = IF k < from THEN Reference(k) ELSE NoEntry
      /\ vaddr + size = req.len
      /\ range.len <= size /\ range.len <= GpuPage * range.nentries
  <2>1. GpuPage * range.nentries \in Nat
    BY <1>1, PageAssumption
  <2> QED BY <1>1, <2>1 DEF LoopsInv, LoopInv, RemapInv, Filled, Length, Working
<1>3. \A k \in 0 .. (req.len - 1) : pte'[k] =
         IF k \in from .. (from + n - 1)
         THEN [pfn |-> (range.paddr + range.done) + (k - from), prot |-> req.type] ELSE pte[k]
  BY <1>1 DEF Install
<1>4. from \in Nat /\ from + n \in 0 .. req.len
  BY <1>1, <1>2
<1>5. ASSUME NEW k \in 0 .. (req.len - 1)
      PROVE  pte'[k] = IF k < from + n THEN Reference(k) ELSE NoEntry
  <2>1. CASE k \in from .. (from + n - 1)
    <3>1. Reference(k) = [pfn |-> range.paddr + (k - vaddr), prot |-> req.type]
      <4>1. k \in Nat /\ vaddr <= k /\ k < vaddr + GpuPage * range.nentries
        <5>1. GpuPage * range.nentries \in Nat
          BY <1>1, PageAssumption
        <5>2. vaddr <= from /\ from + n <= vaddr + range.len
          BY <1>1
        <5> HIDE DEF from
        <5>3. k \in Nat /\ from <= k /\ k < from + n
          BY <1>1, <1>4, <2>1
        <5>4. range.len <= GpuPage * range.nentries
          BY <1>2
        <5>5. k < vaddr + range.len /\ vaddr <= k
          BY <1>1, <1>4, <5>2, <5>3
        <5>6. vaddr + range.len <= vaddr + GpuPage * range.nentries
          BY <1>1, <5>1, <5>4
        <5> QED BY <1>1, <5>1, <5>3, <5>5, <5>6
      <4> QED BY <4>1, RangePages DEF LoopsInv
    <3>2. (range.paddr + range.done) + (k - from) = range.paddr + (k - vaddr)
      BY <1>1, <1>4
    <3>3. k < from + n
      BY <1>4, <2>1
    <3> HIDE DEF from
    <3> QED BY <1>3, <2>1, <3>1, <3>2, <3>3
  <2>2. CASE k \notin from .. (from + n - 1)
    <3>1. k < from <=> k < from + n
      BY <1>4, <2>2
    <3> HIDE DEF from
    <3> QED BY <1>2, <1>3, <2>2, <3>1
  <2> QED BY <2>1, <2>2
<1>6. \A k \in 0 .. (req.len - 1) : pte'[k] \in [pfn: Nat, prot: Types] \cup {NoEntry}
  <2>1. \A k \in 0 .. (req.len - 1) : Reference(k) \in [pfn: Nat, prot: Types]
    BY ReferenceType DEF LoopsInv
  <2> HIDE DEF from
  <2> QED BY <1>5, <2>1
<1>7. pte' = [k \in 0 .. (req.len - 1) |-> pte'[k]]
  BY <1>1 DEF Install
<1>8. pte' \in [0 .. (req.len - 1) -> [pfn: Nat, prot: Types] \cup {NoEntry}]
  <2> DEFINE E == [pfn: Nat, prot: Types] \cup {NoEntry}
  <2>1. \A k \in 0 .. (req.len - 1) : pte'[k] \in E
    BY <1>6
  <2> HIDE DEF E
  <2>2. pte' \in [0 .. (req.len - 1) -> E]
    BY <1>7, <2>1
  <2> QED BY <2>2 DEF E
<1> QED BY <1>4, <1>5, <1>8

-----------------------------------------------------------------------------
(* The invariant.                                                          *)

\* No page of a VMA is mapped before the first call.
LEMMA LoopsInit == Init => LoopsInv
<1> SUFFICES ASSUME Init PROVE LoopsInv
  OBVIOUS
<1>1. req \in [pages: PageTables \cup {<<>>}, len: Nat, type: Types, pat: BOOLEAN]
  BY DEF Init, NoReq, Types
<1>2. pte \in [0 .. (req.len - 1) -> [pfn: Nat, prot: Types] \cup {NoEntry}]
  <2>1. req.len - 1 = -1 /\ pte = [k \in 0 .. -1 |-> NoEntry]
    BY DEF Init, NoReq
  <2> QED BY <2>1
<1>3. RangesTypeOK
  BY <1>1, <1>2 DEF Init, RangesTypeOK, NoRange
<1> QED BY <1>3 DEF Init, LoopsInv, CallInv, LoopInv, RangeInv, RemapInv, DoneInv, Working

\* Where a range ends: at the end of its last entry, or of the VMA.
LEMMA RangeEnds ==
  ASSUME LoopsInv, pc = "remap"
  PROVE  /\ vaddr + range.len <= req.len /\ range.len <= size
         /\ range.len = size \/ vaddr + range.len = GpuPage * p
         /\ p = Entries => range.len = size
<1>1. /\ vaddr \in Nat /\ req.len \in Nat /\ size \in Nat /\ p \in Nat
      /\ range.len \in Nat /\ range.nentries \in Nat /\ Entries \in Nat
      /\ vaddr + size = req.len
      /\ vaddr = GpuPage * (p - range.nentries)
      /\ req.len <= GpuPage * Entries
      /\ range.len = Length(range.nentries)
  BY TableType
     DEF LoopsInv, RangesTypeOK, LoopInv, RemapInv, RangeInv, CallInv, Entries, Working
<1>2. /\ GpuPage * (p - range.nentries) + GpuPage * range.nentries = GpuPage * p
      /\ GpuPage * range.nentries \in Nat /\ GpuPage * p \in Nat
  BY <1>1, PageAssumption
<1>3. range.len <= size /\ (range.len = size \/ range.len = GpuPage * range.nentries)
  BY <1>1, <1>2 DEF Length
<1>4. range.len = size \/ vaddr + range.len = GpuPage * p
  BY <1>1, <1>2, <1>3
<1>5. p = Entries => range.len = size
  BY <1>1, <1>2, <1>3, <1>4
<1> QED BY <1>1, <1>3, <1>4, <1>5

\* Once a range is remapped the next one starts, or the VMA is full.
LEMMA NextRangeInv ==
  ASSUME LoopsInv, pc = "remap", NextRange, UNCHANGED <<req, p, refused>>,
         range' \in [paddr: Nat, prev: Nat, nentries: Nat, len: Nat, done: Nat],
         Install(vaddr + range.done, range.paddr + range.done, range.len - range.done)
  PROVE  LoopsInv'
<1>1. /\ vaddr \in Nat /\ range.done \in Nat /\ req.len \in Nat /\ size \in Nat /\ p \in Nat
      /\ range.len \in Nat /\ range.done < range.len
      /\ vaddr + size = req.len /\ ~refused
      /\ p <= Entries /\ Entries \in Nat
  BY TableType
     DEF LoopsInv, RangesTypeOK, LoopInv, RemapInv, RangeInv, CallInv, Entries, Working
<1>2. /\ vaddr + range.len \in 0 .. req.len
      /\ \A k \in 0 .. (req.len - 1) :
            pte'[k] = IF k < vaddr + range.len THEN Reference(k) ELSE NoEntry
      /\ pte' \in [0 .. (req.len - 1) -> [pfn: Nat, prot: Types] \cup {NoEntry}]
  <2>1. range.len - range.done \in Nat /\ range.done + (range.len - range.done) <= range.len
    BY <1>1
  <2>2. vaddr + range.done + (range.len - range.done) = vaddr + range.len
    BY <1>1
  <2> QED BY <2>1, <2>2, InstallFills
<1>3. /\ req' = req /\ p' = p /\ refused' = FALSE /\ Entries' = Entries
      /\ vaddr' = vaddr + range.len /\ size' = size - range.len
      /\ pc' = IF size' # 0 /\ p < Entries THEN "range" ELSE "done"
      /\ ret' = IF (size' # 0 /\ p < Entries) \/ vaddr' = req.len THEN "ok" ELSE "error"
  BY <1>1 DEF NextRange, More, Entries
<1>4. /\ size' \in Nat /\ vaddr' \in Nat /\ vaddr' + size' = req.len
      /\ size' # 0 /\ p < Entries => vaddr' = GpuPage * p
      /\ ~(size' # 0 /\ p < Entries) => size' = 0
  BY <1>1, <1>3, RangeEnds
<1>5. Filled(vaddr)'
  BY <1>2, <1>3 DEF Filled, Reference
<1>6. RangesTypeOK'
  BY <1>2, <1>3, <1>4 DEF LoopsInv, RangesTypeOK
<1>7. CallInv'
  BY <1>3 DEF LoopsInv, CallInv, Entries
<1>8. LoopInv' /\ RangeInv' /\ RemapInv'
  BY <1>1, <1>3, <1>4, <1>5 DEF LoopInv, RangeInv, RemapInv, Working
<1>9. DoneInv'
  <2> SUFFICES ASSUME pc' = "done" PROVE DoneInv'
    BY DEF DoneInv
  <2>1. vaddr' = req.len /\ ret' = "ok"
    BY <1>1, <1>3, <1>4
  <2>2. vaddr' \in 0 .. req'.len /\ vaddr' = req'.len
    BY <1>1, <1>3, <2>1
  <2> QED BY <1>5, <2>1, <2>2 DEF DoneInv, Filled, Reference
<1> QED BY <1>6, <1>7, <1>8, <1>9 DEF LoopsInv

\* While req and pte stay, so does what is filled.
LEMMA FilledFrame ==
  ASSUME UNCHANGED <<req, pte>>, NEW m
  PROVE  Filled(m)' <=> Filled(m)
  BY DEF Filled, Reference

\* What the assignments to the range change and what they leave alone.
LEMMA RangeUpdates ==
  ASSUME NEW r \in [paddr: Nat, prev: Nat, nentries: Nat, len: Nat, done: Nat],
         NEW a \in Nat, NEW b \in Nat
  PROVE  /\ [r EXCEPT !.done = a] \in [paddr: Nat, prev: Nat, nentries: Nat, len: Nat, done: Nat]
         /\ [r EXCEPT !.done = a].paddr = r.paddr /\ [r EXCEPT !.done = a].prev = r.prev
         /\ [r EXCEPT !.done = a].nentries = r.nentries /\ [r EXCEPT !.done = a].len = r.len
         /\ [r EXCEPT !.done = a].done = a
         /\ [r EXCEPT !.prev = a, !.nentries = b]
               \in [paddr: Nat, prev: Nat, nentries: Nat, len: Nat, done: Nat]
         /\ [r EXCEPT !.prev = a, !.nentries = b].paddr = r.paddr
         /\ [r EXCEPT !.prev = a, !.nentries = b].prev = a
         /\ [r EXCEPT !.prev = a, !.nentries = b].nentries = b
         /\ [r EXCEPT !.prev = a, !.nentries = b].done = r.done
  OBVIOUS

\* Every step of gdrdrv_mmap keeps the invariant.
LEMMA LoopsStep ==
  ASSUME LoopsInv, [Next]_vars
  PROVE  LoopsInv'
<1> USE DEF Working
<1>1. ASSUME NEW pages \in PageTables, NEW type \in Types, NEW pat \in BOOLEAN,
             NEW len \in 1 .. (GpuPage * MaxEntries), Mmap(pages, len, type, pat)
      PROVE  LoopsInv'
  <2>1. /\ req' = [pages |-> pages, len |-> len, type |-> type, pat |-> pat]
        /\ pte' = [k \in 0 .. (len - 1) |-> NoEntry]
        /\ pc' = "range" /\ p' = 0 /\ vaddr' = 0 /\ size' = len /\ ret' = "ok"
        /\ range' = range /\ refused' = refused /\ pc = "idle"
        /\ len \in 1 .. (GpuPage * Len(pages))
    BY <1>1 DEF Mmap
  <2>2. Len(pages) \in Nat \ {0} /\ GpuPage * 0 = 0 /\ GpuPage * Len(pages) \in Nat /\ len \in Nat
    BY TableType, PageAssumption, <2>1
  <2>3. RangesTypeOK'
    <3>1. req' \in [pages: PageTables \cup {<<>>}, len: Nat, type: Types, pat: BOOLEAN]
      BY <2>1, <2>2
    <3>2. pte' \in [0 .. (req'.len - 1) -> [pfn: Nat, prot: Types] \cup {NoEntry}]
      BY <2>1, <2>2
    <3> QED BY <2>1, <2>2, <3>1, <3>2 DEF LoopsInv, RangesTypeOK
  <2>4. CallInv' /\ Entries' = Len(pages)
    BY <2>1 DEF CallInv, Entries
  <2>5. Filled(vaddr)'
    BY <2>1, <2>2 DEF Filled
  <2>6. LoopInv'
    BY <2>1, <2>2, <2>4, <2>5 DEF LoopsInv, LoopInv
  <2> QED BY <2>1, <2>3, <2>4, <2>6 DEF LoopsInv, RangeInv, RemapInv, DoneInv
<1>2. CASE RangeStart
  <2>1. /\ pc = "range" /\ pc' = "scan" /\ p' = p + 1
        /\ range' = [paddr |-> req.pages[p + 1], prev |-> req.pages[p + 1], nentries |-> 1,
                     len |-> 0, done |-> 0]
        /\ UNCHANGED <<req, vaddr, size, pte, ret, refused>> /\ Entries' = Entries
    BY <1>2 DEF RangeStart, NoRange, Entries
  <2>2. /\ p \in Nat /\ p < Entries /\ Entries \in Nat /\ vaddr = GpuPage * p
        /\ \A i \in 1 .. Entries : req.pages[i] \in Nat
    BY <2>1, TableType DEF LoopsInv, LoopInv, CallInv, RangesTypeOK, Entries
  <2>3. req.pages[p + 1] \in Nat
    BY <2>2
  <2>4. RangesTypeOK'
    BY <2>1, <2>2, <2>3 DEF LoopsInv, RangesTypeOK
  <2>5. CallInv' /\ LoopInv'
    BY <2>1, FilledFrame DEF LoopsInv, CallInv, LoopInv, Entries
  <2>6. RangeInv'
    <3>1. p' - range'.nentries = p /\ p' \in 1 .. Entries
      BY <2>1, <2>2
    <3>2. \A i \in 1 .. range'.nentries :
             req.pages[p + i] = range'.paddr + GpuPage * (i - 1)
      BY <2>1, <2>3, PageAssumption
    <3> QED BY <2>1, <2>2, <3>1, <3>2 DEF RangeInv
  <2> QED BY <2>1, <2>4, <2>5, <2>6 DEF LoopsInv, RemapInv, DoneInv
<1>3. CASE Scan
  <2>1. /\ pc = "scan" /\ pc' = "scan" /\ p' = p + 1
        /\ p < Entries /\ range.prev + GpuPage = req.pages[p + 1]
        /\ range' = [range EXCEPT !.prev = req.pages[p + 1], !.nentries = @ + 1]
        /\ UNCHANGED <<req, vaddr, size, pte, ret, refused>> /\ Entries' = Entries
    BY <1>3 DEF Scan, Contiguous, Entries
  <2>2. /\ p \in 1 .. Entries /\ Entries \in Nat /\ p \in Nat
        /\ range.nentries \in 1 .. p /\ range.nentries \in Nat /\ range.paddr \in Nat
        /\ vaddr = GpuPage * (p - range.nentries)
        /\ \A i \in 1 .. range.nentries :
              req.pages[p - range.nentries + i] = range.paddr + GpuPage * (i - 1)
        /\ range.prev = req.pages[p] /\ range.done = 0
    BY <2>1, TableType DEF LoopsInv, RangeInv, CallInv, RangesTypeOK, Entries
  <2>3. req.pages[p + 1] \in Nat
    <3>1. \A i \in 1 .. Entries : req.pages[i] \in Nat
      BY <2>1, TableType DEF LoopsInv, CallInv, Entries
    <3>2. p + 1 \in 1 .. Entries
      BY <2>1, <2>2
    <3> QED BY <3>1, <3>2
  <2>4. /\ range'.paddr = range.paddr /\ range'.nentries = range.nentries + 1
        /\ range'.prev = req.pages[p + 1] /\ range'.done = range.done
        /\ range' \in [paddr: Nat, prev: Nat, nentries: Nat, len: Nat, done: Nat]
    <3>1. /\ range \in [paddr: Nat, prev: Nat, nentries: Nat, len: Nat, done: Nat]
          /\ range.nentries + 1 \in Nat
          /\ range' = [range EXCEPT !.prev = req.pages[p + 1], !.nentries = range.nentries + 1]
      BY <2>1 DEF LoopsInv, RangesTypeOK
    <3> QED BY <2>3, <3>1, RangeUpdates
  <2>5. RangesTypeOK'
    BY <2>1, <2>2, <2>4 DEF LoopsInv, RangesTypeOK
  <2>6. CallInv' /\ LoopInv'
    BY <2>1, FilledFrame DEF LoopsInv, CallInv, LoopInv, Entries
  <2>7. RangeInv'
    <3>1. p' - range'.nentries = p - range.nentries /\ p' \in 1 .. Entries
      BY <2>1, <2>2, <2>4
    <3>2. req.pages[p + 1] = range.paddr + GpuPage * range.nentries
      <4>1. req.pages[p] = range.paddr + GpuPage * (range.nentries - 1)
        <5>1. p - range.nentries + range.nentries = p /\ range.nentries \in 1 .. range.nentries
          BY <2>2
        <5> QED BY <2>2, <5>1
      <4>2. GpuPage * (range.nentries - 1) + GpuPage = GpuPage * range.nentries
        BY <2>2, PageAssumption
      <4>3. GpuPage * (range.nentries - 1) \in Int /\ GpuPage \in Int
        BY <2>2, PageAssumption
      <4>4. \A x, y, z \in Int : (x + y) + z = x + (y + z)
        OBVIOUS
      <4> QED BY <2>1, <2>2, <4>1, <4>2, <4>3, <4>4
    <3>3. ASSUME NEW i \in 1 .. range'.nentries
          PROVE  req.pages[p - range.nentries + i] = range'.paddr + GpuPage * (i - 1)
      <4>1. CASE i \in 1 .. range.nentries
        BY <2>2, <2>4, <4>1
      <4>2. CASE i = range.nentries + 1
        <5>1. p - range.nentries + i = p + 1 /\ i - 1 = range.nentries
          BY <2>2, <4>2
        <5> QED BY <2>4, <3>2, <5>1
      <4> QED BY <2>2, <2>4, <4>1, <4>2
    <3>4. range'.nentries \in 1 .. p'
      BY <2>1, <2>2, <2>4
    <3> QED BY <2>1, <2>2, <2>4, <3>1, <3>3, <3>4 DEF RangeInv
  <2> QED BY <2>1, <2>5, <2>6, <2>7 DEF LoopsInv, RemapInv, DoneInv
<1>4. CASE ScanEnds
  <2>1. /\ pc = "scan" /\ pc' = "remap"
        /\ range' = [range EXCEPT !.len = Length(range.nentries)]
        /\ UNCHANGED <<req, p, vaddr, size, pte, ret, refused>> /\ Entries' = Entries
    BY <1>4 DEF ScanEnds, Entries
  <2>2. Length(range.nentries) \in Nat \ {0}
    <3>1. GpuPage * range.nentries \in Nat \ {0}
      BY <2>1, PageAssumption DEF LoopsInv, RangeInv, RangesTypeOK
    <3> QED BY <2>1, <3>1 DEF LoopsInv, LoopInv, RangesTypeOK, Length
  <2>3. /\ range'.paddr = range.paddr /\ range'.nentries = range.nentries
        /\ range'.prev = range.prev /\ range'.done = range.done
        /\ range'.len = Length(range.nentries)
        /\ range' \in [paddr: Nat, prev: Nat, nentries: Nat, len: Nat, done: Nat]
    BY <2>1, <2>2 DEF LoopsInv, RangesTypeOK
  <2>4. RangesTypeOK'
    BY <2>1, <2>3 DEF LoopsInv, RangesTypeOK
  <2>5. CallInv' /\ LoopInv'
    BY <2>1 DEF LoopsInv, CallInv, LoopInv, Entries
  <2>6. RangeInv'
    BY <2>1, <2>3 DEF LoopsInv, RangeInv, Entries
  <2>7. RemapInv'
    <3>1. range.done = 0 /\ vaddr + range.done = vaddr /\ Filled(vaddr)
      BY <2>1 DEF LoopsInv, RangeInv, LoopInv, RangesTypeOK
    <3>2. Filled(vaddr + range.done)'
      BY <2>1, <2>3, <3>1 DEF Filled, Reference
    <3> QED BY <2>1, <2>2, <2>3, <3>1, <3>2 DEF RemapInv, Length
  <2> QED BY <2>1, <2>4, <2>5, <2>6, <2>7 DEF LoopsInv, DoneInv
<1>5. CASE Remap
  <2>1. pc = "remap" /\ ~ByPage /\ UNCHANGED <<req, p, range, refused>>
    BY <1>5 DEF Remap
  <2>2. /\ range.done = 0 /\ range.len \in Nat /\ vaddr \in Nat /\ range.paddr \in Nat
        /\ range \in [paddr: Nat, prev: Nat, nentries: Nat, len: Nat, done: Nat]
    BY <2>1 DEF LoopsInv, RemapInv, RangesTypeOK
  <2>3. ~PatRefuses(vaddr, range.len)
    BY <2>1 DEF PatRefuses, ByPage
  <2>4. Install(vaddr, range.paddr, range.len) /\ NextRange
    BY <1>5, <2>3 DEF Remap
  <2>5. /\ vaddr + range.done = vaddr /\ range.paddr + range.done = range.paddr
        /\ range.len - range.done = range.len
    BY <2>2
  <2> QED BY <2>1, <2>2, <2>4, <2>5, NextRangeInv
<1>6. CASE RemapPage
  <2>1. /\ pc = "remap" /\ ByPage /\ UNCHANGED <<req, p, refused>>
        /\ Install(vaddr + range.done, range.paddr + range.done, 1)
        /\ range' = [range EXCEPT !.done = @ + 1] /\ Entries' = Entries
    BY <1>6 DEF RemapPage, Entries
  <2>2. /\ range.done \in Nat /\ range.len \in Nat /\ vaddr \in Nat /\ range.done < range.len
        /\ range' \in [paddr: Nat, prev: Nat, nentries: Nat, len: Nat, done: Nat]
        /\ range'.done = range.done + 1 /\ range'.paddr = range.paddr
        /\ range'.nentries = range.nentries /\ range'.prev = range.prev /\ range'.len = range.len
    <3>1. /\ range \in [paddr: Nat, prev: Nat, nentries: Nat, len: Nat, done: Nat]
          /\ range.done < range.len /\ vaddr \in Nat
      BY <2>1 DEF LoopsInv, RemapInv, RangesTypeOK
    <3>2. range.done + 1 \in Nat /\ range' = [range EXCEPT !.done = range.done + 1]
      BY <2>1, <3>1
    <3> QED BY <3>1, <3>2, RangeUpdates
  <2>3. CASE range.done + 1 = range.len
    <3>1. NextRange /\ range.len - range.done = 1
      BY <1>6, <2>2, <2>3 DEF RemapPage
    <3> QED BY <2>1, <2>2, <3>1, NextRangeInv
  <2>4. CASE range.done + 1 # range.len
    <3>1. UNCHANGED <<pc, vaddr, size, ret>>
      BY <1>6, <2>4 DEF RemapPage
    <3>2. /\ (vaddr + range.done) + 1 \in 0 .. req.len
          /\ \A k \in 0 .. (req.len - 1) :
                pte'[k] = IF k < (vaddr + range.done) + 1 THEN Reference(k) ELSE NoEntry
          /\ pte' \in [0 .. (req.len - 1) -> [pfn: Nat, prot: Types] \cup {NoEntry}]
      BY <2>1, <2>2, InstallFills
    <3>3. (vaddr + range.done) + 1 = vaddr + (range.done + 1)
      BY <2>2
    <3>4. RangesTypeOK'
      BY <2>1, <2>2, <3>1, <3>2 DEF LoopsInv, RangesTypeOK
    <3>5. CallInv' /\ LoopInv' /\ RangeInv'
      BY <2>1, <2>2, <3>1 DEF LoopsInv, CallInv, LoopInv, RangeInv, Entries
    <3>6. Filled(vaddr + range.done)'
      BY <2>1, <2>2, <3>1, <3>2, <3>3 DEF Filled, Reference
    <3>7. RemapInv'
      BY <2>1, <2>2, <2>4, <3>1, <3>6 DEF LoopsInv, RemapInv, ByPage, Length
    <3> QED BY <2>1, <3>1, <3>4, <3>5, <3>7 DEF LoopsInv, DoneInv
  <2> QED BY <2>3, <2>4
<1>7. ASSUME NEW n \in 0 .. (GpuPage * MaxEntries), RemapFails(n)
      PROVE  LoopsInv'
  <2>1. /\ pc = "remap" /\ pc' = "done" /\ ret' = "error" /\ refused' = TRUE
        /\ UNCHANGED <<req, p, range, vaddr, size>>
        /\ n < (IF ByPage THEN 1 ELSE range.len) /\ Entries' = Entries
    BY <1>7 DEF RemapFails, Entries
  <2>2. /\ range.done \in Nat /\ range.len \in Nat /\ vaddr \in Nat /\ range.paddr \in Nat
        /\ range.done < range.len /\ (~ByPage => range.done = 0) /\ req.len \in Nat
        /\ vaddr + range.len <= req.len
    BY <2>1, RangeEnds DEF LoopsInv, RemapInv, RangesTypeOK
  <2>3. n \in Nat
    BY PageAssumption
  <2>4. Install(vaddr + range.done, range.paddr + range.done, n)
    <3>1. range.done = IF ByPage THEN range.done ELSE 0
      BY <2>2
    <3> QED BY <1>7, <3>1 DEF RemapFails
  <2>5. range.done + n < range.len /\ range.done + n <= range.len
    BY <2>1, <2>2, <2>3
  <2>6. /\ vaddr + range.done + n \in 0 .. req.len
        /\ \A k \in 0 .. (req.len - 1) :
              pte'[k] = IF k < vaddr + range.done + n THEN Reference(k) ELSE NoEntry
        /\ pte' \in [0 .. (req.len - 1) -> [pfn: Nat, prot: Types] \cup {NoEntry}]
    BY <2>1, <2>2, <2>3, <2>4, <2>5, InstallFills
  <2>7. RangesTypeOK'
    BY <2>1, <2>6 DEF LoopsInv, RangesTypeOK
  <2>8. DoneInv'
    <3>1. vaddr + range.done + n # req.len
      BY <2>2, <2>3, <2>5
    <3>2. Filled(vaddr + range.done + n)'
      BY <2>1, <2>6 DEF Filled, Reference
    <3> QED BY <2>1, <2>6, <3>1, <3>2 DEF DoneInv, Filled, Reference
  <2> QED BY <2>1, <2>7, <2>8 DEF LoopsInv, CallInv, LoopInv, RangeInv, RemapInv, Entries
<1>8. CASE Return
  <2>1. Init'
    BY <1>8 DEF Return, Init
  <2> QED BY <2>1, LoopsInit, PTL
<1>9. CASE UNCHANGED vars
  <2>1. UNCHANGED <<req, pc, p, range, vaddr, size, pte, ret, refused>>
    BY <1>9 DEF vars
  <2> QED BY <2>1
      DEF LoopsInv, RangesTypeOK, CallInv, LoopInv, RangeInv, RemapInv, DoneInv, Filled, Reference,
          ByPage, Length, Entries
<1> QED BY <1>1, <1>2, <1>3, <1>4, <1>5, <1>6, <1>7, <1>8, <1>9 DEF Next, Step

-----------------------------------------------------------------------------

\* The invariant holds in every state of every run of the loops.
LEMMA LoopsInvariant == Spec => []LoopsInv
  BY LoopsInit, LoopsStep, PTL DEF Spec

\* For every page size, page table, VMA and platform, no count of gdrdrv_mmap's
\* loops goes below zero and the VMA is never overrun.
THEOREM RangesTypeCorrect == Spec => []RangesTypeOK
<1>1. LoopsInv => RangesTypeOK
  BY DEF LoopsInv
<1> QED BY <1>1, LoopsInvariant, PTL

\* What is filled up to some page is a first part of the VMA.
LEMMA FilledIsPrefix ==
  ASSUME RangesTypeOK, CallInv, pc # "idle", NEW m, Filled(m)
  PROVE  EntriesMatch /\ (m = req.len <=> \A k \in DOMAIN pte : pte[k] # NoEntry)
<1>1. DOMAIN pte = 0 .. (req.len - 1) /\ req.len \in Nat /\ req.len > 0
  BY DEF RangesTypeOK, CallInv
<1>2. m \in 0 .. req.len /\ m \in Int
  BY DEF Filled
<1>3. \A k \in 0 .. (req.len - 1) : pte[k] = IF k < m THEN Reference(k) ELSE NoEntry
  BY DEF Filled
<1>4. \A k \in 0 .. (req.len - 1) : Reference(k) # NoEntry
  BY ReferenceType
<1>5. \A k \in 0 .. (req.len - 1) : pte[k] # NoEntry <=> k < m
  BY <1>3, <1>4
<1>6. EntriesMatch
  BY <1>1, <1>2, <1>3, <1>5 DEF EntriesMatch
<1>7. m = req.len <=> \A k \in 0 .. (req.len - 1) : k < m
  BY <1>1, <1>2
<1> QED BY <1>1, <1>5, <1>6, <1>7

\* For every page size, page table, VMA and platform: however the GPU pages are
\* scattered, the contiguity loop and gdrdrv_remap_gpu_mem point each entry of the
\* VMA to the page of the buffer at that place, first page first.
THEOREM EntriesCorrect == Spec => []EntriesMatch
<1>1. LoopsInv => EntriesMatch
  <2> SUFFICES ASSUME LoopsInv PROVE EntriesMatch
    OBVIOUS
  <2>1. CASE pc = "idle"
    <3>1. req.len = 0 /\ DOMAIN pte = 0 .. (req.len - 1)
      BY <2>1 DEF LoopsInv, LoopInv, RangesTypeOK, NoReq
    <3> QED BY <3>1 DEF EntriesMatch
  <2>2. CASE pc # "idle"
    <3>1. \E m : Filled(m)
      BY <2>2 DEF LoopsInv, RangesTypeOK, LoopInv, RemapInv, DoneInv
    <3> QED BY <2>2, <3>1, FilledIsPrefix DEF LoopsInv
  <2> QED BY <2>1, <2>2
<1> QED BY <1>1, LoopsInvariant, PTL

\* For every page size, page table, VMA and platform: gdrdrv_mmap maps the whole VMA
\* unless the kernel refuses, and it never reports success with a hole.
THEOREM WholeVma == Spec => []MapsWholeVma
<1>1. LoopsInv => MapsWholeVma
  <2> SUFFICES ASSUME LoopsInv, pc = "done" PROVE MapsWholeVma
    BY DEF MapsWholeVma
  <2>1. PICK m \in 0 .. req.len : Filled(m) /\ (ret = "ok" <=> m = req.len)
    BY DEF LoopsInv, DoneInv
  <2>2. m = req.len <=> \A k \in DOMAIN pte : pte[k] # NoEntry
    BY <2>1, FilledIsPrefix DEF LoopsInv
  <2> QED BY <2>1, <2>2 DEF LoopsInv, DoneInv, MapsWholeVma
<1> QED BY <1>1, LoopsInvariant, PTL

=============================================================================
