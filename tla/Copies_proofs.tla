---------------------------- MODULE Copies_proofs ----------------------------
(***************************************************************************)
(* Proofs about Copies.                                                    *)
(***************************************************************************)
EXTENDS Copies, TLAPS

-----------------------------------------------------------------------------
(* Arithmetic.                                                             *)

\* A remainder is the number that a multiple of the divisor leaves.
LEMMA Remainder ==
    ASSUME NEW b \in Nat \ {0}, NEW q \in Int, NEW r \in 0 .. (b - 1)
    PROVE  (b * q + r) % b = r
OBVIOUS

\* Adding multiples of the divisor keeps a remainder, ...
LEMMA SameRemainder ==
    ASSUME NEW b \in Nat \ {0}, NEW a \in Nat, NEW k \in Nat
    PROVE  (a + k * b) % b = a % b
<1>1. PICK q \in Int, r \in 0 .. (b - 1) : a = b * q + r /\ r = a % b
  OBVIOUS
<1>2. a + k * b = b * (q + k) + r /\ q + k \in Int
  BY <1>1
<1> QED  BY <1>1, <1>2, Remainder

\* ... and the distance to the next multiple leads to one.
LEMMA NextMultiple ==
    ASSUME NEW b \in Nat \ {0}, NEW a \in Nat
    PROVE  (a + (b - (a % b))) % b = 0 /\ a % b \in 0 .. (b - 1)
<1>1. PICK q \in Int, r \in 0 .. (b - 1) : a = b * q + r /\ r = a % b
  OBVIOUS
<1>2. a + (b - r) = b * (q + 1) + 0 /\ q + 1 \in Int /\ 0 \in 0 .. (b - 1)
  BY <1>1
<1> QED  BY <1>1, <1>2, Remainder

-----------------------------------------------------------------------------
(* The invariant.                                                          *)

\* The call that runs is one that callers make, on a platform with a function for it.
CallInv == pc # "idle" =>
    /\ job.dir \in {"to", "from"}
    /\ job.dst \in Dsts /\ job.size \in CopySizes
    /\ job.mix => job.on.arch # "x86"

\* What the choice of a function says of the call: vectors are for x86, words for
\* sizes that are made of them, memcpy for anything but device memory.
ChoiceInv == pc # "idle" =>
    /\ job.fn \in Simd => job.on.arch = "x86" /\ job.on.type = "WC"
    /\ job.fn \in Words => job.on.type = "WC"
    /\ job.fn = "unroll4_memcpy" => job.size % 4 = 0
    /\ job.fn = "unroll8_memcpy" => job.size % 8 = 0
    /\ job.fn = "direct" => job.dir = "to" /\ job.size \in {1, 2, 4, 8} /\ job.dst % job.size = 0
    /\ job.fn = "memcpy" => job.on.type # "DEVICE"
    /\ pc \in {"head", "aligned", "unaligned"} => job.fn \in Simd
    /\ pc \in Words \cup Plain => job.fn = pc

\* Both pointers have gone as far as the count has gone down.
PosInv ==
    /\ n <= job.size
    /\ d + n = job.dst + job.size
    /\ s + n = job.src + job.size

\* The memory holds the source bytes up to the pointer, and nothing else was stored.
MemInv == \A a \in Addrs :
    mem[a] = IF a \in job.dst .. (d - 1) THEN job.src + (a - job.dst) ELSE Untouched

\* Where the loops are: a vector that is left starts at an aligned address, whole words
\* are left, no store has been made yet, or nothing is left.
LoopInv ==
    /\ InLoop /\ n >= Function.bytes =>
          /\ Function.aligns = "dst" \/ pc = "aligned" => d % Function.bytes = 0
          /\ Function.aligns = "src" \/ pc = "aligned" => s % Function.bytes = 0
    /\ pc = "unroll4_memcpy" => n % 4 = 0
    /\ pc = "unroll8_memcpy" => n % 8 = 0
    /\ pc \in {"idle", "direct"} => n = job.size
    /\ pc = "fence" \/ (pc = "done" /\ job.on.type # "NONE") => n = 0

\* Which stores may be delayed, and the fence that the vector functions end with.
WeakInv ==
    /\ pc = "idle" => ~weak
    /\ weak => (job.dir = "to" /\ job.on.type = "WC") \/ job.fn \in Simd
    /\ pc = "fence" /\ job.fn \in Simd => fence = "store"

CopyInv ==
    /\ CopyTypeOK /\ CallInv /\ ChoiceInv /\ PosInv /\ MemInv /\ LoopInv /\ WeakInv
    /\ NoAlignmentFault /\ FencedAtReturn

-----------------------------------------------------------------------------
(* What a store does.                                                      *)

\* A store of no more bytes than are left moves the pointers and keeps the memory right.
LEMMA StoreStep ==
    ASSUME CopyInv, NEW len \in Nat, len <= n, NEW kind, Store(len, kind), job' = job
    PROVE  /\ d' = d + len /\ s' = s + len /\ n' = n - len
           /\ d' \in Nat /\ s' \in Nat /\ n' \in Nat
           /\ mem' \in [Addrs -> Nat \cup {Untouched}] /\ weak' \in BOOLEAN
           /\ PosInv' /\ MemInv'
           /\ weak' => weak \/ kind = "stream" \/ (job.dir = "to" /\ job.on.type = "WC")
<1>1. /\ d \in Nat /\ s \in Nat /\ n \in Nat /\ mem \in [Addrs -> Nat \cup {Untouched}]
      /\ weak \in BOOLEAN /\ Addrs \subseteq Nat
      /\ job.dst \in Nat /\ job.src \in Nat /\ job.size \in Nat
  BY RangeAssumption DEF CopyInv, CopyTypeOK, Job
<1>2. d' = d + len /\ s' = s + len /\ n' = n - len
  BY DEF Store
<1>3. PosInv'
  BY <1>1, <1>2 DEF CopyInv, PosInv
<1>4. job.dst <= d /\ s - job.src = d - job.dst
  BY <1>1 DEF CopyInv, PosInv
<1>5. ASSUME NEW a \in Addrs
      PROVE  /\ mem'[a] = IF a \in job.dst .. (d' - 1) THEN job.src + (a - job.dst) ELSE Untouched
             /\ mem'[a] \in Nat \cup {Untouched}
  <2>1. mem'[a] = IF a \in d .. (d + len - 1) THEN s + (a - d) ELSE mem[a]
    BY DEF Store
  <2>2. mem[a] = IF a \in job.dst .. (d - 1) THEN job.src + (a - job.dst) ELSE Untouched
    BY DEF CopyInv, MemInv
  <2> QED  BY <1>1, <1>2, <1>4, <2>1, <2>2
<1>6. MemInv'
  BY <1>5 DEF MemInv
<1>7. mem' \in [Addrs -> Nat \cup {Untouched}]
  BY <1>5 DEF Store
<1>8. weak' \in BOOLEAN /\ (weak' => weak \/ kind = "stream" \/ (job.dir = "to" /\ job.on.type = "WC"))
  BY <1>1 DEF Store
<1> QED  BY <1>1, <1>2, <1>3, <1>6, <1>7, <1>8

\* What a function is made of.  Where one pointer only is aligned, only its accesses need it.
LEMMA FunctionFacts ==
    ASSUME job.fn \in Simd
    PROVE  /\ Function.bytes \in Nat \ {0} /\ Function.aligns \in {"dst", "src"}
           /\ \A l \in {"aligned", "unaligned"} : Function[l].unroll \in {4, 8}
           /\ Function["unaligned"].load \in AlignedOnly => Function.aligns = "src"
           /\ Function["unaligned"].store \in AlignedOnly => Function.aligns = "dst"
<1>1. CASE job.fn = "memcpy_uncached_store_avx"
  BY <1>1, WidthAssumption DEF Function, memcpy_uncached_store_avx, AlignedOnly
<1>2. CASE job.fn = "memcpy_cached_store_avx"
  BY <1>2, WidthAssumption DEF Function, memcpy_cached_store_avx, AlignedOnly
<1>3. CASE job.fn = "memcpy_uncached_store_sse"
  BY <1>3, WidthAssumption DEF Function, memcpy_uncached_store_sse, AlignedOnly
<1>4. CASE job.fn = "memcpy_cached_store_sse"
  BY <1>4, WidthAssumption DEF Function, memcpy_cached_store_sse, AlignedOnly
<1>5. CASE job.fn = "memcpy_uncached_load_sse41"
  BY <1>5, WidthAssumption DEF Function, memcpy_uncached_load_sse41, AlignedOnly
<1> QED  BY <1>1, <1>2, <1>3, <1>4, <1>5 DEF Simd

\* The head ends at an aligned address or at the end of the copy.
LEMMA HeadFacts ==
    ASSUME CopyTypeOK, job.fn \in Simd, NEW a \in Nat
    PROVE  /\ HeadLength(a) \in Nat /\ HeadLength(a) <= n
           /\ (a + HeadLength(a)) % Function.bytes = 0 \/ n - HeadLength(a) = 0
<1> DEFINE b == Function.bytes
<1>1. b \in Nat \ {0} /\ n \in Nat
  BY FunctionFacts DEF CopyTypeOK
<1>2. (a + (b - (a % b))) % b = 0 /\ a % b \in 0 .. (b - 1)
  BY <1>1, NextMultiple
<1>3. CASE a % b = 0
  BY <1>1, <1>3 DEF HeadLength
<1>4. CASE a % b # 0
  <2> DEFINE S == {b - (a % b), n}
  <2>1. b - (a % b) \in Nat
    BY <1>1, <1>2
  <2>2. \E x \in S : \A y \in S : x <= y
    BY <1>1, <2>1
  <2>3. Min(S) \in S /\ \A y \in S : Min(S) <= y
    BY <2>2 DEF Min
  <2>4. HeadLength(a) = Min(S)
    BY <1>4 DEF HeadLength
  <2>5. CASE Min(S) = n
    BY <1>1, <2>3, <2>4, <2>5
  <2>6. CASE Min(S) = b - (a % b)
    <3>1. HeadLength(a) = b - (a % b)
      BY <2>4, <2>6
    <3>2. (a + HeadLength(a)) % b = 0
      BY <1>2, <3>1
    <3>3. HeadLength(a) \in Nat /\ HeadLength(a) <= n
      BY <1>1, <2>1, <2>3, <2>4, <2>6
    <3> QED  BY <3>2, <3>3
  <2> QED  BY <2>3, <2>5, <2>6
<1> QED  BY <1>3, <1>4

\* An access to device memory that fits and is aligned exists, down to a byte.
LEMMA AccessFacts ==
    ASSUME n \in Nat \ {0}, NEW p \in Nat
    PROVE  Access(p) \in {1, 2, 4, 8} /\ Access(p) <= n /\ p % Access(p) = 0
<1> DEFINE S == {k \in {1, 2, 4, 8} : n >= k /\ p % k = 0}
<1>1. 1 \in S
  OBVIOUS
<1>2. \E x \in S : \A y \in S : x >= y
  <2>1. CASE 8 \in S
    BY <2>1
  <2>2. CASE 8 \notin S /\ 4 \in S
    BY <2>2
  <2>3. CASE 8 \notin S /\ 4 \notin S /\ 2 \in S
    BY <2>3
  <2>4. CASE 8 \notin S /\ 4 \notin S /\ 2 \notin S
    BY <1>1, <2>4
  <2> QED  BY <2>1, <2>2, <2>3, <2>4
<1>3. Access(p) \in S
  BY <1>2 DEF Access, Max
<1> QED  BY <1>3

-----------------------------------------------------------------------------
(* The steps.                                                              *)

\* A step of the copy that runs, from what it does to the memory and where it goes.
LEMMA MoveStep ==
    ASSUME CopyInv, NEW len \in Nat, len <= n, NEW kind, Store(len, kind), job' = job,
           pc # "idle", kind = "stream" => job.fn \in Simd,
           pc' \in PCs \ {"idle", "fault"}, fence' \in {"none", "store", "full"},
           pc' \in {"head", "aligned", "unaligned"} => job.fn \in Simd,
           pc' \in Words \cup Plain => job.fn = pc',
           pc' = "fence" /\ job.fn \in Simd => fence' = "store",
           pc' = "done" => job.fn \in Simd /\ fence' = "store",
           LoopInv'
    PROVE  CopyInv'
<1>1. /\ d' \in Nat /\ s' \in Nat /\ n' \in Nat
      /\ mem' \in [Addrs -> Nat \cup {Untouched}] /\ weak' \in BOOLEAN
      /\ PosInv' /\ MemInv'
      /\ weak' => weak \/ kind = "stream" \/ (job.dir = "to" /\ job.on.type = "WC")
  BY StoreStep
<1>2. CopyTypeOK'
  BY <1>1 DEF CopyInv, CopyTypeOK
<1>3. CallInv' /\ ChoiceInv' /\ NoAlignmentFault'
  BY DEF CopyInv, CallInv, ChoiceInv, NoAlignmentFault
<1>4. WeakInv'
  BY <1>1 DEF CopyInv, WeakInv
<1>5. FencedAtReturn'
  BY DEF CopyInv, CallInv, ChoiceInv, FencedAtReturn
<1> QED  BY <1>1, <1>2, <1>3, <1>4, <1>5 DEF CopyInv

\* The part before the first aligned address.
LEMMA HeadStep == CopyInv /\ SimdHead => CopyInv'
<1> SUFFICES ASSUME CopyInv, SimdHead PROVE CopyInv'
  OBVIOUS
<1> DEFINE b  == Function.bytes
           nh == HeadLength(IF Function.aligns = "dst" THEN d ELSE s)
           other == (IF Function.aligns = "dst" THEN s ELSE d) + nh
           next == IF other % b = 0 THEN "aligned" ELSE "unaligned"
<1>1. pc = "head" /\ job.fn \in Simd /\ job.on.type = "WC" /\ d \in Nat /\ s \in Nat /\ n \in Nat
  BY DEF CopyInv, SimdHead, ChoiceInv, CopyTypeOK
<1>2. b \in Nat \ {0} /\ Function.aligns \in {"dst", "src"}
  BY <1>1, FunctionFacts
<1>3. nh \in Nat /\ nh <= n
  BY <1>1, HeadFacts DEF CopyInv
<1>4. Store(nh, "memcpy") /\ fence' = fence /\ job' = job /\ pc' = next
  BY <1>1 DEF SimdHead, LibcMemcpy
<1>5. d' = d + nh /\ s' = s + nh /\ n' = n - nh
  BY <1>3, <1>4, StoreStep
<1>6. Function' = Function
  BY <1>4 DEF Function
<1>7. ASSUME n' >= b
      PROVE  /\ Function.aligns = "dst" \/ pc' = "aligned" => d' % b = 0
             /\ Function.aligns = "src" \/ pc' = "aligned" => s' % b = 0
  <2>1. n - nh # 0
    BY <1>2, <1>5, <1>7
  <2>2. CASE Function.aligns = "dst"
    BY <1>1, <1>4, <1>5, <2>1, <2>2, HeadFacts DEF CopyInv
  <2>3. CASE Function.aligns = "src"
    BY <1>1, <1>4, <1>5, <2>1, <2>3, HeadFacts DEF CopyInv
  <2> QED  BY <1>2, <2>2, <2>3
<1>8. LoopInv'
  BY <1>4, <1>6, <1>7 DEF LoopInv, InLoop
<1> QED  BY <1>1, <1>3, <1>4, <1>8, MoveStep DEF PCs, Words, Plain, CopyInv, CopyTypeOK

\* The loops over k vectors at a time: every access is aligned as its instruction asks.
LEMMA VectorStep ==
    ASSUME CopyInv, InLoop, NEW k \in {1, 4, 8}, n >= k * Function.bytes,
           Move(Loop.load, Loop.store, Function.bytes, k, pc)
    PROVE  CopyInv'
<1> DEFINE b == Function.bytes
<1>1. job.fn \in Simd /\ job.on.type = "WC" /\ d \in Nat /\ s \in Nat /\ n \in Nat
  BY DEF CopyInv, ChoiceInv, CopyTypeOK, InLoop
<1>2. b \in Nat \ {0}
  BY <1>1, FunctionFacts
<1>3. n >= b
  BY <1>1, <1>2
<1>4. /\ Function.aligns = "dst" \/ pc = "aligned" => d % b = 0
      /\ Function.aligns = "src" \/ pc = "aligned" => s % b = 0
  BY <1>3 DEF CopyInv, LoopInv
<1>5. ASSUME NEW i \in 0 .. (k - 1)
      PROVE  /\ Legal(Loop.load, s + i * b, b, job.dir = "from")
             /\ Legal(Loop.store, d + i * b, b, job.dir = "to")
  <2>1. (s + i * b) % b = s % b /\ (d + i * b) % b = d % b
    <3>1. i \in Nat
      OBVIOUS
    <3> QED  BY ONLY <1>1, <1>2, <3>1, SameRemainder, Zenon
  <2>2. CASE pc = "aligned"
    BY <1>4, <2>1, <2>2 DEF Legal
  <2>3. CASE pc = "unaligned"
    BY <1>1, <1>4, <2>1, <2>3, FunctionFacts DEF Legal, Loop
  <2> QED  BY <2>2, <2>3 DEF InLoop
<1>6. Store(k * b, Loop.store) /\ fence' = "none" /\ job' = job /\ pc' = pc
  BY <1>5 DEF Move
<1>7. k * b \in Nat /\ k * b <= n
  BY <1>1, <1>2
<1>8. d' = d + k * b /\ s' = s + k * b /\ n' = n - k * b
  BY <1>6, <1>7, StoreStep
<1>9. d' % b = d % b /\ s' % b = s % b
  <2>1. k \in Nat
    OBVIOUS
  <2>2. (s + k * b) % b = s % b /\ (d + k * b) % b = d % b
    BY ONLY <1>1, <1>2, <2>1, SameRemainder, Zenon
  <2> QED  BY <1>8, <2>2, Zenon
<1>10. Function' = Function
  BY <1>6 DEF Function
<1>11. LoopInv'
  BY <1>4, <1>6, <1>9, <1>10 DEF LoopInv, InLoop
<1> QED  BY <1>1, <1>6, <1>7, <1>11, MoveStep DEF PCs, Words, Plain, CopyInv, CopyTypeOK, InLoop

\* The bytes behind the last vector, and the store fence.
LEMMA TailStep == CopyInv /\ SimdTail => CopyInv'
<1> SUFFICES ASSUME CopyInv, SimdTail PROVE CopyInv'
  OBVIOUS
<1>1. job.fn \in Simd /\ job.on.type = "WC" /\ n \in Nat
  BY DEF CopyInv, SimdTail, ChoiceInv, CopyTypeOK, InLoop
<1>2. Store(n, "memcpy") /\ fence' = "store" /\ job' = job /\ pc' \in {"done", "fence"}
  BY <1>1 DEF SimdTail, LibcMemcpy
<1>3. n' = 0
  <2>1. n <= n /\ n - n = 0
    BY <1>1
  <2> QED  BY <1>1, <1>2, <2>1, StoreStep
<1>4. LoopInv'
  BY <1>2, <1>3 DEF LoopInv, InLoop
<1> QED  BY <1>1, <1>2, <1>4, MoveStep DEF PCs, Words, Plain, SimdTail, InLoop

\* A step of a function without vectors, which stays where it is or goes on to the fence.
LEMMA WordStep ==
    ASSUME CopyInv, pc \in Words \cup Plain, NEW len \in Nat, len <= n, NEW kind, kind # "stream",
           Store(len, kind), job' = job, fence' = "none", pc' \in {pc, "fence"}, LoopInv'
    PROVE  CopyInv'
<1>1. pc' \in PCs \ {"idle", "fault"} /\ job.fn \notin Simd /\ job.fn = pc
  BY DEF CopyInv, ChoiceInv, PCs, Words, Plain, Simd
<1> QED  BY <1>1, MoveStep DEF Words, Plain, CopyInv, CopyTypeOK

\* A step that only goes on to the fence, once nothing is left.
LEMMA ToFence ==
    ASSUME CopyInv, pc \in Words \cup Plain, n = 0, pc' = "fence", UNCHANGED <<job, d, s, n, mem, weak, fence>>
    PROVE  CopyInv'
<1>1. job.fn \notin Simd
  BY DEF CopyInv, ChoiceInv, Words, Plain, Simd
<1>2. CopyTypeOK' /\ CallInv' /\ ChoiceInv'
  BY <1>1 DEF CopyInv, CopyTypeOK, CallInv, ChoiceInv, PCs, Words, Plain
<1>3. PosInv' /\ MemInv' /\ WeakInv'
  BY <1>1 DEF CopyInv, PosInv, MemInv, WeakInv
<1>4. LoopInv' /\ NoAlignmentFault' /\ FencedAtReturn'
  BY DEF LoopInv, InLoop, NoAlignmentFault, FencedAtReturn
<1> QED  BY <1>2, <1>3, <1>4 DEF CopyInv

\* unroll4_memcpy and unroll8_memcpy copy 4, 2 or 1 words and leave whole words.
LEMMA WordCopyStep ==
    ASSUME CopyInv, NEW fn \in Words, NEW bytes \in {4, 8},
           fn = "unroll4_memcpy" => bytes = 4, fn = "unroll8_memcpy" => bytes = 8,
           WordCopy(fn, bytes)
    PROVE  CopyInv'
<1> DEFINE nw == n \div bytes
<1>1. /\ pc = fn /\ n \in Nat /\ d \in Nat /\ s \in Nat /\ n % bytes = 0 /\ nw \in Nat
      /\ job.fn = fn /\ job.on.type = "WC"
  <2>1. pc = fn /\ n \in Nat /\ d \in Nat /\ s \in Nat
    BY DEF WordCopy, CopyInv, CopyTypeOK
  <2>2. n % bytes = 0
    BY <2>1 DEF CopyInv, LoopInv, Words
  <2>3. job.fn = fn /\ job.on.type = "WC"
    BY <2>1 DEF CopyInv, ChoiceInv, Words
  <2> QED  BY <2>1, <2>2, <2>3
<1>2. CASE nw = 0
  <2>1. n = 0
    BY <1>1, <1>2
  <2> QED  BY <1>1, <1>2, <2>1, ToFence DEF WordCopy
<1>3. CASE nw # 0
  <2>1. Burst(nw) \in {1, 2, 4} /\ Burst(nw) <= nw
    BY <1>1, <1>3 DEF Burst
  <2> DEFINE len == Burst(nw) * bytes
  <2>2. len \in Nat /\ len <= n /\ (n - len) % bytes = 0
    <3>1. CASE bytes = 4
      BY <1>1, <2>1, <3>1
    <3>2. CASE bytes = 8
      BY <1>1, <2>1, <3>2
    <3> QED  BY <3>1, <3>2
  <2>3. ASSUME NEW a, NEW mapped PROVE Legal("word", a, bytes, mapped)
    BY <1>1 DEF Legal, AlignedOnly
  <2>4. Store(len, "word") /\ fence' = "none" /\ job' = job /\ pc' = pc
    BY <1>1, <1>3, <2>3 DEF WordCopy, Move
  <2>5. n' = n - len
    BY <2>2, <2>4, StoreStep
  <2>6. LoopInv'
    BY <1>1, <2>2, <2>4, <2>5 DEF LoopInv, InLoop, Words
  <2> QED  BY <1>1, <2>2, <2>4, <2>6, WordStep
<1> QED  BY <1>2, <1>3

\* The copies of device memory: every access is aligned in the mapping.
LEMMA DeviceStep == CopyInv /\ DeviceCopy => CopyInv'
<1> SUFFICES ASSUME CopyInv, DeviceCopy PROVE CopyInv'
  OBVIOUS
<1>1. pc = "device_mapping" /\ n \in Nat /\ d \in Nat /\ s \in Nat /\ Mapped \in Nat
  BY DEF DeviceCopy, CopyInv, CopyTypeOK, Mapped
<1>2. CASE n = 0
  BY <1>1, <1>2, ToFence DEF DeviceCopy, Plain
<1>3. ASSUME n # 0, {n % Word, Mapped % Word, Host % Word} = {0} PROVE CopyInv'
  <2>1. {d % Word, s % Word, n % Word} = {0}
    BY <1>3 DEF Mapped, Host
  <2>2. Store(n, "memcpy") /\ fence' = "none" /\ job' = job /\ pc' = pc
    BY <1>1, <1>3, <2>1 DEF DeviceCopy, LibcMemcpy
  <2>3. LoopInv'
    BY <1>1, <2>2 DEF LoopInv, InLoop
  <2> QED  BY <1>1, <2>2, <2>3, WordStep DEF Plain
<1>4. ASSUME n # 0, {n % Word, Mapped % Word, Host % Word} # {0} PROVE CopyInv'
  <2>1. PICK k \in {1, 2, 4, 8} : k = Access(Mapped) /\ k <= n /\ Mapped % k = 0
    BY <1>1, <1>4, AccessFacts
  <2>2. Move("word", "word", k, 1, pc)
    BY <1>1, <1>4, <2>1 DEF DeviceCopy
  <2>3. /\ Legal("word", s + 0 * k, k, job.dir = "from")
        /\ Legal("word", d + 0 * k, k, job.dir = "to")
    BY <1>1, <2>1 DEF Legal, AlignedOnly, Mapped
  <2>4. Store(k, "word") /\ fence' = "none" /\ job' = job /\ pc' = pc
    <3>1. 1 * k = k /\ \A i \in 0 .. (1 - 1) : i = 0
      OBVIOUS
    <3> QED  BY <2>2, <2>3, <3>1 DEF Move
  <2>5. LoopInv'
    BY <1>1, <2>4 DEF LoopInv, InLoop
  <2> QED  BY <1>1, <2>1, <2>4, <2>5, WordStep DEF Plain
<1> QED  BY <1>2, <1>3, <1>4

\* memcpy, and the single store of an aligned word.
LEMMA PlainStep == CopyInv /\ (Memcpy \/ DirectStore) => CopyInv'
<1> SUFFICES ASSUME CopyInv, Memcpy \/ DirectStore PROVE CopyInv'
  OBVIOUS
<1>1. n \in Nat /\ d \in Nat /\ s \in Nat /\ pc \in Plain
  BY DEF Memcpy, DirectStore, CopyInv, CopyTypeOK, Plain
<1>2. job' = job /\ fence' = "none" /\ pc' = "fence" /\ \E kind \in {"memcpy", "word"} : Store(n, kind)
  <2>1. CASE Memcpy
    <3>1. job.on.type # "DEVICE"
      BY <2>1 DEF Memcpy, CopyInv, ChoiceInv, Plain
    <3> QED  BY <2>1, <3>1 DEF Memcpy, LibcMemcpy
  <2>2. CASE DirectStore
    <3>1. job.dir = "to" /\ n \in {1, 2, 4, 8} /\ d % n = 0
      <4>1. /\ job.dir = "to" /\ job.size \in {1, 2, 4, 8} /\ job.dst % job.size = 0 /\ n = job.size
        BY <2>2 DEF DirectStore, CopyInv, ChoiceInv, LoopInv, Plain
      <4>2. d = job.dst
        BY <1>1, <4>1 DEF CopyInv, PosInv, CopyTypeOK, Job
      <4> QED  BY <4>1, <4>2
    <3>2. /\ Legal("word", s + 0 * n, n, job.dir = "from")
          /\ Legal("word", d + 0 * n, n, job.dir = "to")
      BY <1>1, <3>1 DEF Legal, AlignedOnly
    <3>3. 1 * n = n /\ \A i \in 0 .. (1 - 1) : i = 0
      BY <1>1
    <3> QED  BY <2>2, <3>2, <3>3 DEF DirectStore, Move
  <2> QED  BY <2>1, <2>2
<1>3. n' = 0
  BY <1>1, <1>2, StoreStep
<1>4. LoopInv'
  BY <1>2, <1>3 DEF LoopInv, InLoop
<1> QED  BY <1>1, <1>2, <1>4, WordStep

\* What a set of remainders that is {0} says of each.
LEMMA AllAlignedFacts ==
    ASSUME NEW j, NEW k, AllAligned(j, k)
    PROVE  j.size % k = 0
BY DEF AllAligned

\* A function is chosen for what it can do.
LEMMA ChosenFunction ==
    ASSUME NEW j \in Jobs, NEW fn,
           \/ j.dir = "to" /\ fn = CopyToFunction(j)
           \/ j.dir = "from" /\ fn = CopyFromFunction(j)
    PROVE  /\ fn \in Simd \cup Words \cup Plain
           /\ fn \in Simd => j.on.arch = "x86" /\ j.on.type = "WC"
           /\ fn \in Words => j.on.type = "WC"
           /\ fn = "unroll4_memcpy" => j.size % 4 = 0
           /\ fn = "unroll8_memcpy" => j.size % 8 = 0
           /\ fn = "direct" => j.dir = "to" /\ j.size \in {1, 2, 4, 8} /\ j.dst % j.size = 0
           /\ fn = "memcpy" => j.on.type # "DEVICE"
<1>1. j.on.cpu # {} => j.on.arch = "x86" /\ j.on.type = "WC"
  BY DEF Jobs, Platforms
<1>2. CASE j.dir = "to" /\ fn = CopyToFunction(j)
  BY <1>1, <1>2, AllAlignedFacts DEF CopyToFunction, Simd, Words, Plain
<1>3. CASE j.dir = "from" /\ fn = CopyFromFunction(j)
  BY <1>1, <1>3, AllAlignedFacts DEF CopyFromFunction, Simd, Words, Plain
<1> QED  BY <1>2, <1>3

\* A call starts with everything to be copied.
LEMMA CallStep ==
    ASSUME CopyInv, pc = "idle", NEW j \in Jobs, Call(j)
    PROVE  CopyInv'
<1>1. PICK fn \in Simd \cup Words \cup Plain :
        /\ Begin(j, fn)
        /\ fn \in Simd => j.on.arch = "x86" /\ j.on.type = "WC"
        /\ fn \in Words => j.on.type = "WC"
        /\ fn = "unroll4_memcpy" => j.size % 4 = 0
        /\ fn = "unroll8_memcpy" => j.size % 8 = 0
        /\ fn = "direct" => j.dir = "to" /\ j.size \in {1, 2, 4, 8} /\ j.dst % j.size = 0
        /\ fn = "memcpy" => j.on.type # "DEVICE"
  BY ChosenFunction DEF Call, gdr_copy_to_mapping, gdr_copy_from_mapping
<1>2. /\ j.dir \in {"to", "from"} /\ j.on \in Platforms /\ j.mix \in BOOLEAN
      /\ j.dst \in Dsts /\ j.src \in Srcs /\ j.size \in CopySizes
      /\ j.dst \in Nat /\ j.src \in Nat /\ j.size \in Nat
      /\ j.mix => j.on.arch # "x86"
  BY RangeAssumption DEF Jobs
<1>3. /\ job' \in Job /\ job'.dir = j.dir /\ job'.on = j.on /\ job'.mix = j.mix /\ job'.dst = j.dst
      /\ job'.src = j.src /\ job'.size = j.size /\ job'.fn = fn
  BY <1>1, <1>2 DEF Begin, Jobs, Job
<1>4. /\ d' = j.dst /\ s' = j.src /\ n' = j.size /\ mem' = mem /\ weak' = weak /\ fence' = fence
      /\ pc' = IF j.on.type = "NONE" \/ j.size = 0 THEN "done" ELSE IF fn \in Simd THEN "head" ELSE fn
  BY <1>1 DEF Begin
<1>5. ~weak /\ \A a \in Addrs : mem[a] = Untouched
  <2>1. ~weak /\ n = job.size
    BY DEF CopyInv, WeakInv, LoopInv
  <2>2. \A a \in Addrs : a \notin job.dst .. (d - 1)
    BY <2>1, RangeAssumption DEF CopyInv, PosInv, CopyTypeOK, Job
  <2> QED  BY <2>1, <2>2 DEF CopyInv, MemInv
<1>6. CopyTypeOK'
  BY <1>2, <1>3, <1>4 DEF CopyInv, CopyTypeOK, PCs
<1>7. CallInv'
  BY <1>2, <1>3 DEF CallInv
<1>8. ChoiceInv'
  BY <1>1, <1>3, <1>4 DEF ChoiceInv, Words, Plain, Simd
<1>9. PosInv'
  BY <1>2, <1>3, <1>4 DEF PosInv
<1>10. MemInv'
  BY <1>2, <1>3, <1>4, <1>5, RangeAssumption DEF MemInv
<1>11. LoopInv'
  <2>1. pc' \in {"done", "head"} \/ (pc' = fn /\ fn \in Words \cup Plain)
    BY <1>1, <1>4
  <2>2. pc' = "done" /\ job'.on.type # "NONE" => n' = 0
    BY <1>3, <1>4 DEF Simd, Words, Plain
  <2> QED  BY <1>1, <1>3, <1>4, <2>1, <2>2 DEF LoopInv, InLoop, Words, Plain
<1>12. WeakInv' /\ NoAlignmentFault' /\ FencedAtReturn'
  <2>1. pc' \notin {"idle", "fence", "fault"} /\ (pc' = "done" => j.on.type = "NONE" \/ j.size = 0)
    BY <1>4 DEF Simd, Words, Plain
  <2> QED  BY <1>2, <1>3, <1>4, <1>5, <2>1 DEF WeakInv, NoAlignmentFault, FencedAtReturn
<1> QED  BY <1>6, <1>7, <1>8, <1>9, <1>10, <1>11, <1>12 DEF CopyInv

\* The fence is strong enough for every store that may still be delayed.
LEMMA FenceStep == CopyInv /\ Fence => CopyInv'
<1> SUFFICES ASSUME CopyInv, Fence PROVE CopyInv'
  OBVIOUS
<1>1. pc = "fence" /\ pc' = "done" /\ n = 0 /\ UNCHANGED <<job, d, s, n, mem, weak>>
  BY DEF Fence, CopyInv, LoopInv
<1>2. fence' = IF job.mix THEN "full" ELSE IF job.dir = "to" /\ job.on.type = "WC" THEN "store" ELSE fence
  BY DEF Fence, CopyToFence, CopyFromFence
<1>3. CopyTypeOK' /\ CallInv' /\ ChoiceInv'
  BY <1>1, <1>2 DEF CopyInv, CopyTypeOK, CallInv, ChoiceInv, PCs, Words, Plain
<1>4. PosInv' /\ MemInv' /\ LoopInv'
  BY <1>1 DEF CopyInv, PosInv, MemInv, LoopInv, InLoop
<1>5. WeakInv' /\ NoAlignmentFault'
  BY <1>1 DEF CopyInv, WeakInv, NoAlignmentFault
<1>6. FencedAtReturn'
  <2>1. weak => (job.dir = "to" /\ job.on.type = "WC") \/ (job.fn \in Simd /\ fence = "store")
    BY <1>1 DEF CopyInv, WeakInv
  <2> QED  BY <1>1, <1>2, <2>1 DEF FencedAtReturn
<1> QED  BY <1>3, <1>4, <1>5, <1>6 DEF CopyInv

\* The state without a call.
LEMMA IdleState ==
    ASSUME job = NoJob, pc = "idle", d = 0, s = 0, n = 0, mem = Fresh, weak = FALSE, fence = "none"
    PROVE  CopyInv
<1>1. NoJob \in Job
  BY DEF NoJob, Job, Platforms
<1>2. mem \in [Addrs -> Nat \cup {Untouched}] /\ \A a \in Addrs : mem[a] = Untouched
  BY DEF Fresh
<1>3. CopyTypeOK
  BY <1>1, <1>2 DEF CopyTypeOK, PCs
<1>4. PosInv /\ MemInv
  BY <1>2, RangeAssumption DEF PosInv, MemInv, NoJob
<1> QED
  BY <1>3, <1>4 DEF CopyInv, CallInv, ChoiceInv, LoopInv, InLoop, WeakInv, NoAlignmentFault,
     FencedAtReturn, NoJob, Words, Plain, Simd

\* ... which every call returns to.
LEMMA ReturnStep == Return => CopyInv'
<1> SUFFICES ASSUME Return PROVE CopyInv'
  OBVIOUS
<1>1. job' = NoJob /\ pc' = "idle" /\ d' = 0 /\ s' = 0 /\ n' = 0 /\ mem' = Fresh /\ weak' = FALSE /\ fence' = "none"
  BY DEF Return
<1>2. NoJob \in Job
  BY DEF NoJob, Job, Platforms
<1>3. mem' \in [Addrs -> Nat \cup {Untouched}] /\ \A a \in Addrs : mem'[a] = Untouched
  BY <1>1 DEF Fresh
<1>4. CopyTypeOK'
  BY <1>1, <1>2, <1>3 DEF CopyTypeOK, PCs
<1>5. PosInv' /\ MemInv'
  BY <1>1, <1>3, RangeAssumption DEF PosInv, MemInv, NoJob
<1> QED
  BY <1>1, <1>4, <1>5 DEF CopyInv, CallInv, ChoiceInv, LoopInv, InLoop, WeakInv, NoAlignmentFault,
     FencedAtReturn, NoJob, Words, Plain, Simd

\* CopyInv is inductive.
LEMMA CopyStep == CopyInv /\ [Next]_vars => CopyInv'
<1> SUFFICES ASSUME CopyInv, [Next]_vars PROVE CopyInv'
  OBVIOUS
<1>1. CASE SimdUnrolled \/ SimdSingle
  <2>1. job.fn \in Simd /\ n \in Nat /\ InLoop
    BY <1>1 DEF SimdUnrolled, SimdSingle, CopyInv, ChoiceInv, CopyTypeOK, InLoop
  <2>2. Function.bytes \in Nat \ {0} /\ Loop.unroll \in {4, 8}
    BY <2>1, FunctionFacts DEF Loop, InLoop
  <2>3. CASE SimdUnrolled
    BY <2>1, <2>2, <2>3, VectorStep DEF SimdUnrolled
  <2>4. CASE SimdSingle
    <3>1. n >= 1 * Function.bytes
      BY <2>1, <2>2, <2>4 DEF SimdSingle
    <3> QED  BY <2>1, <2>4, <3>1, VectorStep DEF SimdSingle
  <2> QED  BY <1>1, <2>3, <2>4
<1>2. CASE WordCopy("unroll4_memcpy", 4)
  BY <1>2, WordCopyStep DEF Words
<1>3. CASE WordCopy("unroll8_memcpy", 8)
  BY <1>3, WordCopyStep DEF Words
<1>4. CASE pc = "idle" /\ \E j \in Jobs : Call(j)
  BY <1>4, CallStep
<1>5. CASE UNCHANGED vars
  <2>1. CopyTypeOK' /\ CallInv' /\ ChoiceInv' /\ PosInv' /\ MemInv'
    BY <1>5 DEF vars, CopyInv, CopyTypeOK, CallInv, ChoiceInv, PosInv, MemInv
  <2>2. Function' = Function
    BY <1>5 DEF vars, Function
  <2>3. LoopInv'
    BY <1>5, <2>2 DEF vars, CopyInv, LoopInv, InLoop
  <2>4. WeakInv' /\ NoAlignmentFault' /\ FencedAtReturn'
    BY <1>5 DEF vars, CopyInv, WeakInv, NoAlignmentFault, FencedAtReturn
  <2> QED  BY <2>1, <2>3, <2>4 DEF CopyInv
<1> QED
  BY <1>1, <1>2, <1>3, <1>4, <1>5, HeadStep, TailStep, DeviceStep, PlainStep, FenceStep, ReturnStep
  DEF Next, Step

\* CopyInv holds in every reachable state.
LEMMA CopyInvariant == Spec => []CopyInv
<1>1. Init => CopyInv
  BY IdleState DEF Init
<1> QED  BY <1>1, CopyStep, PTL DEF Spec

-----------------------------------------------------------------------------
(* The theorems.                                                           *)

\* The types hold for every width of vectors and every range of addresses and sizes; the
\* count of bytes that are left never wraps in any of the loops.
THEOREM CopyTypeCorrect == Spec => []CopyTypeOK
<1>1. CopyInv => CopyTypeOK
  BY DEF CopyInv
<1> QED  BY <1>1, CopyInvariant, PTL

\* Whatever function gdr_copy_to_mapping or gdr_copy_from_mapping picks, it stores the bytes
\* that were asked for, all of them, and no other.
THEOREM CopiesExact == Spec => []CopyExact
<1>1. CopyInv => CopyExact
  <2> SUFFICES ASSUME CopyInv PROVE CopyExact
    OBVIOUS
  <2>1. /\ job.dst \in Nat /\ job.src \in Nat /\ job.size \in Nat /\ d \in Nat /\ n \in Nat
        /\ d <= job.dst + job.size /\ (n = 0 => d = job.dst + job.size)
    BY DEF CopyInv, CopyTypeOK, Job, PosInv
  <2>2. ASSUME NEW a \in Addrs, mem[a] # Untouched
        PROVE  a \in job.dst .. (job.dst + job.size - 1) /\ mem[a] = job.src + (a - job.dst)
    BY <2>1, <2>2, RangeAssumption DEF CopyInv, MemInv
  <2>3. ASSUME pc = "done", job.on.type # "NONE", NEW a \in job.dst .. (job.dst + job.size - 1)
        PROVE  mem[a] # Untouched
    <3>1. n = 0
      BY <2>3 DEF CopyInv, LoopInv
    <3>2. a \in Addrs
      <4>1. job.dst \in Dsts /\ job.size \in CopySizes /\ a \in job.dst .. (job.dst + job.size)
        BY <2>1, <2>3 DEF CopyInv, CallInv
      <4> QED  BY <4>1, RangeAssumption
    <3>3. mem[a] = job.src + (a - job.dst)
      BY <2>1, <2>3, <3>1, <3>2 DEF CopyInv, MemInv
    <3> QED  BY <2>1, <2>3, <3>3 DEF Untouched
  <2> QED  BY <2>2, <2>3 DEF CopyExact
<1> QED  BY <1>1, CopyInvariant, PTL

\* No loop makes an access that its instruction or the device memory does not allow, however
\* the pointers and the size are aligned.
THEOREM AccessesAligned == Spec => []NoAlignmentFault
<1>1. CopyInv => NoAlignmentFault
  BY DEF CopyInv
<1> QED  BY <1>1, CopyInvariant, PTL

\* No copy returns with a delayed store, or without a full fence while types are mixed.
THEOREM CopiesFenced == Spec => []FencedAtReturn
<1>1. CopyInv => FencedAtReturn
  BY DEF CopyInv
<1> QED  BY <1>1, CopyInvariant, PTL

=============================================================================
