------------------------------- MODULE Copies -------------------------------
(***************************************************************************)
(* gdr_copy_to_mapping and gdr_copy_from_mapping: which implementation a   *)
(* copy takes on a platform, and the loops of each one, an iteration per   *)
(* step.  A copy runs in one thread; what can go wrong is the arithmetic   *)
(* at the ends of a range, the alignment that an instruction or a kind of  *)
(* memory asks for, and the fence at the end.                              *)
(*                                                                         *)
(* A byte is identified by its source address: mem says for every address  *)
(* of the destination which source byte was stored there.                  *)
(***************************************************************************)
EXTENDS Integers, FiniteSetsExt

CONSTANTS
    AvxBytes,      \* sizeof(__m256d): 32
    SseBytes,      \* 4 * sizeof(float) and sizeof(__m128i): 16
    Dsts, Srcs,    \* addresses that callers copy to and from
    CopySizes,     \* numbers of bytes that they copy
    Addrs          \* destination addresses, with room around what is copied

ASSUME WidthAssumption == AvxBytes \in Nat \ {0} /\ SseBytes \in Nat \ {0}
ASSUME RangeAssumption ==
    /\ Dsts \cup Srcs \cup CopySizes \cup Addrs \subseteq Nat
    /\ \A a \in Dsts, size \in CopySizes : a .. (a + size) \subseteq Addrs

VARIABLES
    job,       \* the arguments of the call, the CPU and the mapping
    pc,        \* the part of the implementation that runs next
    d, s, n,   \* its pointers and the number of bytes left
    mem,       \* the destination memory, Untouched where nothing was stored
    weak,      \* a store of this call may still be delayed (WC or non-temporal)
    fence      \* the fence issued since the last access

vars == <<job, pc, d, s, n, mem, weak, fence>>

Untouched == -1
Word      == 8    \* sizeof(uint64_t)

\* What cpuid reports matters on x86 only.  gdrdrv_init enables cached mappings on
\* POWER and ARM64, and device mappings on some ARM64 hosts.
Platforms == [arch: {"x86"}, cpu: SUBSET {"avx", "sse", "sse4_1"}, type: {"WC"}]
             \cup [arch: {"POWER"}, cpu: {{}}, type: {"WC", "CACHING"}]
             \cup [arch: {"ARM64"}, cpu: {{}}, type: {"WC", "CACHING", "DEVICE"}]
             \cup [arch: {"x86"}, cpu: {{}}, type: {"NONE"}]

NoJob == [dir |-> "none", on |-> [arch |-> "x86", cpu |-> {}, type |-> "NONE"],
          mix |-> FALSE, dst |-> 0, src |-> 0, size |-> 0, fn |-> "none"]

Simd  == {"memcpy_uncached_store_avx", "memcpy_cached_store_avx", "memcpy_uncached_store_sse",
          "memcpy_cached_store_sse", "memcpy_uncached_load_sse41"}
Words == {"unroll4_memcpy", "unroll8_memcpy"}
Plain == {"direct", "device_mapping", "memcpy"}

Job == [dir: {"none", "to", "from"}, on: Platforms, mix: BOOLEAN, dst: Nat, src: Nat,
        size: Nat, fn: Simd \cup Words \cup Plain \cup {"none"}]
PCs == {"idle", "head", "aligned", "unaligned", "fence", "done", "fault"} \cup Words \cup Plain

\* Every variable has its type: in particular the number of bytes that is left
\* never wraps below zero.
CopyTypeOK ==
    /\ job \in Job /\ pc \in PCs
    /\ d \in Nat /\ s \in Nat /\ n \in Nat
    /\ mem \in [Addrs -> Nat \cup {Untouched}]
    /\ weak \in BOOLEAN /\ fence \in {"none", "store", "full"}

Fresh == [a \in Addrs |-> Untouched]

Init ==
    /\ job = NoJob /\ pc = "idle"
    /\ d = 0 /\ s = 0 /\ n = 0
    /\ mem = Fresh /\ weak = FALSE /\ fence = "none"

-----------------------------------------------------------------------------
(* Memory accesses.                                                        *)

\* Vector instructions that fault on an unaligned address.
AlignedOnly == {"load", "store", "stream", "stream_load"}

\* An access of so many bytes at a; mapped says that a is in the mapping, and
\* device memory wants every access naturally aligned.
Legal(op, a, bytes, mapped) ==
    a % bytes = 0 \/ (op \notin AlignedOnly /\ ~(mapped /\ job.on.type = "DEVICE"))

Store(len, kind) ==
    /\ mem' = [a \in Addrs |-> IF a \in d .. (d + len - 1) THEN s + (a - d) ELSE mem[a]]
    /\ d' = d + len /\ s' = s + len /\ n' = n - len
    /\ weak' = (weak \/ kind = "stream" \/ (job.dir = "to" /\ job.on.type = "WC" /\ len > 0))

\* k loads and k stores, and on to the next part unless one of them faults.
Move(ld, st, bytes, k, next) ==
    /\ Store(k * bytes, st)
    /\ fence' = "none"
    /\ pc' = IF \A i \in 0 .. (k - 1) :
                   /\ Legal(ld, s + i * bytes, bytes, job.dir = "from")
                   /\ Legal(st, d + i * bytes, bytes, job.dir = "to")
             THEN next ELSE "fault"
    /\ UNCHANGED job

\* libc's memcpy keeps to aligned accesses when both pointers and the size are
\* aligned to words; otherwise it may use any.
LibcMemcpy(len, after, next) ==
    /\ Store(len, "memcpy")
    /\ fence' = after
    /\ pc' = IF job.on.type # "DEVICE" \/ len = 0 \/ {d % Word, s % Word, len % Word} = {0}
             THEN next ELSE "fault"
    /\ UNCHANGED job

-----------------------------------------------------------------------------
(* The SIMD copies.  Each aligns one pointer, and then has one loop for    *)
(* when the other pointer is aligned too and one for when it is not.       *)

memcpy_uncached_store_avx ==
    [bytes |-> AvxBytes, aligns |-> "dst",
     aligned   |-> [unroll |-> 8, load |-> "load", store |-> "stream"],
     unaligned |-> [unroll |-> 4, load |-> "loadu", store |-> "stream"]]

memcpy_cached_store_avx ==
    [bytes |-> AvxBytes, aligns |-> "dst",
     aligned   |-> [unroll |-> 4, load |-> "load", store |-> "store"],
     unaligned |-> [unroll |-> 4, load |-> "loadu", store |-> "store"]]

memcpy_uncached_store_sse ==
    [bytes |-> SseBytes, aligns |-> "dst",
     aligned   |-> [unroll |-> 4, load |-> "load", store |-> "stream"],
     unaligned |-> [unroll |-> 4, load |-> "loadu", store |-> "stream"]]

memcpy_cached_store_sse ==
    [bytes |-> SseBytes, aligns |-> "dst",
     aligned   |-> [unroll |-> 4, load |-> "load", store |-> "store"],
     unaligned |-> [unroll |-> 4, load |-> "loadu", store |-> "store"]]

memcpy_uncached_load_sse41 ==
    [bytes |-> SseBytes, aligns |-> "src",
     aligned   |-> [unroll |-> 8, load |-> "stream_load", store |-> "stream"],
     unaligned |-> [unroll |-> 8, load |-> "stream_load", store |-> "storeu"]]

Function ==
    CASE job.fn = "memcpy_uncached_store_avx"  -> memcpy_uncached_store_avx
      [] job.fn = "memcpy_cached_store_avx"    -> memcpy_cached_store_avx
      [] job.fn = "memcpy_uncached_store_sse"  -> memcpy_uncached_store_sse
      [] job.fn = "memcpy_cached_store_sse"    -> memcpy_cached_store_sse
      [] job.fn = "memcpy_uncached_load_sse41" -> memcpy_uncached_load_sse41

\* Mutant: the head may be longer than the copy.
HeadLengthMutant(a) == IF a % Function.bytes = 0 THEN 0 ELSE Function.bytes - (a % Function.bytes)

\* The bytes before the first aligned address, or all if there are fewer.
HeadLength(a) ==
    IF a % Function.bytes = 0 THEN 0 ELSE Min({Function.bytes - (a % Function.bytes), n})

\* The other pointer decides which loop comes next.
SimdHead ==
    LET nh    == HeadLength(IF Function.aligns = "dst" THEN d ELSE s)
        other == (IF Function.aligns = "dst" THEN s ELSE d) + nh
    IN  /\ pc = "head"
        /\ LibcMemcpy(nh, fence, IF other % Function.bytes = 0 THEN "aligned" ELSE "unaligned")

InLoop == pc \in {"aligned", "unaligned"}
Loop   == Function[pc]

SimdUnrolled ==
    /\ InLoop /\ n >= Loop.unroll * Function.bytes
    /\ Move(Loop.load, Loop.store, Function.bytes, Loop.unroll, pc)

SimdSingle ==
    /\ InLoop /\ n < Loop.unroll * Function.bytes /\ n >= Function.bytes
    /\ Move(Loop.load, Loop.store, Function.bytes, 1, pc)

\* The bytes that are left, and _mm_sfence.  gdr_copy_to_mapping skips its own fence.
SimdTail ==
    /\ InLoop /\ n < Function.bytes
    /\ LibcMemcpy(n, "store", IF job.dir = "to" THEN "done" ELSE "fence")

-----------------------------------------------------------------------------
(* The other copies.                                                       *)

\* Mutant: an odd number of words has no case of its own.
BurstMutant(nw) == IF nw % 4 = 0 THEN 4 ELSE IF nw % 2 = 0 THEN 2 ELSE 0

\* How many of nw words the next iteration of unroll4_memcpy and unroll8_memcpy copies.
Burst(nw) == IF nw % 4 = 0 THEN 4 ELSE IF nw % 2 = 0 THEN 2 ELSE 1

WordCopy(fn, bytes) ==
    LET nw == n \div bytes IN
    /\ pc = fn
    /\ IF nw = 0 THEN pc' = "fence" /\ UNCHANGED <<job, d, s, n, mem, weak, fence>>
       ELSE Move("word", "word", bytes, Burst(nw), fn)

Mapped == IF job.dir = "to" THEN d ELSE s
Host   == IF job.dir = "to" THEN s ELSE d

\* Mutant: only the size of what is left is looked at.
AccessMutant(p) == Max({k \in {1, 2, 4, 8} : n >= k})

\* The widest access that fits in what is left and is aligned in the mapping.
Access(p) == Max({k \in {1, 2, 4, 8} : n >= k /\ p % k = 0})

\* memcpy_to_device_mapping and memcpy_from_device_mapping: memcpy for the rest
\* once everything is aligned to words, single accesses until then.
DeviceCopy ==
    /\ pc = "device_mapping"
    /\ IF n = 0 THEN pc' = "fence" /\ UNCHANGED <<job, d, s, n, mem, weak, fence>>
       ELSE IF {n % Word, Mapped % Word, Host % Word} = {0} THEN LibcMemcpy(n, "none", pc)
       ELSE Move("word", "word", Access(Mapped), 1, pc)

Memcpy == pc = "memcpy" /\ LibcMemcpy(n, "none", "fence")

\* One store of 1, 2, 4 or 8 bytes.
DirectStore == pc = "direct" /\ Move("word", "word", n, 1, "fence")

-----------------------------------------------------------------------------
(* The calls.                                                              *)

\* Mutant: the size is not looked at.
AllAlignedMutant(j, k) == {j.dst % k, j.src % k} = {0}

AllAligned(j, k) == {j.size % k, j.dst % k, j.src % k} = {0}

\* gdr_copy_to_mapping_internal picks; POWER alone has PREFERS_STORE_UNROLL4.
CopyToFunction(j) ==
    IF j.size \in {1, 2, 4, 8} /\ j.dst % j.size = 0 THEN "direct"
    ELSE IF "avx" \in j.on.cpu THEN "memcpy_uncached_store_avx"
    ELSE IF "sse" \in j.on.cpu THEN "memcpy_uncached_store_sse"
    ELSE IF j.on.type = "WC" /\ j.on.arch = "POWER" /\ AllAligned(j, 4) THEN "unroll4_memcpy"
    ELSE IF j.on.type = "DEVICE" THEN "device_mapping"
    ELSE "memcpy"

\* gdr_copy_from_mapping_internal picks; POWER alone has PREFERS_LOAD_UNROLL8.
CopyFromFunction(j) ==
    IF "sse4_1" \in j.on.cpu THEN "memcpy_uncached_load_sse41"
    ELSE IF "avx" \in j.on.cpu THEN "memcpy_cached_store_avx"
    ELSE IF "sse" \in j.on.cpu THEN "memcpy_cached_store_sse"
    ELSE IF j.on.type = "WC" /\ j.on.arch = "POWER" /\ AllAligned(j, 8) THEN "unroll8_memcpy"
    ELSE IF j.on.type = "DEVICE" THEN "device_mapping"
    ELSE "memcpy"

\* A handle that is not mapped and a size of 0 return at once.
Begin(j, fn) ==
    /\ job' = [j EXCEPT !.fn = fn]
    /\ pc' = IF j.on.type = "NONE" \/ j.size = 0 THEN "done" ELSE IF fn \in Simd THEN "head" ELSE fn
    /\ d' = j.dst /\ s' = j.src /\ n' = j.size
    /\ UNCHANGED <<mem, weak, fence>>

gdr_copy_to_mapping(j)   == j.dir = "to" /\ Begin(j, CopyToFunction(j))
gdr_copy_from_mapping(j) == j.dir = "from" /\ Begin(j, CopyFromFunction(j))

\* Mutant: no fence for WC mappings.
CopyToFenceMutant == IF job.mix THEN "full" ELSE fence

\* The fences of the two calls themselves; only gdr_copy_to_mapping flushes what
\* write combining holds back.
CopyToFence   == IF job.mix THEN "full" ELSE IF job.on.type = "WC" THEN "store" ELSE fence
CopyFromFence == IF job.mix THEN "full" ELSE fence

Fence ==
    /\ pc = "fence"
    /\ fence' = IF job.dir = "to" THEN CopyToFence ELSE CopyFromFence
    /\ pc' = "done"
    /\ UNCHANGED <<job, d, s, n, mem, weak>>

\* return 0: the caller has its copy.
Return ==
    /\ pc = "done"
    /\ job' = NoJob /\ pc' = "idle"
    /\ d' = 0 /\ s' = 0 /\ n' = 0
    /\ mem' = Fresh /\ weak' = FALSE /\ fence' = "none"

Call(j) == gdr_copy_to_mapping(j) \/ gdr_copy_from_mapping(j)

Step ==
    \/ SimdHead \/ SimdUnrolled \/ SimdSingle \/ SimdTail
    \/ WordCopy("unroll4_memcpy", 4) \/ WordCopy("unroll8_memcpy", 8)
    \/ DeviceCopy \/ Memcpy \/ DirectStore
    \/ Fence \/ Return

\* A platform with one mapping type has no mix of them.
Jobs == {j \in [dir: {"to", "from"}, on: Platforms, mix: BOOLEAN, dst: Dsts, src: Srcs,
                size: CopySizes, fn: {"none"}] : j.mix => j.on.arch # "x86"}

Next == Step \/ (pc = "idle" /\ \E j \in Jobs : Call(j))

\* The thread that copies keeps running.
Spec == Init /\ [][Next]_vars /\ WF_vars(Step)

-----------------------------------------------------------------------------
(* Properties.                                                             *)

\* Whatever the size and the alignments are, a copy stores exactly the bytes that
\* were asked for: none outside the range, none from another place of the source,
\* and when it returns none is missing.
CopyExact ==
    /\ \A a \in Addrs : mem[a] # Untouched =>
          a \in job.dst .. (job.dst + job.size - 1) /\ mem[a] = job.src + (a - job.dst)
    /\ pc = "done" /\ job.on.type # "NONE" =>
          \A a \in job.dst .. (job.dst + job.size - 1) : mem[a] # Untouched

\* No vector instruction that wants an aligned address gets another one, and no
\* access to device memory is unaligned.
NoAlignmentFault == pc # "fault"

\* A copy that returns leaves no store of its own delayed in a write-combining
\* buffer, and while mappings of several types exist it has ordered all accesses.
FencedAtReturn ==
    pc = "done" /\ job.on.type # "NONE" /\ job.size > 0 =>
        /\ weak => fence # "none"
        /\ job.mix => fence = "full"

\* Every copy returns: each iteration of each loop makes progress.
CopyReturns == pc # "idle" ~> pc = "idle"

=============================================================================
