-------------------------- MODULE BufferLife_proofs --------------------------
(***************************************************************************)
(* Proofs about the abstract driver: no VMA reaches a buffer that is       *)
(* revoked or unpinned, and a buffer has one VMA at most, for any number   *)
(* of buffers and VMAs and on every platform.                              *)
(***************************************************************************)
EXTENDS BufferLife, TLAPS

\* A VMA with a buffer is the reason why that buffer cannot be mapped again.
Occupied ==
    \A v \in VMAs : map[v].of # None =>
        /\ buf[map[v].of].pinned
        /\ buf[map[v].of].revoked \/ buf[map[v].of].type # "NONE"

LifeInv == LifeTypeOK /\ OneLiveMapping /\ Occupied

\* A region that is not on the list counts as a buffer record like any other.
LEMMA GoneIsBuffer == Gone \in Buffer
  BY DEF Gone, Buffer, Types

\* Unused and Orphan are records of a VMA.
LEMMA MappingRecords == Unused \in Mapping /\ Orphan \in Mapping
  BY DEF Unused, Orphan, Mapping

\* A mapping gets a real type, as gdrdrv_mmap never leaves GDR_MR_NONE on success.
LEMMA NewTypeIsReal ==
  ASSUME LifeTypeOK, NEW b \in Bufs
  PROVE  NewType(b) \in Types \ {"NONE"}
  <1>1. buf[b].req \in Types
    BY DEF LifeTypeOK, Buffer
  <1>2. DefaultType(b) \in Types \ {"NONE"}
    BY DEF DefaultType, Types
  <1> QED
    BY <1>1, <1>2 DEF NewType

\* Every operation keeps the types of the driver's state.
LEMMA TypeStep ==
  ASSUME LifeTypeOK, [LifeNext]_life
  PROVE  LifeTypeOK'
  <1> USE GoneIsBuffer, MappingRecords
  <1>1. CASE Fresh
    BY <1>1 DEF Fresh, LifeTypeOK
  <1>2. ASSUME NEW b \in Bufs, NEW n \in Sizes, NEW ram \in RamPages, Pin(b, n, ram)
        PROVE  LifeTypeOK'
    <2>1. [Gone EXCEPT !.pinned = TRUE, !.handle = next, !.size = n, !.ram = ram] \in Buffer
      BY SpaceAssumption, RamAssumption DEF Gone, Buffer, LifeTypeOK, Types
    <2>2. next' \in Nat
      BY <1>2, SpaceAssumption DEF Pin, LifeTypeOK
    <2> QED
      BY <1>2, <2>1, <2>2 DEF Pin, LifeTypeOK
  <1>3. ASSUME NEW b \in Bufs, Unpin(b) PROVE LifeTypeOK'
    BY <1>3 DEF Unpin, LifeTypeOK
  <1>4. ASSUME NEW b \in Bufs, Revoke(b) PROVE LifeTypeOK'
    <2>1. buf' \in [Bufs -> Buffer]
      <3>1. [buf[b] EXCEPT !.revoked = TRUE, !.type = "NONE"] \in Buffer
        BY DEF LifeTypeOK, Buffer, Types
      <3> QED
        BY <1>4, <3>1 DEF Revoke, LifeTypeOK
    <2>2. map' \in [VMAs -> Mapping]
      BY <1>4 DEF Revoke, LifeTypeOK, Mapping
    <2> QED
      BY <1>4, <2>1, <2>2 DEF Revoke, LifeTypeOK
  <1>5. ASSUME NEW b \in Bufs, NEW type \in Types, Request(b, type) PROVE LifeTypeOK'
    BY <1>5 DEF Request, LifeTypeOK, Buffer
  <1>6. ASSUME NEW b \in Bufs, NEW v \in VMAs, Map(b, v) PROVE LifeTypeOK'
    BY <1>6, NewTypeIsReal DEF Map, LifeTypeOK, Buffer, Mapping
  <1>7. ASSUME NEW v \in VMAs, Unmap(v) PROVE LifeTypeOK'
    BY <1>7 DEF Unmap, LifeTypeOK, Mapping
  <1>8. ASSUME NEW v \in VMAs, Close(v) PROVE LifeTypeOK'
    BY <1>8 DEF Close, LifeTypeOK, Buffer, Types
  <1>9. CASE UNCHANGED life
    BY <1>9 DEF life, LifeTypeOK
  <1> QED
    BY <1>1, <1>2, <1>3, <1>4, <1>5, <1>6, <1>7, <1>8, <1>9 DEF LifeNext

\* Every operation keeps the buffer of each VMA occupied and the VMA its only one.
LEMMA InvStep ==
  ASSUME LifeInv, [LifeNext]_life
  PROVE  LifeInv'
  <1>0. LifeTypeOK'
    BY TypeStep DEF LifeInv
  <1> USE NoneAssumption DEF LifeInv
  <1> SUFFICES OneLiveMapping' /\ Occupied'
    BY <1>0
  <1>1. CASE Fresh
    BY <1>1 DEF Fresh, OneLiveMapping, Occupied
  <1>2. ASSUME NEW b \in Bufs, NEW n \in Sizes, NEW ram \in RamPages, Pin(b, n, ram)
        PROVE  OneLiveMapping' /\ Occupied'
    BY <1>2 DEF Pin, OneLiveMapping, Occupied, LifeTypeOK, Buffer, Mapping
  <1>3. ASSUME NEW b \in Bufs, Unpin(b) PROVE OneLiveMapping' /\ Occupied'
    BY <1>3 DEF Unpin, OneLiveMapping, Occupied, LifeTypeOK, Buffer, Mapping, Orphan
  <1>4. ASSUME NEW b \in Bufs, Revoke(b) PROVE OneLiveMapping' /\ Occupied'
    BY <1>4 DEF Revoke, OneLiveMapping, Occupied, LifeTypeOK, Buffer, Mapping
  <1>5. ASSUME NEW b \in Bufs, NEW type \in Types, Request(b, type)
        PROVE  OneLiveMapping' /\ Occupied'
    BY <1>5 DEF Request, OneLiveMapping, Occupied, LifeTypeOK, Buffer, Mapping
  <1>6. ASSUME NEW b \in Bufs, NEW v \in VMAs, Map(b, v) PROVE OneLiveMapping' /\ Occupied'
    <2>1. \A w \in VMAs : map[w].of # b
      BY <1>6 DEF Map, Occupied
    <2>2. NewType(b) # "NONE"
      BY NewTypeIsReal
    <2> QED
      BY <1>6, <2>1, <2>2 DEF Map, OneLiveMapping, Occupied, LifeTypeOK, Buffer, Mapping
  <1>7. ASSUME NEW v \in VMAs, Unmap(v) PROVE OneLiveMapping' /\ Occupied'
    BY <1>7 DEF Unmap, OneLiveMapping, Occupied, LifeTypeOK, Buffer, Mapping
  <1>8. ASSUME NEW v \in VMAs, Close(v) PROVE OneLiveMapping' /\ Occupied'
    <2>1. \A w \in VMAs : w # v /\ map[w].of # None => map[w].of # map[v].of
      BY DEF OneLiveMapping
    <2> QED
      BY <1>8, <2>1 DEF Close, OneLiveMapping, Occupied, LifeTypeOK, Buffer, Mapping, Unused
  <1>9. CASE UNCHANGED life
    BY <1>9 DEF life, OneLiveMapping, Occupied
  <1> QED
    BY <1>1, <1>2, <1>3, <1>4, <1>5, <1>6, <1>7, <1>8, <1>9 DEF LifeNext

\* Initially nothing is pinned and nothing is mapped.
LEMMA InvInit == LifeInit => LifeInv
  <1> SUFFICES ASSUME LifeInit PROVE LifeInv
    OBVIOUS
  <1>1. LifeTypeOK
    BY GoneIsBuffer, MappingRecords DEF LifeInit, LifeTypeOK
  <1>2. OneLiveMapping /\ Occupied
    BY DEF LifeInit, OneLiveMapping, Occupied, Unused
  <1> QED
    BY <1>1, <1>2 DEF LifeInv

\* Whatever the order of pins, maps, unmaps, unpins and frees: a VMA that reaches
\* pages belongs to a pinned buffer whose memory was not freed, and is its only one.
THEOREM OneMapping == LifeSpec => []OneLiveMapping
  <1>1. LifeSpec => []LifeInv
    BY InvInit, InvStep, PTL DEF LifeSpec
  <1>2. LifeInv => OneLiveMapping
    BY DEF LifeInv
  <1> QED
    BY <1>1, <1>2, PTL

=============================================================================
