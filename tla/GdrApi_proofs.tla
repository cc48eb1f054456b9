---------------------------- MODULE GdrApi_proofs ----------------------------
(***************************************************************************)
(* Proofs about the library, for any number of buffers, handles and VMAs,  *)
(* any driver version and any platform: it makes no driver call outside    *)
(* the driver's own rules; as long as handles fit its 32-bit field the     *)
(* handle it keeps is the caller's buffer, what it believes of a mapping   *)
(* is what the driver has, failed calls leave nothing behind, and the      *)
(* counters that choose the fence of a copy are never too low.             *)
(***************************************************************************)
EXTENDS GdrApi, BufferLife_proofs, FiniteSetTheorems

\* The records the library keeps (the counters are left out).
RecordsOK ==
    /\ LifeTypeOK
    /\ memh \in [Memhs -> Memh]
    /\ call \in Call

\* Where a VMA is at hand: in the steps of gdr_map and gdr_unmap that munmap it, and
\* in a handle that is mapped.  gdr_close runs alone.
AddressesKnown ==
    /\ \A mh \in Memhs : gdr_is_mapped(memh[mh].mapping_type) => memh[mh].va \in VMAs
    /\ call.pc # "idle" => call.mh \in Memhs
    /\ call.pc \in {"info", "undo", "undo_close"} => call.v \in VMAs
    /\ call.pc = "unmap_close" => gdr_is_mapped(memh[call.mh].mapping_type)
    /\ fd = "closing" => call.pc = "idle"

\* Handles of pinned buffers are below the counter and different.
HandlesFresh ==
    /\ \A b \in Bufs : buf[b].pinned => buf[b].handle < next
    /\ \A b, c \in Bufs : buf[b].pinned /\ buf[c].pinned /\ buf[b].handle = buf[c].handle
                              => b = c

\* A gdr_memh_t stands for a pinned buffer, and no other stands for the same.
MemhsOwn ==
    /\ \A mh \in Memhs : memh[mh].live =>
          /\ memh[mh].buf \in Bufs
          /\ buf[memh[mh].buf].pinned
          /\ buf[memh[mh].buf].handle = memh[mh].handle
    /\ \A mh, mk \in Memhs : memh[mh].live /\ memh[mk].live /\ memh[mh].buf = memh[mk].buf
                                 => mh = mk

ApiInv == RecordsOK /\ AddressesKnown

-----------------------------------------------------------------------------

\* The empty records have their types.
LEMMA EmptyRecords == NoMemh \in Memh /\ NoCall \in Call
  BY DEF NoMemh, Memh, NoCall, Call, Types

\* What gdr_pin_buffer puts on the list: a handle that is not mapped.
LEMMA NewMemhFields ==
  ASSUME NEW b \in Bufs, NEW h \in Nat
  PROVE  /\ NewMemh(b, h) \in Memh
         /\ NewMemh(b, h).mapping_type = "NONE" /\ NewMemh(b, h).live
         /\ NewMemh(b, h).buf = b /\ NewMemh(b, h).handle = h
  BY DEF NewMemh, NoMemh, Memh, Types

\* Every step of the library, and what happens around it, makes a step that the
\* driver allows, or none.
LEMMA StepIsLifeStep ==
  ASSUME ApiInv, [Next]_vars
  PROVE  [LifeNext]_life
  <1> USE DEF ApiInv
  <1>1. ASSUME NEW minor \in DriverMinors, gdr_open(minor) PROVE [LifeNext]_life
    BY <1>1 DEF gdr_open, LifeNext
  <1>2. CASE CloseStart \/ CloseDone \/ MapFails \/ MapRejects
    BY <1>2 DEF CloseStart, CloseDone, MapFails, MapRejects, life
  <1>3. ASSUME NEW mh \in Memhs, NEW b \in Bufs, NEW n \in Sizes, NEW ram \in RamPages,
               gdr_pin_buffer(mh, b, n, ram)
        PROVE  [LifeNext]_life
    BY <1>3 DEF gdr_pin_buffer, LifeNext
  <1>4. ASSUME NEW mh \in Memhs, Unpinned(mh) PROVE [LifeNext]_life
    BY <1>4 DEF Unpinned, Found, Matches, LastPinned, LifeNext
  <1>5. ASSUME NEW mh \in Memhs, gdr_unpin_buffer(mh) \/ CloseUnpin(mh) PROVE [LifeNext]_life
    BY <1>4, <1>5 DEF gdr_unpin_buffer, CloseUnpin
  <1>6. ASSUME NEW mh \in Memhs, UnmapStart(mh) PROVE [LifeNext]_life
    BY <1>6 DEF UnmapStart, LifeNext, AddressesKnown
  <1>7. ASSUME NEW mh \in Memhs, NEW flags \in Types, MapStart(mh, flags)
        PROVE  [LifeNext]_life
    BY <1>7 DEF MapStart, Found, Matches, LastPinned, LifeNext
  <1>8. CASE MapUndo
    BY <1>8 DEF MapUndo, At, AddressesKnown, LifeNext
  <1>9. CASE MapUndoClose
    BY <1>9 DEF MapUndoClose, At, AddressesKnown, LifeNext
  <1>10. CASE UnmapDone
    BY <1>10 DEF UnmapDone, At, AddressesKnown, LifeNext
  <1>11. ASSUME NEW type \in Types, MapDone(type) PROVE [LifeNext]_life
    BY <1>11 DEF MapDone, life
  <1>12. ASSUME NEW v \in VMAs, MapMmap(v) PROVE [LifeNext]_life
    BY <1>12 DEF MapMmap, Found, Matches, LastPinned, LifeNext
  <1>13. ASSUME NEW v \in VMAs, LateMunmap(v) \/ OrphanMunmap(v) PROVE [LifeNext]_life
    BY <1>13 DEF LateMunmap, OrphanMunmap, LifeNext
  <1>14. ASSUME NEW b \in Bufs, FreeMemory(b) PROVE [LifeNext]_life
    BY <1>14 DEF FreeMemory, LifeNext
  <1>15. CASE UNCHANGED vars
    BY <1>15 DEF vars, life
  <1> QED
    BY <1>1, <1>2, <1>3, <1>5, <1>6, <1>7, <1>8, <1>9, <1>10, <1>11, <1>12, <1>13,
       <1>14, <1>15 DEF Next

\* Every step keeps the records typed and the addresses at hand.
LEMMA ApiInvStep ==
  ASSUME ApiInv, [Next]_vars
  PROVE  ApiInv'
  <1>0. LifeTypeOK'
    BY StepIsLifeStep, TypeStep DEF ApiInv, RecordsOK
  <1> USE <1>0, EmptyRecords, WordAssumption, NoneAssumption DEF ApiInv, RecordsOK
  <1>1. CASE UNCHANGED <<fd, memh, call>>
    BY <1>1 DEF AddressesKnown
  <1>2. CASE CloseStart \/ CloseDone \/ \E minor \in DriverMinors : gdr_open(minor)
    BY <1>2 DEF gdr_open, CloseStart, CloseDone, Ready, Idle, AddressesKnown
  <1>3. ASSUME NEW mh \in Memhs, NEW b \in Bufs, NEW n \in Sizes, NEW ram \in RamPages,
               gdr_pin_buffer(mh, b, n, ram)
        PROVE  ApiInv'
    <2>1. next % HandleWord \in Nat
      BY WordAssumption DEF LifeTypeOK
    <2>2. /\ NewMemh(b, next % HandleWord) \in Memh
          /\ NewMemh(b, next % HandleWord).mapping_type = "NONE"
      BY <2>1, NewMemhFields
    <2> QED
      BY <1>3, <2>2 DEF gdr_pin_buffer, AddressesKnown, gdr_is_mapped, Ready, Idle
  <1>4. ASSUME NEW mh \in Memhs, gdr_unpin_buffer(mh) \/ CloseUnpin(mh) PROVE ApiInv'
    <2>1. call.pc = "idle" /\ call' = call /\ memh' = [memh EXCEPT ![mh] = NoMemh]
      BY <1>4 DEF gdr_unpin_buffer, CloseUnpin, Unpinned, Ready, Idle, AddressesKnown
    <2>2. NoMemh.mapping_type = "NONE"
      BY DEF NoMemh
    <2> QED
      BY <2>1, <2>2 DEF AddressesKnown, gdr_is_mapped
  <1>6. ASSUME NEW mh \in Memhs, UnmapStart(mh) PROVE ApiInv'
    BY <1>6 DEF UnmapStart, Ready, AddressesKnown, Call, NoCall
  <1>7. ASSUME NEW mh \in Memhs, NEW flags \in Types, MapStart(mh, flags) PROVE ApiInv'
    BY <1>7 DEF MapStart, Ready, AddressesKnown, Call
  <1>8. CASE MapUndo \/ MapRejects
    BY <1>8 DEF MapUndo, MapRejects, At, Goto, AddressesKnown, Call
  <1>9. CASE MapUndoClose \/ MapFails
    BY <1>9 DEF MapUndoClose, MapFails, AddressesKnown, NoCall
  <1>10. CASE UnmapDone
    <2>1. memh' \in [Memhs -> Memh]
      BY <1>10 DEF UnmapDone, Memh, Types
    <2> QED
      BY <1>10, <2>1 DEF UnmapDone, AddressesKnown, NoCall, gdr_is_mapped, Memh
  <1>11. ASSUME NEW type \in Types, MapDone(type) PROVE ApiInv'
    <2>1. call.v \in VMAs /\ call.mh \in Memhs /\ call.flags \in Types
      BY <1>11 DEF MapDone, At, AddressesKnown, Call
    <2>2. memh' \in [Memhs -> Memh]
      BY <1>11, <2>1 DEF MapDone, Memh
    <2> QED
      BY <1>11, <2>1, <2>2 DEF MapDone, AddressesKnown, NoCall, Memh
  <1>12. ASSUME NEW v \in VMAs, MapMmap(v) PROVE ApiInv'
    BY <1>12 DEF MapMmap, At, AddressesKnown, Call
  <1>13. ASSUME NEW v \in VMAs, LateMunmap(v) \/ OrphanMunmap(v) PROVE ApiInv'
    BY <1>1, <1>13 DEF LateMunmap, OrphanMunmap, lib
  <1>14. ASSUME NEW b \in Bufs, FreeMemory(b) PROVE ApiInv'
    BY <1>1, <1>14 DEF FreeMemory, lib
  <1>15. CASE UNCHANGED vars
    BY <1>1, <1>15 DEF vars, lib
  <1> QED
    BY <1>2, <1>3, <1>4, <1>6, <1>7, <1>8, <1>9, <1>10, <1>11, <1>12, <1>13,
       <1>14, <1>15 DEF Next

\* At the start there is no handle and no call.
LEMMA ApiInvInit == Init => ApiInv
  <1> SUFFICES ASSUME Init PROVE ApiInv
    OBVIOUS
  <1>1. LifeTypeOK
    BY InvInit DEF Init, LifeInv
  <1>2. memh \in [Memhs -> Memh] /\ call \in Call
    BY EmptyRecords DEF Init
  <1>3. AddressesKnown
    BY DEF Init, AddressesKnown, NoMemh, NoCall, gdr_is_mapped
  <1> QED
    BY <1>1, <1>2, <1>3 DEF ApiInv, RecordsOK

\* The invariant holds in every state of the library.
LEMMA ApiInvariant == Spec => []ApiInv
  BY ApiInvInit, ApiInvStep, PTL DEF Spec

-----------------------------------------------------------------------------

\* The library keeps to the driver's rules: every behaviour of it is a behaviour of
\* the abstract driver, so that no library call makes two VMAs for a buffer or
\* leaves a VMA on pages that are gone.
THEOREM LibraryImplementsLife == Spec => LifeSpec /\ []OneLiveMapping
  <1>1. Init => LifeInit
    BY DEF Init
  <1>2. ApiInv /\ [Next]_vars => [LifeNext]_life
    BY StepIsLifeStep
  <1>3. Spec => LifeSpec
    BY <1>1, <1>2, ApiInvariant, PTL DEF Spec, LifeSpec
  <1> QED
    BY <1>3, OneMapping, PTL

-----------------------------------------------------------------------------

HandleInv == ApiInv /\ HandlesFresh /\ MemhsOwn

\* Steps that neither pin nor unpin keep what handles stand for.
LEMMA HandlesKept ==
  ASSUME HandlesFresh, MemhsOwn, next' = next,
         \A b \in Bufs : buf'[b].pinned = buf[b].pinned /\ buf'[b].handle = buf[b].handle,
         \A mh \in Memhs : /\ memh'[mh].live = memh[mh].live
                           /\ memh'[mh].buf = memh[mh].buf
                           /\ memh'[mh].handle = memh[mh].handle
  PROVE  HandlesFresh' /\ MemhsOwn'
  BY DEF HandlesFresh, MemhsOwn

\* The driver operations that neither pin nor unpin leave handles alone.
LEMMA LifeKeepsHandles ==
  ASSUME LifeTypeOK,
         \/ UNCHANGED life
         \/ \E b \in Bufs, type \in Types : Request(b, type)
         \/ \E b \in Bufs, v \in VMAs : Map(b, v)
         \/ \E b \in Bufs : Revoke(b)
         \/ \E v \in VMAs : Unmap(v) \/ Close(v)
  PROVE  /\ next' = next
         /\ \A b \in Bufs : buf'[b].pinned = buf[b].pinned /\ buf'[b].handle = buf[b].handle
  <1> USE DEF LifeTypeOK, Buffer
  <1>1. CASE UNCHANGED life
    BY <1>1 DEF life
  <1>2. ASSUME NEW b \in Bufs, NEW type \in Types, Request(b, type)
        PROVE  /\ next' = next
               /\ \A c \in Bufs : buf'[c].pinned = buf[c].pinned /\ buf'[c].handle = buf[c].handle
    BY <1>2 DEF Request
  <1>3. ASSUME NEW b \in Bufs, NEW v \in VMAs, Map(b, v)
        PROVE  /\ next' = next
               /\ \A c \in Bufs : buf'[c].pinned = buf[c].pinned /\ buf'[c].handle = buf[c].handle
    BY <1>3 DEF Map
  <1>4. ASSUME NEW b \in Bufs, Revoke(b)
        PROVE  /\ next' = next
               /\ \A c \in Bufs : buf'[c].pinned = buf[c].pinned /\ buf'[c].handle = buf[c].handle
    BY <1>4 DEF Revoke
  <1>5. ASSUME NEW v \in VMAs, Unmap(v) \/ Close(v)
        PROVE  /\ next' = next
               /\ \A c \in Bufs : buf'[c].pinned = buf[c].pinned /\ buf'[c].handle = buf[c].handle
    BY <1>5 DEF Unmap, Close
  <1> QED
    BY <1>1, <1>2, <1>3, <1>4, <1>5

\* gdr_pin_buffer: the driver's counter is a handle no buffer has, and it fits.
LEMMA PinHandles ==
  ASSUME HandleSpace <= HandleWord, HandleInv, NEW mh \in Memhs, NEW b \in Bufs,
         NEW n \in Sizes, NEW ram \in RamPages, gdr_pin_buffer(mh, b, n, ram)
  PROVE  HandlesFresh' /\ MemhsOwn'
  <1> USE DEF HandleInv, ApiInv, RecordsOK, LifeTypeOK
  <1>1. next < HandleWord /\ next % HandleWord = next
    BY SpaceAssumption, WordAssumption DEF gdr_pin_buffer, Pin
  <1>2. /\ buf' = [buf EXCEPT ![b] = [Gone EXCEPT !.pinned = TRUE, !.handle = next,
                                            !.size = n, !.ram = ram]]
        /\ next' > next /\ ~buf[b].pinned
    BY SpaceAssumption DEF gdr_pin_buffer, Pin
  <1>3. /\ buf'[b].pinned /\ buf'[b].handle = next
        /\ \A c \in Bufs : c # b => buf'[c] = buf[c]
    BY <1>2 DEF Gone
  <1>4. memh' = [memh EXCEPT ![mh] = NewMemh(b, next)] /\ ~memh[mh].live
    BY <1>1 DEF gdr_pin_buffer
  <1>5. NewMemh(b, next).live /\ NewMemh(b, next).buf = b /\ NewMemh(b, next).handle = next
    BY NewMemhFields
  <1>6. next' \in Nat /\ next \in Nat /\ \A c \in Bufs : buf[c].handle \in Nat
    BY SpaceAssumption DEF gdr_pin_buffer, Pin, Buffer
  <1>7. HandlesFresh'
    BY <1>2, <1>3, <1>6 DEF HandlesFresh
  <1>8. MemhsOwn'
    BY <1>2, <1>3, <1>4, <1>5 DEF MemhsOwn
  <1> QED
    BY <1>7, <1>8

\* gdr_unpin_buffer, alone or in gdr_close: the handle goes with its buffer.
LEMMA UnpinHandles ==
  ASSUME HandleInv, NEW mh \in Memhs, memh[mh].live, Unpinned(mh)
  PROVE  HandlesFresh' /\ MemhsOwn'
  <1> USE DEF HandleInv, ApiInv, RecordsOK, LifeTypeOK
  <1>1. Found(mh) = {memh[mh].buf}
    BY DEF Found, Matches, MemhsOwn, HandlesFresh
  <1>2. Unpin(memh[mh].buf) /\ memh' = [memh EXCEPT ![mh] = NoMemh]
    BY <1>1 DEF Unpinned
  <1>3. ~Gone.pinned /\ ~NoMemh.live
    BY DEF Gone, NoMemh
  <1>4. memh[mh].buf \in Bufs /\ buf' = [buf EXCEPT ![memh[mh].buf] = Gone] /\ next' = next
    BY <1>2 DEF Unpin, MemhsOwn
  <1>5. HandlesFresh'
    BY <1>3, <1>4 DEF HandlesFresh
  <1>6. MemhsOwn'
    BY <1>2, <1>3, <1>4 DEF MemhsOwn
  <1> QED
    BY <1>5, <1>6

\* Every step keeps what handles stand for, while they fit in 32 bits.
LEMMA HandleStep ==
  ASSUME HandleSpace <= HandleWord, HandleInv, [Next]_vars
  PROVE  HandleInv'
  <1>0. ApiInv'
    BY ApiInvStep DEF HandleInv
  <1> SUFFICES HandlesFresh' /\ MemhsOwn'
    BY <1>0 DEF HandleInv
  <1> USE DEF HandleInv, ApiInv, RecordsOK
  <1>1. CASE \E minor \in DriverMinors : gdr_open(minor)
    BY <1>1 DEF gdr_open, Fresh, HandlesFresh, MemhsOwn
  <1>2. ASSUME NEW mh \in Memhs, NEW b \in Bufs, NEW n \in Sizes, NEW ram \in RamPages,
               gdr_pin_buffer(mh, b, n, ram)
        PROVE  HandlesFresh' /\ MemhsOwn'
    BY <1>2, PinHandles
  <1>3. ASSUME NEW mh \in Memhs, gdr_unpin_buffer(mh) \/ CloseUnpin(mh)
        PROVE  HandlesFresh' /\ MemhsOwn'
    BY <1>3, UnpinHandles DEF gdr_unpin_buffer, CloseUnpin
  <1>4. CASE UNCHANGED memh /\ UNCHANGED life
    BY <1>4, HandlesKept, LifeKeepsHandles
  <1>5. CASE CloseStart \/ CloseDone \/ MapFails \/ MapRejects
    BY <1>4, <1>5 DEF CloseStart, CloseDone, MapFails, MapRejects
  <1>6. ASSUME NEW mh \in Memhs, UnmapStart(mh) PROVE HandlesFresh' /\ MemhsOwn'
    <2>1. Unmap(memh[mh].va) /\ memh[mh].va \in VMAs /\ UNCHANGED memh
      BY <1>6 DEF UnmapStart, AddressesKnown
    <2> QED
      BY <2>1, HandlesKept, LifeKeepsHandles
  <1>7. ASSUME NEW mh \in Memhs, NEW flags \in Types, MapStart(mh, flags)
        PROVE  HandlesFresh' /\ MemhsOwn'
    <2>1. UNCHANGED memh /\ (UNCHANGED life \/ \E b \in Bufs : Request(b, flags))
      BY <1>7 DEF MapStart, Found, Matches, LastPinned
    <2> QED
      BY <2>1, HandlesKept, LifeKeepsHandles
  <1>8. CASE MapUndo \/ MapUndoClose
    <2>1. UNCHANGED memh /\ call.v \in VMAs /\ (Unmap(call.v) \/ Close(call.v))
      BY <1>8 DEF MapUndo, MapUndoClose, At, AddressesKnown
    <2> QED
      BY <2>1, HandlesKept, LifeKeepsHandles
  <1>9. CASE UnmapDone
    <2>1. /\ call.mh \in Memhs /\ memh[call.mh].va \in VMAs /\ Close(memh[call.mh].va)
          /\ memh' = [memh EXCEPT ![call.mh].mapping_type = "NONE", ![call.mh].va = None]
      BY <1>9 DEF UnmapDone, At, AddressesKnown
    <2>2. \A mk \in Memhs : /\ memh'[mk].live = memh[mk].live
                            /\ memh'[mk].buf = memh[mk].buf
                            /\ memh'[mk].handle = memh[mk].handle
      BY <2>1 DEF Memh
    <2> QED
      BY <2>1, <2>2, HandlesKept, LifeKeepsHandles
  <1>10. ASSUME NEW type \in Types, MapDone(type) PROVE HandlesFresh' /\ MemhsOwn'
    <2>1. UNCHANGED life
          /\ memh' = [memh EXCEPT ![call.mh].mapping_type = type, ![call.mh].va = call.v,
                                  ![call.mh].flags = call.flags]
      BY <1>10 DEF MapDone
    <2>2. \A mk \in Memhs : /\ memh'[mk].live = memh[mk].live
                            /\ memh'[mk].buf = memh[mk].buf
                            /\ memh'[mk].handle = memh[mk].handle
      BY <2>1 DEF Memh
    <2> QED
      BY <2>1, <2>2, HandlesKept, LifeKeepsHandles
  <1>11. ASSUME NEW v \in VMAs, MapMmap(v) PROVE HandlesFresh' /\ MemhsOwn'
    <2>1. UNCHANGED memh /\ \E b \in Bufs : Map(b, v)
      BY <1>11 DEF MapMmap, Found, Matches, LastPinned
    <2> QED
      BY <2>1, HandlesKept, LifeKeepsHandles
  <1>12. ASSUME NEW v \in VMAs, LateMunmap(v) \/ OrphanMunmap(v)
         PROVE  HandlesFresh' /\ MemhsOwn'
    BY <1>12, HandlesKept, LifeKeepsHandles DEF LateMunmap, OrphanMunmap, lib
  <1>13. ASSUME NEW b \in Bufs, FreeMemory(b) PROVE HandlesFresh' /\ MemhsOwn'
    BY <1>13, HandlesKept, LifeKeepsHandles DEF FreeMemory, lib
  <1>14. CASE UNCHANGED vars
    BY <1>4, <1>14 DEF vars, lib
  <1> QED
    BY <1>1, <1>2, <1>3, <1>5, <1>6, <1>7, <1>8, <1>9, <1>10, <1>11, <1>12, <1>13,
       <1>14 DEF Next

\* As long as the driver's page offsets stay below 2^32, the truncated handle of
\* gdr_memh_t finds the buffer it was pinned for and no other, whatever is pinned,
\* unpinned, mapped, freed, closed and opened again.
THEOREM HandlesFindBuffers ==
  ASSUME HandleSpace <= HandleWord
  PROVE  Spec => []HandleFindsOwnBuffer
  <1>1. Init => HandleInv
    <2> SUFFICES ASSUME Init PROVE HandlesFresh /\ MemhsOwn
      BY ApiInvInit DEF HandleInv
    <2> QED
      BY DEF Init, LifeInit, HandlesFresh, MemhsOwn, Gone, NoMemh
  <1>2. HandleInv /\ [Next]_vars => HandleInv'
    BY HandleStep
  <1>3. HandleInv => HandleFindsOwnBuffer
    BY DEF HandleInv, HandlesFresh, MemhsOwn, HandleFindsOwnBuffer, Found, Matches
  <1> QED
    BY <1>1, <1>2, <1>3, PTL DEF Spec

-----------------------------------------------------------------------------
(* The mappings.                                                           *)

\* The library takes mh to be mapped.
Mapped(mh) == gdr_is_mapped(memh[mh].mapping_type)

\* gdr_unmap is between munmap of mh's VMA and the update of the record.
Unmapping(mh) == call.pc = "unmap_close" /\ call.mh = mh

\* gdr_map has made a VMA for mh and has not recorded it yet.
BeingMapped(mh) == call.pc \in {"info", "undo", "undo_close"} /\ call.mh = mh

\* A file that is open knows its driver's version, and only it makes calls.
FileInv ==
    /\ fd \in {"open", "closing", "closed"}
    /\ gdrdrv_version \in DriverMinors \cup {0}
    /\ fd # "closed" => gdrdrv_version \in DriverMinors
    /\ fd = "closed" => \A mh \in Memhs : ~memh[mh].live
    /\ call.pc # "idle" => fd = "open"

\* gdr_map works on a handle that is live and not mapped, and gdr_unmap on a live one.
MapCallInv ==
    /\ call.pc # "idle" => memh[call.mh].live
    /\ call.pc \in {"mmap", "info", "undo", "undo_close"} => ~Mapped(call.mh)

\* The handles with a mapping of a type, and the counter that is never lower.
MappedAs(type) == {mh \in Memhs : memh[mh].mapping_type = type}

CountersInv ==
    /\ counters \in [Types -> Nat]
    /\ \A type \in Types \ {"NONE"} :
          IsFiniteSet(MappedAs(type)) /\ Cardinality(MappedAs(type)) <= counters[type]

CountInv == ApiInv /\ FileInv /\ MapCallInv /\ CountersInv

\* Every pinned buffer has its handle.
BuffersOwned == \A b \in Bufs : buf[b].pinned => \E mh \in Memhs : memh[mh].live /\ memh[mh].buf = b

\* What the driver says of the type of a mapping.
TypesReal ==
    \A b \in Bufs :
        /\ buf[b].revoked => buf[b].type = "NONE"
        /\ buf[b].type = "DEVICE" \/ buf[b].req = "DEVICE" => MustUseDevice

\* A handle that counts as mapped has its VMA, which reaches the pages with the
\* type on record until the memory is freed or the VMA is being unmapped.
MappedInv ==
    \A mh \in Memhs : Mapped(mh) =>
        /\ memh[mh].live
        /\ map[memh[mh].va].of = memh[mh].buf
        /\ IF Unmapping(mh) THEN ~map[memh[mh].va].live
           ELSE \/ buf[memh[mh].buf].revoked
                \/ map[memh[mh].va].live /\ buf[memh[mh].buf].type = memh[mh].mapping_type
        /\ memh[mh].flags \in {"NONE", memh[mh].mapping_type}

\* A handle that does not count as mapped has no VMA, but while gdr_map works on it.
UnmappedInv ==
    \A mh \in Memhs : memh[mh].live /\ ~Mapped(mh) /\ ~BeingMapped(mh) =>
        \A v \in VMAs : map[v].of # memh[mh].buf

\* gdr_map: the VMA it has made is there.
MadeInv ==
    /\ call.pc \in {"info", "undo", "undo_close"} => map[call.v].of = memh[call.mh].buf
    /\ call.pc = "info" => buf[memh[call.mh].buf].revoked \/ map[call.v].live

\* A VMA that has a buffer exists.
UsedInv == \A v \in VMAs : map[v].of # None => map[v].used

MapsInv == UsedInv /\ BuffersOwned /\ TypesReal /\ MappedInv /\ UnmappedInv /\ MadeInv
-----------------------------------------------------------------------------
(* The counters.                                                           *)

\* A handle that goes or changes its type leaves the counters high enough.
LEMMA CountersKept ==
  ASSUME CountersInv, counters' = counters,
         \A mh \in Memhs : memh'[mh].mapping_type \in {"NONE", memh[mh].mapping_type}
  PROVE  CountersInv'
<1>1. ASSUME NEW type \in Types \ {"NONE"}
      PROVE  /\ IsFiniteSet(MappedAs(type)')
             /\ Cardinality(MappedAs(type)') <= counters'[type]
  <2>1. MappedAs(type)' \in SUBSET MappedAs(type)
    BY DEF MappedAs
  <2>2. IsFiniteSet(MappedAs(type)) /\ Cardinality(MappedAs(type)) <= counters[type]
    BY DEF CountersInv
  <2>3. /\ IsFiniteSet(MappedAs(type)')
        /\ Cardinality(MappedAs(type)') <= Cardinality(MappedAs(type))
        /\ Cardinality(MappedAs(type)) \in Nat /\ Cardinality(MappedAs(type)') \in Nat
    BY <2>1, <2>2, FS_Subset, FS_CardinalityType
  <2> HIDE DEF MappedAs
  <2> QED BY <2>2, <2>3 DEF CountersInv
<1> QED BY <1>1 DEF CountersInv

\* gdr_map_v2 counts the mapping it has made.
LEMMA MapCounts ==
  ASSUME ApiInv, MapCallInv, CountersInv, NEW type \in Types, MapDone(type)
  PROVE  CountersInv'
<1>1. /\ call.mh \in Memhs /\ memh[call.mh].mapping_type = "NONE" /\ type # "NONE"
      /\ counters' = [counters EXCEPT ![type] = @ + 1]
      /\ memh' = [memh EXCEPT ![call.mh].mapping_type = type, ![call.mh].va = call.v,
                              ![call.mh].flags = call.flags]
      /\ memh \in [Memhs -> Memh] /\ counters \in [Types -> Nat]
  BY DEF ApiInv, RecordsOK, AddressesKnown, MapCallInv, CountersInv, MapDone, At, Fulfils,
         gdr_is_mapped, Mapped
<1>2. /\ memh'[call.mh].mapping_type = type
      /\ \A mh \in Memhs : mh # call.mh => memh'[mh] = memh[mh]
  BY <1>1 DEF Memh
<1>3. counters' \in [Types -> Nat]
  BY <1>1
<1>4. ASSUME NEW t \in Types \ {"NONE"}
      PROVE  IsFiniteSet(MappedAs(t)') /\ Cardinality(MappedAs(t)') <= counters'[t]
  <2>1. /\ IsFiniteSet(MappedAs(t)) /\ Cardinality(MappedAs(t)) <= counters[t]
        /\ Cardinality(MappedAs(t)) \in Nat /\ counters[t] \in Nat
    BY FS_CardinalityType DEF CountersInv
  <2>2. CASE t # type
    <3>1. MappedAs(t)' = MappedAs(t) /\ counters'[t] = counters[t]
      BY <1>1, <1>2, <2>2 DEF MappedAs
    <3> QED BY <2>1, <3>1
  <2>3. CASE t = type
    <3>1. MappedAs(t)' = MappedAs(t) \cup {call.mh} /\ call.mh \notin MappedAs(t)
      BY <1>1, <1>2, <2>3 DEF MappedAs
    <3>2. /\ IsFiniteSet(MappedAs(t) \cup {call.mh})
          /\ Cardinality(MappedAs(t) \cup {call.mh}) = Cardinality(MappedAs(t)) + 1
      BY <2>1, <3>1, FS_AddElement
    <3>3. counters'[t] = counters[t] + 1
      BY <1>1, <2>3
    <3> HIDE DEF MappedAs
    <3> QED BY <2>1, <3>1, <3>2, <3>3
  <2> QED BY <2>2, <2>3
<1> QED BY <1>3, <1>4 DEF CountersInv

\* gdr_unmap takes one mapping from the counter, which had counted it.
LEMMA UnmapCounts ==
  ASSUME ApiInv, CountersInv, UnmapDone
  PROVE  CountersInv'
<1> DEFINE type == memh[call.mh].mapping_type
<1>1. /\ call.mh \in Memhs /\ type \in Types \ {"NONE"}
      /\ counters' = [counters EXCEPT ![type] = @ - 1]
      /\ memh' = [memh EXCEPT ![call.mh].mapping_type = "NONE", ![call.mh].va = None]
      /\ memh \in [Memhs -> Memh] /\ counters \in [Types -> Nat]
  BY DEF ApiInv, RecordsOK, AddressesKnown, CountersInv, UnmapDone, At, gdr_is_mapped, Memh
<1>2. /\ memh'[call.mh].mapping_type = "NONE"
      /\ \A mh \in Memhs : mh # call.mh => memh'[mh] = memh[mh]
  BY <1>1 DEF Memh
<1>3. ASSUME NEW t \in Types \ {"NONE"}
      PROVE  /\ IsFiniteSet(MappedAs(t)') /\ Cardinality(MappedAs(t)') <= counters'[t]
             /\ counters'[t] \in Nat
  <2>1. /\ IsFiniteSet(MappedAs(t)) /\ Cardinality(MappedAs(t)) <= counters[t]
        /\ Cardinality(MappedAs(t)) \in Nat /\ counters[t] \in Nat
    BY FS_CardinalityType DEF CountersInv
  <2>2. CASE t # type
    <3>1. MappedAs(t)' = MappedAs(t) /\ counters'[t] = counters[t]
      BY <1>1, <1>2, <2>2 DEF MappedAs
    <3> QED BY <2>1, <3>1
  <2>3. CASE t = type
    <3>1. MappedAs(t)' = MappedAs(t) \ {call.mh} /\ call.mh \in MappedAs(t)
      BY <1>1, <1>2, <2>3 DEF MappedAs
    <3>2. /\ IsFiniteSet(MappedAs(t) \ {call.mh})
          /\ Cardinality(MappedAs(t) \ {call.mh}) = Cardinality(MappedAs(t)) - 1
      BY <2>1, <3>1, FS_RemoveElement
    <3>3. Cardinality(MappedAs(t) \ {call.mh}) \in Nat
      BY <3>2, FS_CardinalityType
    <3>4. counters'[t] = counters[t] - 1
      BY <1>1, <2>3
    <3> HIDE DEF MappedAs
    <3> QED BY <2>1, <3>1, <3>2, <3>3, <3>4
  <2> QED BY <2>2, <2>3
<1>4. counters' \in [Types -> Nat]
  <2>1. counters' \in [Types -> Int] /\ \A t \in Types : t # type => counters'[t] \in Nat
    BY <1>1
  <2> QED BY <1>1, <1>3, <2>1
<1> QED BY <1>3, <1>4 DEF CountersInv

\* Every step keeps the counters right, with handles of any width.
LEMMA CountStep ==
  ASSUME CountInv, [Next]_vars
  PROVE  CountInv'
<1>0. ApiInv'
  BY ApiInvStep DEF CountInv
<1> SUFFICES FileInv' /\ MapCallInv' /\ CountersInv'
  BY <1>0 DEF CountInv
<1> USE DEF CountInv
<1>1. CASE UNCHANGED <<fd, gdrdrv_version, memh, counters, call>>
  BY <1>1, CountersKept DEF FileInv, MapCallInv, Mapped
<1>2. ASSUME NEW minor \in DriverMinors, gdr_open(minor) PROVE FileInv' /\ MapCallInv' /\ CountersInv'
  BY <1>2, CountersKept DEF gdr_open, FileInv, MapCallInv, Mapped
<1>3. CASE CloseStart \/ CloseDone
  BY <1>3, CountersKept DEF CloseStart, CloseDone, Ready, Idle, FileInv, MapCallInv, Mapped, ApiInv,
                            AddressesKnown
<1>4. ASSUME NEW mh \in Memhs, NEW b \in Bufs, NEW n \in Sizes, NEW ram \in RamPages,
             gdr_pin_buffer(mh, b, n, ram)
      PROVE  FileInv' /\ MapCallInv' /\ CountersInv'
  <2>1. next % HandleWord \in Nat
    BY WordAssumption DEF ApiInv, RecordsOK, LifeTypeOK
  <2>2. /\ memh' = [memh EXCEPT ![mh] = NewMemh(b, next % HandleWord)]
        /\ call.pc = "idle" /\ fd = "open" /\ UNCHANGED <<fd, gdrdrv_version, counters, call>>
    BY <1>4 DEF gdr_pin_buffer, Ready, Idle
  <2>3. \A mk \in Memhs : memh'[mk].mapping_type \in {"NONE", memh[mk].mapping_type}
    BY <2>1, <2>2, NewMemhFields DEF ApiInv, RecordsOK
  <2> QED BY <2>2, <2>3, CountersKept DEF FileInv, MapCallInv
<1>5. ASSUME NEW mh \in Memhs, gdr_unpin_buffer(mh) \/ CloseUnpin(mh)
      PROVE  FileInv' /\ MapCallInv' /\ CountersInv'
  <2>1. /\ memh' = [memh EXCEPT ![mh] = NoMemh] /\ call.pc = "idle"
        /\ UNCHANGED <<gdrdrv_version, counters, call>>
        /\ fd' \in {"open", "closing"} /\ fd \in {"open", "closing"}
    BY <1>5 DEF gdr_unpin_buffer, CloseUnpin, Unpinned, Ready, Idle, ApiInv, AddressesKnown
  <2>2. \A mk \in Memhs : memh'[mk].mapping_type \in {"NONE", memh[mk].mapping_type}
    BY <2>1 DEF ApiInv, RecordsOK, NoMemh
  <2> QED BY <2>1, <2>2, CountersKept DEF FileInv, MapCallInv
<1>6. ASSUME NEW mh \in Memhs, UnmapStart(mh) PROVE FileInv' /\ MapCallInv' /\ CountersInv'
  <2>1. /\ call' = [NoCall EXCEPT !.pc = "unmap_close", !.mh = mh] /\ fd = "open" /\ memh[mh].live
        /\ UNCHANGED <<fd, gdrdrv_version, memh, counters>>
    BY <1>6 DEF UnmapStart, Ready
  <2> QED BY <2>1, CountersKept DEF FileInv, MapCallInv, NoCall
<1>7. ASSUME NEW mh \in Memhs, NEW flags \in Types, MapStart(mh, flags)
      PROVE  FileInv' /\ MapCallInv' /\ CountersInv'
  BY <1>7, CountersKept DEF MapStart, Ready, FileInv, MapCallInv, Mapped
<1>8. CASE MapFails \/ MapUndoClose
  BY <1>8, CountersKept DEF MapFails, MapUndoClose, NoCall, FileInv, MapCallInv
<1>9. CASE MapRejects \/ MapUndo
  <2>1. /\ call.pc \in {"info", "undo"} /\ call'.pc \in {"undo", "undo_close"}
        /\ call'.mh = call.mh /\ UNCHANGED <<fd, gdrdrv_version, memh, counters>>
    BY <1>9 DEF MapRejects, MapUndo, At, Goto, ApiInv, RecordsOK, Call
  <2> QED BY <2>1, CountersKept DEF FileInv, MapCallInv, Mapped
<1>10. ASSUME NEW v \in VMAs, MapMmap(v) PROVE FileInv' /\ MapCallInv' /\ CountersInv'
  <2>1. /\ call.pc = "mmap" /\ call'.pc = "info"
        /\ call'.mh = call.mh /\ UNCHANGED <<fd, gdrdrv_version, memh, counters>>
    BY <1>10 DEF MapMmap, At, ApiInv, RecordsOK, Call
  <2> QED BY <2>1, CountersKept DEF FileInv, MapCallInv, Mapped
<1>11. ASSUME NEW type \in Types, MapDone(type) PROVE FileInv' /\ MapCallInv' /\ CountersInv'
  <2>1. call.pc = "info" /\ call'.pc = "idle" /\ UNCHANGED <<fd, gdrdrv_version>>
    BY <1>11 DEF MapDone, At, NoCall
  <2> QED BY <1>11, <2>1, MapCounts DEF FileInv, MapCallInv
<1>12. CASE UnmapDone
  <2>1. call.pc = "unmap_close" /\ call'.pc = "idle" /\ UNCHANGED <<fd, gdrdrv_version>>
    BY <1>12 DEF UnmapDone, At, NoCall
  <2> QED BY <1>12, <2>1, UnmapCounts DEF FileInv, MapCallInv
<1>13. ASSUME NEW v \in VMAs, LateMunmap(v) \/ OrphanMunmap(v)
       PROVE  FileInv' /\ MapCallInv' /\ CountersInv'
  BY <1>1, <1>13 DEF LateMunmap, OrphanMunmap, lib
<1>14. ASSUME NEW b \in Bufs, FreeMemory(b) PROVE FileInv' /\ MapCallInv' /\ CountersInv'
  BY <1>1, <1>14 DEF FreeMemory, lib
<1>15. CASE UNCHANGED vars
  BY <1>1, <1>15 DEF vars, lib
<1> QED
  BY <1>2, <1>3, <1>4, <1>5, <1>6, <1>7, <1>8, <1>9, <1>10, <1>11, <1>12, <1>13,
     <1>14, <1>15 DEF Next

\* At the start no file is open, nothing is mapped and nothing is counted.
LEMMA CountInit == Init => CountInv
<1> SUFFICES ASSUME Init PROVE FileInv /\ MapCallInv /\ CountersInv
  BY ApiInvInit DEF CountInv
<1>1. FileInv /\ MapCallInv
  BY DEF Init, FileInv, MapCallInv, NoCall, NoMemh
<1>2. \A type \in Types \ {"NONE"} : MappedAs(type) = {}
  BY DEF Init, MappedAs, NoMemh
<1>3. CountersInv
  BY <1>2, FS_EmptySet DEF Init, CountersInv
<1> QED BY <1>1, <1>3

\* The counters are right in every state of the library.
LEMMA CountInvariant == Spec => []CountInv
  BY CountInit, CountStep, PTL DEF Spec

\* The library's state has its type in every state; in particular gdr_unmap never
\* takes a counter of mappings below zero, whatever is unpinned while mapped and
\* closed and opened again, and even when handles are cut off to 32 bits.
THEOREM ApiTypeCorrect == Spec => []ApiTypeOK
<1>1. CountInv => ApiTypeOK
  BY DEF CountInv, ApiInv, RecordsOK, FileInv, CountersInv, ApiTypeOK
<1> QED BY <1>1, CountInvariant, PTL

-----------------------------------------------------------------------------
(* What the driver's operations change, field by field.                    *)

\* munmap, first half: the pages are out of reach.
LEMMA UnmapFields ==
  ASSUME LifeTypeOK, NEW v \in VMAs, Unmap(v)
  PROVE  /\ buf' = buf
         /\ map'[v].of = map[v].of /\ map'[v].used /\ ~map'[v].live
         /\ \A w \in VMAs : w # v => map'[w] = map[w]
  BY DEF Unmap, LifeTypeOK, Mapping

\* munmap, second half: the VMA is gone and its buffer is not mapped.
LEMMA CloseFields ==
  ASSUME LifeTypeOK, NEW v \in VMAs, Close(v)
  PROVE  /\ \A b \in Bufs : /\ buf'[b].pinned = buf[b].pinned /\ buf'[b].revoked = buf[b].revoked
                            /\ buf'[b].req = buf[b].req
                            /\ buf'[b].type = IF b = map[v].of THEN "NONE" ELSE buf[b].type
         /\ map'[v].of = None /\ ~map'[v].live
         /\ \A w \in VMAs : w # v => map'[w] = map[w]
  BY DEF Close, LifeTypeOK, Buffer, Mapping, Unused

\* Unpinning: the buffer is gone and its VMA reaches nothing.
LEMMA UnpinFields ==
  ASSUME LifeTypeOK, NEW b \in Bufs, Unpin(b)
  PROVE  /\ buf'[b] = Gone
         /\ \A c \in Bufs : c # b => buf'[c] = buf[c]
         /\ \A v \in VMAs : map'[v] = IF map[v].of = b THEN Orphan ELSE map[v]
  BY DEF Unpin, LifeTypeOK

\* Pinning: a buffer without a mapping.
LEMMA PinFields ==
  ASSUME LifeTypeOK, NEW b \in Bufs, NEW n \in Sizes, NEW ram \in RamPages, Pin(b, n, ram)
  PROVE  /\ ~buf[b].pinned /\ buf'[b].pinned
         /\ ~buf'[b].revoked /\ buf'[b].type = "NONE" /\ buf'[b].req = "NONE"
         /\ \A c \in Bufs : c # b => buf'[c] = buf[c]
         /\ map' = map
  BY DEF Pin, LifeTypeOK, Gone

\* Freeing the GPU memory: the buffer's VMA reaches nothing.
LEMMA RevokeFields ==
  ASSUME LifeTypeOK, NEW b \in Bufs, Revoke(b)
  PROVE  /\ buf'[b].revoked /\ buf'[b].type = "NONE"
         /\ \A c \in Bufs : buf'[c].pinned = buf[c].pinned /\ buf'[c].req = buf[c].req
         /\ \A c \in Bufs : c # b => buf'[c] = buf[c]
         /\ \A v \in VMAs : map'[v].of = map[v].of /\ map'[v].used = map[v].used
         /\ \A v \in VMAs : map'[v].live => map[v].live
         /\ \A v \in VMAs : map[v].of # b => map'[v] = map[v]
  BY DEF Revoke, LifeTypeOK, Buffer, Mapping

\* Asking for a type: only what was asked for changes, and the platform allows it.
LEMMA RequestFields ==
  ASSUME LifeTypeOK, NEW b \in Bufs, NEW type \in Types, Request(b, type)
  PROVE  /\ \A c \in Bufs : /\ buf'[c].pinned = buf[c].pinned /\ buf'[c].revoked = buf[c].revoked
                            /\ buf'[c].type = buf[c].type
                            /\ buf'[c].req = IF c = b THEN type ELSE buf[c].req
         /\ type = "DEVICE" => MustUseDevice
         /\ map' = map
  BY DEF Request, Allowed, LifeTypeOK, Buffer

\* mmap: the VMA reaches the pages with a type that the platform allows.
LEMMA MapFields ==
  ASSUME LifeTypeOK, NEW b \in Bufs, NEW v \in VMAs, Map(b, v)
  PROVE  /\ ~map[v].used /\ ~buf[b].revoked
         /\ buf'[b].type \in Types \ {"NONE"}
         /\ buf'[b].type = "DEVICE" => MustUseDevice \/ buf[b].req = "DEVICE"
         /\ \A c \in Bufs : /\ buf'[c].pinned = buf[c].pinned /\ buf'[c].revoked = buf[c].revoked
                            /\ buf'[c].req = buf[c].req
         /\ \A c \in Bufs : c # b => buf'[c] = buf[c]
         /\ map'[v].used /\ map'[v].of = b /\ map'[v].live
         /\ \A w \in VMAs : w # v => map'[w] = map[w]
<1>1. NewType(b) = "DEVICE" => MustUseDevice \/ buf[b].req = "DEVICE"
  BY DEF NewType, DefaultType
<1>2. NewType(b) \in Types \ {"NONE"}
  BY NewTypeIsReal
<1> HIDE DEF NewType
<1> QED BY <1>1, <1>2 DEF Map, LifeTypeOK, Buffer, Mapping

\* While handles fit, the driver finds the handle's own buffer.
LEMMA OwnBuffer ==
  ASSUME HandleInv, NEW mh \in Memhs, memh[mh].live
  PROVE  memh[mh].buf \in Bufs /\ buf[memh[mh].buf].pinned /\ Found(mh) = {memh[mh].buf}
  BY DEF HandleInv, HandlesFresh, MemhsOwn, Found, Matches

-----------------------------------------------------------------------------
(* Beliefs and mappings.                                                   *)

BeliefInv == HandleInv /\ LifeInv /\ CountInv /\ MapsInv

\* Every step keeps what the library believes true, while handles fit in 32 bits.
LEMMA MapsStep ==
  ASSUME BeliefInv, [Next]_vars
  PROVE  MapsInv'
<1>1. LifeTypeOK /\ memh \in [Memhs -> Memh] /\ call \in Call
  BY DEF BeliefInv, LifeInv, HandleInv, ApiInv, RecordsOK
<1>2. /\ \A mh \in Memhs : memh[mh].live => memh[mh].buf \in Bufs /\ buf[memh[mh].buf].pinned
      /\ \A mh, mk \in Memhs : memh[mh].live /\ memh[mk].live /\ memh[mh].buf = memh[mk].buf
                                   => mh = mk
  BY DEF BeliefInv, HandleInv, MemhsOwn
<1>3. /\ \A v, w \in VMAs : v # w /\ map[v].of = map[w].of => map[v].of = None
      /\ \A v \in VMAs : map[v].of # None => buf[map[v].of].pinned
  BY DEF BeliefInv, LifeInv, OneLiveMapping, Occupied
<1>4. \A mh \in Memhs : Mapped(mh) => memh[mh].va \in VMAs
  BY DEF BeliefInv, HandleInv, ApiInv, AddressesKnown, Mapped
<1>5. None \notin Bufs
  BY NoneAssumption
<1>6. /\ UsedInv /\ BuffersOwned /\ TypesReal /\ MappedInv /\ UnmappedInv /\ MadeInv
      /\ FileInv /\ MapCallInv /\ AddressesKnown
  BY DEF BeliefInv, MapsInv, CountInv, ApiInv
<1>7. CASE UNCHANGED <<buf, map, memh, call>>
  BY <1>6, <1>7 DEF MapsInv, UsedInv, BuffersOwned, TypesReal, MappedInv, UnmappedInv, MadeInv,
                    Mapped, Unmapping, BeingMapped
<1>8. CASE CloseStart \/ CloseDone \/ \E minor \in DriverMinors : gdr_open(minor)
  BY <1>7, <1>8 DEF CloseStart, CloseDone, gdr_open, Fresh, life
<1>9. ASSUME NEW mh \in Memhs, NEW b \in Bufs, NEW n \in Sizes, NEW ram \in RamPages,
             gdr_pin_buffer(mh, b, n, ram)
      PROVE  MapsInv'
  <2>1. next % HandleWord \in Nat
    BY <1>1, WordAssumption DEF LifeTypeOK
  <2>2. /\ memh' = [memh EXCEPT ![mh] = NewMemh(b, next % HandleWord)] /\ ~memh[mh].live
        /\ call' = call /\ call.pc = "idle" /\ Pin(b, n, ram)
    BY <1>9 DEF gdr_pin_buffer, Ready, Idle
  <2>3. /\ memh'[mh].live /\ memh'[mh].mapping_type = "NONE" /\ memh'[mh].buf = b
        /\ \A mk \in Memhs : mk # mh => memh'[mk] = memh[mk]
    BY <1>1, <2>1, <2>2, NewMemhFields
  <2>4. /\ ~buf[b].pinned /\ buf'[b].pinned
        /\ ~buf'[b].revoked /\ buf'[b].type = "NONE" /\ buf'[b].req = "NONE"
        /\ \A c \in Bufs : c # b => buf'[c] = buf[c]
        /\ map' = map
    BY <1>1, <2>2, PinFields
  <2>5. UsedInv' /\ BuffersOwned' /\ TypesReal'
    BY <1>6, <2>2, <2>3, <2>4 DEF UsedInv, BuffersOwned, TypesReal
  <2>6. MappedInv'
    BY <1>2, <1>6, <2>2, <2>3, <2>4 DEF MappedInv, Mapped, Unmapping, gdr_is_mapped
  <2>7. UnmappedInv'
    BY <1>3, <1>5, <1>6, <2>2, <2>3, <2>4 DEF UnmappedInv, Mapped, BeingMapped, gdr_is_mapped
  <2> QED BY <2>2, <2>5, <2>6, <2>7 DEF MapsInv, MadeInv
<1>10. ASSUME NEW mh \in Memhs, gdr_unpin_buffer(mh) \/ CloseUnpin(mh) PROVE MapsInv'
  <2> DEFINE b == memh[mh].buf
  <2>1. memh[mh].live /\ Unpinned(mh) /\ call.pc = "idle" /\ call' = call
    BY <1>6, <1>10 DEF gdr_unpin_buffer, CloseUnpin, Unpinned, Ready, Idle, AddressesKnown
  <2>2. b \in Bufs /\ Found(mh) = {b}
    BY <2>1, OwnBuffer DEF BeliefInv
  <2>3. Unpin(b) /\ memh' = [memh EXCEPT ![mh] = NoMemh]
    BY <2>1, <2>2 DEF Unpinned
  <2>4. /\ buf'[b] = Gone
        /\ \A c \in Bufs : c # b => buf'[c] = buf[c]
        /\ \A v \in VMAs : map'[v] = IF map[v].of = b THEN Orphan ELSE map[v]
    BY <1>1, <2>2, <2>3, UnpinFields
  <2>5. /\ ~memh'[mh].live /\ memh'[mh].mapping_type = "NONE"
        /\ \A mk \in Memhs : mk # mh => memh'[mk] = memh[mk]
    BY <1>1, <2>3 DEF NoMemh
  <2>6. /\ ~Gone.pinned /\ ~Gone.revoked /\ Gone.type = "NONE" /\ Gone.req = "NONE"
        /\ Orphan.of = None /\ Orphan.used
    BY DEF Gone, Orphan
  <2>7. \A mk \in Memhs : mk # mh /\ memh[mk].live => memh[mk].buf # b
    BY <1>2, <2>1
  <2>8. UsedInv' /\ BuffersOwned' /\ TypesReal'
    BY <1>2, <1>6, <2>2, <2>4, <2>5, <2>6, <2>7 DEF UsedInv, BuffersOwned, TypesReal
  <2>9. MappedInv'
    BY <1>2, <1>4, <1>6, <2>1, <2>4, <2>5, <2>7 DEF MappedInv, Mapped, Unmapping, gdr_is_mapped
  <2>10. UnmappedInv'
    BY <1>2, <1>5, <1>6, <2>1, <2>4, <2>5, <2>6, <2>7 DEF UnmappedInv, Mapped, BeingMapped
  <2> QED BY <2>1, <2>8, <2>9, <2>10 DEF MapsInv, MadeInv
<1>11. ASSUME NEW mh \in Memhs, NEW flags \in Types, MapStart(mh, flags) PROVE MapsInv'
  <2>1. /\ memh' = memh /\ call.pc = "idle" /\ call'.pc = "mmap"
        /\ UNCHANGED <<buf, map>> \/ \E b \in Bufs : Request(b, flags)
    BY <1>11 DEF MapStart, Ready, Idle, Found, Matches, LastPinned, life
  <2>2. /\ map' = map
        /\ \A c \in Bufs : /\ buf'[c].pinned = buf[c].pinned /\ buf'[c].revoked = buf[c].revoked
                           /\ buf'[c].type = buf[c].type
                           /\ buf'[c].req = buf[c].req \/ (buf'[c].req = "DEVICE" => MustUseDevice)
    BY <1>1, <2>1, RequestFields
  <2>3. UsedInv' /\ BuffersOwned' /\ TypesReal'
    BY <1>6, <2>1, <2>2 DEF UsedInv, BuffersOwned, TypesReal
  <2>4. MappedInv'
    BY <1>2, <1>6, <2>1, <2>2 DEF MappedInv, Mapped, Unmapping
  <2>5. UnmappedInv'
    BY <1>6, <2>1, <2>2 DEF UnmappedInv, Mapped, BeingMapped
  <2> QED BY <2>1, <2>3, <2>4, <2>5 DEF MapsInv, MadeInv
<1>12. ASSUME NEW v \in VMAs, MapMmap(v) PROVE MapsInv'
  <2> DEFINE b == memh[call.mh].buf
  <2>1. /\ call.pc = "mmap" /\ call'.pc = "info" /\ call'.mh = call.mh /\ call'.v = v
        /\ memh' = memh /\ \E c \in Found(call.mh) : Map(c, v)
        /\ call.mh \in Memhs /\ memh[call.mh].live /\ ~Mapped(call.mh)
    BY <1>1, <1>6, <1>12 DEF MapMmap, At, Call, AddressesKnown, MapCallInv
  <2>2. b \in Bufs /\ Map(b, v)
    BY <2>1, OwnBuffer DEF BeliefInv
  <2>3. /\ ~map[v].used /\ ~buf[b].revoked
        /\ buf'[b].type \in Types \ {"NONE"}
        /\ buf'[b].type = "DEVICE" => MustUseDevice \/ buf[b].req = "DEVICE"
        /\ \A c \in Bufs : /\ buf'[c].pinned = buf[c].pinned /\ buf'[c].revoked = buf[c].revoked
                           /\ buf'[c].req = buf[c].req
        /\ \A c \in Bufs : c # b => buf'[c] = buf[c]
        /\ map'[v].used /\ map'[v].of = b /\ map'[v].live
        /\ \A w \in VMAs : w # v => map'[w] = map[w]
    BY <1>1, <2>2, MapFields
  <2>4. map[v].of = None
    BY <1>6, <2>3 DEF UsedInv
  <2>5. \A mk \in Memhs : mk # call.mh /\ memh[mk].live => memh[mk].buf # b
    BY <1>2, <2>1
  <2> HIDE DEF b
  <2>6. UsedInv' /\ BuffersOwned' /\ TypesReal'
    BY <1>6, <2>1, <2>2, <2>3 DEF UsedInv, BuffersOwned, TypesReal
  <2>7. MappedInv'
    <3> SUFFICES ASSUME NEW mh \in Memhs, Mapped(mh)'
                 PROVE  /\ memh'[mh].live
                        /\ map'[memh'[mh].va].of = memh'[mh].buf
                        /\ \/ buf'[memh'[mh].buf].revoked
                           \/ /\ map'[memh'[mh].va].live
                              /\ buf'[memh'[mh].buf].type = memh'[mh].mapping_type
                        /\ memh'[mh].flags \in {"NONE", memh'[mh].mapping_type}
      BY <2>1 DEF MappedInv, Unmapping
    <3>1. Mapped(mh) /\ mh # call.mh /\ memh[mh].live /\ ~Unmapping(mh)
      BY <1>6, <2>1 DEF Mapped, MappedInv, Unmapping
    <3>2. memh[mh].va \in VMAs /\ memh[mh].va # v /\ memh[mh].buf \in Bufs /\ memh[mh].buf # b
      BY <1>2, <1>4, <1>5, <1>6, <2>4, <2>5, <3>1 DEF MappedInv
    <3> QED BY <1>6, <2>1, <2>3, <3>1, <3>2 DEF MappedInv
  <2>8. UnmappedInv'
    BY <1>6, <2>1, <2>3, <2>5 DEF UnmappedInv, Mapped, BeingMapped
  <2>9. MadeInv'
    BY <2>1, <2>3 DEF MadeInv, b
  <2> QED BY <2>6, <2>7, <2>8, <2>9 DEF MapsInv
<1>13. ASSUME NEW type \in Types, MapDone(type) PROVE MapsInv'
  <2> DEFINE b == memh[call.mh].buf
  <2>1. /\ call.pc = "info" /\ call'.pc = "idle" /\ UNCHANGED <<buf, map>>
        /\ call.mh \in Memhs /\ memh[call.mh].live /\ ~Mapped(call.mh) /\ call.v \in VMAs
        /\ type \in Reported /\ type # "NONE" /\ call.flags \in {"NONE", type}
        /\ map[call.v].of = b /\ (buf[b].revoked \/ map[call.v].live)
    BY <1>6, <1>13 DEF MapDone, At, NoCall, life, AddressesKnown, MapCallInv, MadeInv, Fulfils,
                       gdr_is_mapped
  <2>2. b \in Bufs /\ type = InfoType(buf[b].type) /\ buf[b].type \in Types
    <3>1. b \in Bufs /\ Found(call.mh) = {b}
      BY <2>1, OwnBuffer DEF BeliefInv
    <3> QED BY <1>1, <2>1, <3>1 DEF Reported, LifeTypeOK, Buffer
  <2>3. type = buf[b].type
    <3>1. buf[b].type = "DEVICE" => gdrdrv_version >= 4
      BY <1>6, <2>1, <2>2, PlatformAssumption DEF TypesReal, FileInv
    <3> QED BY <2>1, <2>2, <3>1 DEF InfoType, Types
  <2>4. map[call.v].live
    BY <1>6, <2>1, <2>2, <2>3 DEF TypesReal
  <2>5. /\ memh'[call.mh].live = memh[call.mh].live /\ memh'[call.mh].buf = b /\ memh'[call.mh].mapping_type = type
        /\ memh'[call.mh].va = call.v /\ memh'[call.mh].flags = call.flags
        /\ \A mk \in Memhs : mk # call.mh => memh'[mk] = memh[mk]
    <3>1. memh' = [memh EXCEPT ![call.mh].mapping_type = type, ![call.mh].va = call.v,
                               ![call.mh].flags = call.flags]
      BY <1>13 DEF MapDone
    <3> QED BY <1>1, <2>1, <3>1 DEF Memh
  <2> HIDE DEF b
  <2>6. UsedInv' /\ BuffersOwned' /\ TypesReal'
    <3>1. \A mk \in Memhs : memh'[mk].live = memh[mk].live /\ memh'[mk].buf = memh[mk].buf
      BY <2>1, <2>5 DEF b
    <3> QED BY <1>6, <2>1, <3>1 DEF UsedInv, BuffersOwned, TypesReal
  <2>7. MappedInv'
    <3>1. \A mk \in Memhs : ~Unmapping(mk) /\ ~Unmapping(mk)'
      BY <2>1 DEF Unmapping
    <3>2. \A mk \in Memhs : mk # call.mh => (Mapped(mk)' <=> Mapped(mk))
      BY <2>5 DEF Mapped
    <3> SUFFICES ASSUME NEW mk \in Memhs, Mapped(mk)'
                 PROVE  /\ memh'[mk].live
                        /\ map'[memh'[mk].va].of = memh'[mk].buf
                        /\ \/ buf'[memh'[mk].buf].revoked
                           \/ /\ map'[memh'[mk].va].live
                              /\ buf'[memh'[mk].buf].type = memh'[mk].mapping_type
                        /\ memh'[mk].flags \in {"NONE", memh'[mk].mapping_type}
      BY <3>1 DEF MappedInv
    <3>3. CASE mk = call.mh
      BY <2>1, <2>3, <2>4, <2>5, <3>3
    <3>4. CASE mk # call.mh
      BY <1>6, <2>1, <2>5, <3>1, <3>2, <3>4 DEF MappedInv
    <3> QED BY <3>3, <3>4
  <2>8. UnmappedInv'
    BY <1>6, <2>1, <2>5 DEF UnmappedInv, Mapped, BeingMapped, gdr_is_mapped
  <2> QED BY <2>1, <2>6, <2>7, <2>8 DEF MapsInv, MadeInv
<1>14. CASE MapFails
  BY <1>6, <1>14 DEF MapFails, At, NoCall, life, MapsInv, UsedInv, BuffersOwned, TypesReal,
                     MappedInv, UnmappedInv, MadeInv, Mapped, Unmapping, BeingMapped
<1>15. CASE MapRejects
  <2>1. /\ call.pc = "info" /\ call'.pc = "undo" /\ call'.mh = call.mh /\ call'.v = call.v
        /\ UNCHANGED <<buf, map, memh>>
    BY <1>1, <1>15 DEF MapRejects, At, Goto, Call, life
  <2> QED
    BY <1>6, <2>1 DEF MapsInv, UsedInv, BuffersOwned, TypesReal, MappedInv, UnmappedInv, MadeInv,
                      Mapped, Unmapping, BeingMapped
<1>16. CASE MapUndo
  <2>1. /\ call.pc = "undo" /\ call'.pc = "undo_close" /\ call'.mh = call.mh /\ call'.v = call.v
        /\ memh' = memh /\ Unmap(call.v) /\ call.v \in VMAs /\ call.mh \in Memhs
        /\ memh[call.mh].live /\ ~Mapped(call.mh) /\ map[call.v].of = memh[call.mh].buf
    BY <1>1, <1>6, <1>16 DEF MapUndo, At, Goto, Call, AddressesKnown, MapCallInv, MadeInv
  <2>2. /\ buf' = buf
        /\ map'[call.v].of = map[call.v].of /\ map'[call.v].used /\ ~map'[call.v].live
        /\ \A w \in VMAs : w # call.v => map'[w] = map[w]
    BY <1>1, <2>1, UnmapFields
  <2>3. \A mh \in Memhs : Mapped(mh) => memh[mh].va # call.v
    BY <1>2, <1>6, <2>1 DEF MappedInv
  <2>4. UsedInv' /\ BuffersOwned' /\ TypesReal'
    BY <1>6, <2>1, <2>2 DEF UsedInv, BuffersOwned, TypesReal
  <2>5. MappedInv'
    BY <1>4, <1>6, <2>1, <2>2, <2>3 DEF MappedInv, Mapped, Unmapping
  <2>6. UnmappedInv' /\ MadeInv'
    BY <1>6, <2>1, <2>2 DEF UnmappedInv, MadeInv, Mapped, BeingMapped
  <2> QED BY <2>4, <2>5, <2>6 DEF MapsInv
<1>17. CASE MapUndoClose
  <2> DEFINE b == memh[call.mh].buf
  <2>1. /\ call.pc = "undo_close" /\ call'.pc = "idle"
        /\ memh' = memh /\ Close(call.v) /\ call.v \in VMAs /\ call.mh \in Memhs
        /\ memh[call.mh].live /\ ~Mapped(call.mh) /\ map[call.v].of = b /\ b \in Bufs
    BY <1>2, <1>6, <1>17 DEF MapUndoClose, At, NoCall, AddressesKnown, MapCallInv, MadeInv
  <2>2. /\ \A c \in Bufs : /\ buf'[c].pinned = buf[c].pinned /\ buf'[c].revoked = buf[c].revoked
                           /\ buf'[c].req = buf[c].req
                           /\ buf'[c].type = IF c = map[call.v].of THEN "NONE" ELSE buf[c].type
        /\ map'[call.v].of = None /\ ~map'[call.v].live
        /\ \A w \in VMAs : w # call.v => map'[w] = map[w]
    BY <1>1, <2>1, CloseFields
  <2>3. \A mh \in Memhs : mh # call.mh /\ memh[mh].live => memh[mh].buf # b
    BY <1>2, <2>1
  <2>4. \A w \in VMAs : map'[w].of # b
    BY <1>3, <1>5, <2>1, <2>2
  <2> HIDE DEF b
  <2>5. UsedInv' /\ BuffersOwned' /\ TypesReal'
    BY <1>6, <2>1, <2>2 DEF UsedInv, BuffersOwned, TypesReal
  <2>6. MappedInv'
    <3>1. \A mh \in Memhs : Mapped(mh) => /\ mh # call.mh /\ memh[mh].live /\ memh[mh].va # call.v
                                          /\ memh[mh].va \in VMAs /\ memh[mh].buf \in Bufs
                                          /\ memh[mh].buf # b
      BY <1>2, <1>4, <1>6, <2>1, <2>3 DEF MappedInv
    <3> QED BY <1>6, <2>1, <2>2, <3>1 DEF MappedInv, Mapped, Unmapping
  <2>7. UnmappedInv'
    <3>1. \A mh \in Memhs : memh[mh].live => memh[mh].buf # None
      BY <1>2, <1>5
    <3>2. \A mh \in Memhs : mh = call.mh => memh[mh].buf = b
      BY DEF b
    <3> QED BY <1>6, <2>1, <2>2, <2>4, <3>1, <3>2 DEF UnmappedInv, Mapped, BeingMapped
  <2> QED BY <2>1, <2>5, <2>6, <2>7 DEF MapsInv, MadeInv
<1>18. ASSUME NEW mh \in Memhs, UnmapStart(mh) PROVE MapsInv'
  <2> DEFINE v == memh[mh].va
  <2>1. /\ call.pc = "idle" /\ call'.pc = "unmap_close" /\ call'.mh = mh
        /\ memh' = memh /\ memh[mh].live /\ Mapped(mh) /\ Unmap(v) /\ v \in VMAs
        /\ map[v].of = memh[mh].buf
    BY <1>4, <1>6, <1>18 DEF UnmapStart, Ready, Idle, NoCall, Mapped, MappedInv
  <2>2. /\ buf' = buf
        /\ map'[v].of = map[v].of /\ map'[v].used /\ ~map'[v].live
        /\ \A w \in VMAs : w # v => map'[w] = map[w]
    BY <1>1, <2>1, UnmapFields
  <2>3. \A mk \in Memhs : Mapped(mk) /\ mk # mh => memh[mk].va # v
    BY <1>2, <1>6, <2>1 DEF MappedInv
  <2>4. UsedInv' /\ BuffersOwned' /\ TypesReal'
    BY <1>6, <2>1, <2>2 DEF UsedInv, BuffersOwned, TypesReal
  <2>5. MappedInv'
    BY <1>4, <1>6, <2>1, <2>2, <2>3 DEF MappedInv, Mapped, Unmapping
  <2>6. UnmappedInv'
    BY <1>6, <2>1, <2>2 DEF UnmappedInv, Mapped, BeingMapped
  <2> QED BY <2>1, <2>4, <2>5, <2>6 DEF MapsInv, MadeInv
<1>19. CASE UnmapDone
  <2> DEFINE v == memh[call.mh].va
             b == memh[call.mh].buf
  <2>1. /\ call.pc = "unmap_close" /\ call'.pc = "idle" /\ call.mh \in Memhs
        /\ Close(v) /\ v \in VMAs /\ Mapped(call.mh) /\ memh[call.mh].live
        /\ map[v].of = b /\ b \in Bufs
    BY <1>2, <1>4, <1>6, <1>19
       DEF UnmapDone, At, NoCall, AddressesKnown, Mapped, MappedInv, MapCallInv
  <2>2. /\ \A c \in Bufs : /\ buf'[c].pinned = buf[c].pinned /\ buf'[c].revoked = buf[c].revoked
                           /\ buf'[c].req = buf[c].req
                           /\ buf'[c].type = IF c = map[v].of THEN "NONE" ELSE buf[c].type
        /\ map'[v].of = None /\ ~map'[v].live
        /\ \A w \in VMAs : w # v => map'[w] = map[w]
    BY <1>1, <2>1, CloseFields
  <2>3. /\ memh'[call.mh].live = memh[call.mh].live /\ memh'[call.mh].buf = b /\ memh'[call.mh].mapping_type = "NONE"
        /\ \A mk \in Memhs : mk # call.mh => memh'[mk] = memh[mk]
    <3>1. memh' = [memh EXCEPT ![call.mh].mapping_type = "NONE", ![call.mh].va = None]
      BY <1>19 DEF UnmapDone
    <3> QED BY <1>1, <2>1, <3>1 DEF Memh
  <2>4. \A mk \in Memhs : mk # call.mh /\ memh[mk].live => memh[mk].buf # b
    BY <1>2, <2>1
  <2>5. \A w \in VMAs : map'[w].of # b
    BY <1>3, <1>5, <2>1, <2>2
  <2>6. \A mk \in Memhs : Mapped(mk) /\ mk # call.mh =>
                             /\ memh[mk].live /\ memh[mk].va # v
                             /\ memh[mk].va \in VMAs /\ memh[mk].buf \in Bufs /\ memh[mk].buf # b
    BY <1>2, <1>4, <1>6, <2>1, <2>4 DEF MappedInv
  <2>7. UsedInv' /\ BuffersOwned' /\ TypesReal'
    <3>1. \A mk \in Memhs : memh'[mk].live = memh[mk].live /\ memh'[mk].buf = memh[mk].buf
      BY <2>1, <2>3
    <3> HIDE DEF v, b
    <3> QED BY <1>6, <2>1, <2>2, <3>1 DEF UsedInv, BuffersOwned, TypesReal
  <2> HIDE DEF v, b
  <2>8. MappedInv'
    BY <1>6, <2>1, <2>2, <2>3, <2>6 DEF MappedInv, Mapped, Unmapping, gdr_is_mapped
  <2>9. UnmappedInv'
    <3>1. \A mk \in Memhs : memh[mk].live => memh[mk].buf # None
      BY <1>2, <1>5
    <3> QED BY <1>6, <2>1, <2>2, <2>3, <2>5, <3>1 DEF UnmappedInv, Mapped, BeingMapped
  <2> QED BY <2>1, <2>7, <2>8, <2>9 DEF MapsInv, MadeInv
<1>20. ASSUME NEW v \in VMAs, LateMunmap(v) PROVE MapsInv'
  <2>1. /\ fd = "closed" /\ Close(v) /\ memh' = memh /\ call' = call
        /\ \A mh \in Memhs : ~memh[mh].live /\ ~Mapped(mh)
        /\ call.pc = "idle"
    BY <1>6, <1>20 DEF LateMunmap, lib, FileInv, MappedInv
  <2>2. /\ \A c \in Bufs : /\ buf'[c].pinned = buf[c].pinned /\ buf'[c].revoked = buf[c].revoked
                           /\ buf'[c].req = buf[c].req
                           /\ buf'[c].type = IF c = map[v].of THEN "NONE" ELSE buf[c].type
        /\ map'[v].of = None /\ ~map'[v].live
        /\ \A w \in VMAs : w # v => map'[w] = map[w]
    BY <1>1, <2>1, CloseFields
  <2>3. UsedInv' /\ BuffersOwned' /\ TypesReal'
    BY <1>6, <2>1, <2>2 DEF UsedInv, BuffersOwned, TypesReal
  <2>4. MappedInv' /\ UnmappedInv' /\ MadeInv'
    BY <2>1 DEF MappedInv, UnmappedInv, MadeInv, Mapped
  <2> QED BY <2>3, <2>4 DEF MapsInv
<1>21. ASSUME NEW v \in VMAs, OrphanMunmap(v) PROVE MapsInv'
  <2>1. map[v].of = None /\ Close(v) /\ memh' = memh /\ call' = call /\ call.pc = "idle"
    BY <1>21 DEF OrphanMunmap, lib, Ready, Idle
  <2>2. /\ \A c \in Bufs : /\ buf'[c].pinned = buf[c].pinned /\ buf'[c].revoked = buf[c].revoked
                           /\ buf'[c].req = buf[c].req
                           /\ buf'[c].type = IF c = map[v].of THEN "NONE" ELSE buf[c].type
        /\ map'[v].of = None /\ ~map'[v].live
        /\ \A w \in VMAs : w # v => map'[w] = map[w]
    BY <1>1, <2>1, CloseFields
  <2>3. \A c \in Bufs : buf'[c].type = buf[c].type
    BY <1>5, <2>1, <2>2
  <2>4. \A mh \in Memhs : Mapped(mh) => memh[mh].va # v
    BY <1>2, <1>5, <1>6, <2>1 DEF MappedInv
  <2>5. UsedInv' /\ BuffersOwned' /\ TypesReal'
    BY <1>6, <2>1, <2>2, <2>3 DEF UsedInv, BuffersOwned, TypesReal
  <2>6. MappedInv'
    BY <1>2, <1>4, <1>6, <2>1, <2>2, <2>3, <2>4 DEF MappedInv, Mapped, Unmapping
  <2>7. UnmappedInv'
    BY <1>2, <1>5, <1>6, <2>1, <2>2 DEF UnmappedInv, Mapped, BeingMapped
  <2> QED BY <2>1, <2>5, <2>6, <2>7 DEF MapsInv, MadeInv
<1>22. ASSUME NEW b \in Bufs, FreeMemory(b) PROVE MapsInv'
  <2>1. Revoke(b) /\ memh' = memh /\ call' = call
    BY <1>22 DEF FreeMemory, lib
  <2>2. /\ buf'[b].revoked /\ buf'[b].type = "NONE"
        /\ \A c \in Bufs : buf'[c].pinned = buf[c].pinned /\ buf'[c].req = buf[c].req
        /\ \A c \in Bufs : c # b => buf'[c] = buf[c]
        /\ \A v \in VMAs : map'[v].of = map[v].of /\ map'[v].used = map[v].used
        /\ \A v \in VMAs : map'[v].live => map[v].live
        /\ \A v \in VMAs : map[v].of # b => map'[v] = map[v]
    BY <1>1, <2>1, RevokeFields
  <2>3. UsedInv' /\ BuffersOwned' /\ TypesReal'
    BY <1>6, <2>1, <2>2 DEF UsedInv, BuffersOwned, TypesReal
  <2>4. MappedInv'
    BY <1>2, <1>4, <1>6, <2>1, <2>2 DEF MappedInv, Mapped, Unmapping
  <2>5. UnmappedInv'
    BY <1>6, <2>1, <2>2 DEF UnmappedInv, Mapped, BeingMapped
  <2>6. MadeInv'
    <3>1. call.pc \in {"info", "undo", "undo_close"} =>
             call.v \in VMAs /\ call.mh \in Memhs /\ memh[call.mh].buf \in Bufs
      BY <1>2, <1>6 DEF AddressesKnown, MapCallInv
    <3> QED BY <1>6, <2>1, <2>2, <3>1 DEF MadeInv
  <2> QED BY <2>3, <2>4, <2>5, <2>6 DEF MapsInv
<1>23. CASE UNCHANGED vars
  BY <1>7, <1>23 DEF vars, lib, life
<1> QED
  BY <1>8, <1>9, <1>10, <1>11, <1>12, <1>13, <1>14, <1>15, <1>16, <1>17, <1>18, <1>19, <1>20,
     <1>21, <1>22, <1>23 DEF Next

\* At the start nothing is pinned or mapped.
LEMMA BeliefInit == Init => BeliefInv
<1> SUFFICES ASSUME Init PROVE BeliefInv
  OBVIOUS
<1>1. HandlesFresh /\ MemhsOwn
  BY DEF Init, LifeInit, HandlesFresh, MemhsOwn, Gone, NoMemh
<1>2. LifeInv /\ CountInv
  BY InvInit, CountInit DEF Init
<1>3. MapsInv
  BY DEF Init, LifeInit, MapsInv, UsedInv, BuffersOwned, TypesReal, MappedInv, UnmappedInv, MadeInv,
         Mapped, gdr_is_mapped, NoMemh, NoCall, Gone, Unused
<1> QED BY <1>1, <1>2, <1>3 DEF BeliefInv, HandleInv, CountInv

\* While handles fit in 32 bits, the invariant holds in every state of the library.
LEMMA BeliefInvariant ==
  ASSUME HandleSpace <= HandleWord
  PROVE  Spec => []BeliefInv
<1>1. BeliefInv /\ [Next]_vars => BeliefInv'
  <2> SUFFICES ASSUME BeliefInv, [Next]_vars PROVE BeliefInv'
    OBVIOUS
  <2>1. HandleInv'
    BY HandleStep DEF BeliefInv
  <2>2. LifeInv'
    BY StepIsLifeStep, InvStep DEF BeliefInv, HandleInv
  <2>3. CountInv' /\ MapsInv'
    BY CountStep, MapsStep DEF BeliefInv
  <2> QED BY <2>1, <2>2, <2>3 DEF BeliefInv
<1> QED BY <1>1, BeliefInit, PTL DEF Spec

-----------------------------------------------------------------------------
(* The properties.                                                         *)

\* Between calls, a handle that the library takes for mapped has its VMA on the
\* caller's buffer, with the type on record until the GPU memory is freed: for every
\* driver version (old ones report two bits instead of a type) and every platform.
THEOREM BeliefsTrue ==
  ASSUME HandleSpace <= HandleWord
  PROVE  Spec => []BeliefMatchesDriver
<1>1. BeliefInv => BeliefMatchesDriver
  BY DEF BeliefInv, MapsInv, MappedInv, BeliefMatchesDriver, Mapped, Unmapping, Idle
<1> QED BY <1>1, BeliefInvariant, PTL

\* Between calls every VMA of a pinned buffer is the one on record in a handle: a
\* gdr_map_v2 that fails after mmap has taken its mapping back.
THEOREM NothingLeftBehind ==
  ASSUME HandleSpace <= HandleWord
  PROVE  Spec => []NoLeftoverMapping
<1>1. BeliefInv => NoLeftoverMapping
  <2> SUFFICES ASSUME BeliefInv, NEW v \in VMAs, Ready, map[v].of # None
               PROVE  \E mh \in Memhs : /\ memh[mh].live /\ memh[mh].va = v
                                        /\ gdr_is_mapped(memh[mh].mapping_type)
    BY DEF NoLeftoverMapping
  <2>1. map[v].of \in Bufs /\ buf[map[v].of].pinned
    BY DEF BeliefInv, LifeInv, Occupied, LifeTypeOK, Mapping
  <2>2. PICK mh \in Memhs : memh[mh].live /\ memh[mh].buf = map[v].of
    BY <2>1 DEF BeliefInv, MapsInv, BuffersOwned
  <2>3. Mapped(mh)
    BY <2>2 DEF BeliefInv, MapsInv, UnmappedInv, BeingMapped, Ready, Idle
  <2>4. memh[mh].va \in VMAs /\ map[memh[mh].va].of = map[v].of
    BY <2>2, <2>3 DEF BeliefInv, HandleInv, ApiInv, AddressesKnown, MapsInv, MappedInv, Mapped
  <2>5. memh[mh].va = v
    BY <2>4 DEF BeliefInv, LifeInv, OneLiveMapping
  <2> QED BY <2>2, <2>3, <2>5 DEF Mapped
<1> QED BY <1>1, BeliefInvariant, PTL

\* A mapping in reach has the type on record.
LEMMA UsableType ==
  ASSUME BeliefInv, NEW mh \in Memhs, Usable(mh)
  PROVE  /\ Mapped(mh) /\ buf[memh[mh].buf].type = memh[mh].mapping_type
         /\ memh[mh].flags \in {"NONE", memh[mh].mapping_type}
<1>1. Mapped(mh) /\ map[memh[mh].va].live /\ memh[mh].va \in VMAs
  BY DEF Usable, Mapped, BeliefInv, HandleInv, ApiInv, AddressesKnown
<1>2. ~buf[map[memh[mh].va].of].revoked
  BY <1>1 DEF BeliefInv, LifeInv, OneLiveMapping
<1> QED BY <1>1, <1>2 DEF BeliefInv, MapsInv, MappedInv

\* A mapping in reach that was made with a type asked for has that type, whether the
\* driver was asked (2.5 and later) or only looked at.
THEOREM RequestsHonoured ==
  ASSUME HandleSpace <= HandleWord
  PROVE  Spec => []RequestHonoured
<1>1. BeliefInv => RequestHonoured
  BY UsableType DEF RequestHonoured
<1> QED BY <1>1, BeliefInvariant, PTL

\* While mappings of two types are in reach, gdr_has_mix_mapping says so and copies
\* end with a full fence: the counters may be too high after a mapped handle was
\* unpinned, but are never too low.
THEOREM MixDetected ==
  ASSUME HandleSpace <= HandleWord
  PROVE  Spec => []MixIsDetected
<1>1. BeliefInv => MixIsDetected
  <2> SUFFICES ASSUME BeliefInv, NEW mh \in Memhs, NEW mk \in Memhs, Usable(mh), Usable(mk),
                      buf[memh[mh].buf].type # buf[memh[mk].buf].type
               PROVE  gdr_has_mix_mapping
    BY DEF MixIsDetected
  <2> DEFINE t == memh[mh].mapping_type
             u == memh[mk].mapping_type
             S == {type \in Types : counters[type] # 0}
  <2>1. t \in Types \ {"NONE"} /\ u \in Types \ {"NONE"} /\ t # u
    BY UsableType DEF BeliefInv, HandleInv, ApiInv, RecordsOK, Memh, Mapped, gdr_is_mapped
  <2>2. ASSUME NEW type \in Types \ {"NONE"}, NEW m \in MappedAs(type)
        PROVE  counters[type] # 0
    <3>1. /\ IsFiniteSet(MappedAs(type)) /\ Cardinality(MappedAs(type)) <= counters[type]
          /\ counters[type] \in Nat
      BY DEF BeliefInv, CountInv, CountersInv
    <3>2. Cardinality(MappedAs(type)) # 0 /\ Cardinality(MappedAs(type)) \in Nat
      BY <2>2, <3>1, FS_EmptySet, FS_CardinalityType
    <3> QED BY <3>1, <3>2
  <2>3. {t, u} \in SUBSET S
    BY <2>1, <2>2 DEF MappedAs
  <2>4. IsFiniteSet({t, u}) /\ Cardinality({t, u}) = 2
    <3>1. {t, u} = {t} \cup {u} /\ u \notin {t}
      BY <2>1
    <3>2. IsFiniteSet({t}) /\ Cardinality({t}) = 1
      BY FS_Singleton
    <3>3. IsFiniteSet({t} \cup {u}) /\ Cardinality({t} \cup {u}) = 1 + 1
      BY <3>1, <3>2, FS_AddElement
    <3> QED BY <3>1, <3>3
  <2>5. IsFiniteSet(S)
    <3>1. IsFiniteSet(Types)
      <4>1. Types = {"NONE", "WC", "CACHING"} \cup {"DEVICE"}
            /\ {"NONE", "WC", "CACHING"} = {"NONE", "WC"} \cup {"CACHING"}
            /\ {"NONE", "WC"} = {"NONE"} \cup {"WC"}
        BY DEF Types
      <4>2. IsFiniteSet({"NONE"})
        BY FS_Singleton
      <4>3. IsFiniteSet({"NONE", "WC"})
        BY <4>1, <4>2, FS_AddElement
      <4>4. IsFiniteSet({"NONE", "WC", "CACHING"})
        BY <4>1, <4>3, FS_AddElement
      <4> QED BY <4>1, <4>4, FS_AddElement
    <3>2. S \in SUBSET Types
      OBVIOUS
    <3> QED BY <3>1, <3>2, FS_Subset
  <2>6. Cardinality({t, u}) <= Cardinality(S) /\ Cardinality(S) \in Nat
    BY <2>3, <2>5, FS_Subset, FS_CardinalityType
  <2> HIDE DEF S, t, u
  <2>7. Cardinality(S) > 1
    BY <2>4, <2>6
  <2> QED BY <2>7 DEF gdr_has_mix_mapping, S
<1> QED BY <1>1, BeliefInvariant, PTL

=============================================================================
